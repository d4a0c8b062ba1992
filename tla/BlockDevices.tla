----------------------------- MODULE BlockDevices -----------------------------
(***************************************************************************)
(* findCorrectDevice (pkg/baremetal/baremetal.go): the drive a bare metal  *)
(* server is installed on, out of what lsblk lists in the rescue system.   *)
(* BareMetalMachine has the case that all drives are SSDs of one size;     *)
(* here are the kinds, the sizes and the order of the list.                *)
(***************************************************************************)
EXTENDS Integers, Sequences, SequencesExt

\* A device's name stands for its place in the order of names; sd: it begins
\* with "sd"; parts: it has no children, children, or one with the label "os".
\* A size is written as tenths of a unit, with a point or with a comma.
Units == {"T", "G", "M", "B"}
Size == [tenths : Nat, unit : Units, comma : BOOLEAN]
Device == [name : Nat \ {0}, sd : BOOLEAN, rotates : BOOLEAN,
           parts : {"none", "plain", "os"}, size : Size]

NoDrive == 0
Answer(drive) == [drive |-> drive, err |-> FALSE]
Error == [drive |-> NoDrive, err |-> TRUE]

\* convertSizeToInt, in MB.  What ReplaceAll returns is dropped: a comma stays,
\* and the number cannot be parsed.
Readable(size) == ~size.comma /\ size.unit # "B"
Megabytes(size) ==
  (size.tenths * (IF size.unit = "T" THEN 1000000
                  ELSE IF size.unit = "G" THEN 1000 ELSE 1)) \div 10

\* The two sorts, by size and then by name from the last one on, leave in front
\* the last of the smallest of those at the places S.
LastOfSmallest(ds, S) ==
  LET smallest == {n \in S : \A m \in S : Megabytes(ds[n].size) <= Megabytes(ds[m].size)}
  IN CHOOSE n \in smallest : \A m \in smallest : ds[m].name <= ds[n].name

IsParted(d) == d.sd /\ d.parts # "none"
IsSystem(d) == d.sd /\ d.parts = "os"
IsFreeSSD(d) == d.sd /\ d.parts = "none" /\ ~d.rotates

Systems(ds)  == {n \in DOMAIN ds : IsSystem(ds[n])}
FreeSSDs(ds) == {n \in DOMAIN ds : IsFreeSSD(ds[n])}

\* Mutant: a device with children is free when none of them is labelled.
FindUnlabelledDevice(ds) ==
  LET systems == Systems(ds)
      free == {n \in DOMAIN ds : ds[n].sd /\ ~ds[n].rotates}
  IN IF \E n, m \in systems : n # m THEN Error
     ELSE IF systems # {} THEN Answer(ds[CHOOSE n \in systems : TRUE].name)
     ELSE IF free = {} \/ \E n \in free : ~Readable(ds[n].size) THEN Error
     ELSE Answer(ds[LastOfSmallest(ds, free)].name)

\* Mutant: a free SSD is preferred to the one with the label.
FindFreshDevice(ds) ==
  LET systems == Systems(ds)
      free == FreeSSDs(ds)
  IN IF \E n \in free : ~Readable(ds[n].size) THEN Error
     ELSE IF free # {} THEN Answer(ds[LastOfSmallest(ds, free)].name)
     ELSE IF \E n \in systems : systems = {n}
          THEN Answer(ds[CHOOSE n \in systems : TRUE].name) ELSE Error

\* The one with the label; without one, of the SSDs without children the only
\* one, or else the smallest.  When there is none, hard disks are put into a list
\* that nothing reads.
FindCorrectDevice(ds) ==
  LET systems == Systems(ds)
      free == FreeSSDs(ds)
  IN IF \E n, m \in systems : n # m THEN Error
     ELSE IF systems # {} THEN Answer(ds[CHOOSE n \in systems : TRUE].name)
     ELSE IF \A n \in DOMAIN ds : IsParted(ds[n]) THEN Error
     ELSE IF free = {} THEN Answer(NoDrive)
     ELSE IF \E n \in free : free = {n} THEN Answer(ds[CHOOSE n \in free : TRUE].name)
     ELSE IF \E n \in free : ~Readable(ds[n].size) THEN Error
     ELSE Answer(ds[LastOfSmallest(ds, free)].name)

\* What lsblk lists once the drive has been installed and labelled.
Install(ds, drive) ==
  [n \in DOMAIN ds |-> IF ds[n].name = drive THEN [ds[n] EXCEPT !.parts = "os"] ELSE ds[n]]

-----------------------------------------------------------------------------
(* Properties of a list ds, whose names differ.                            *)

\* However lsblk orders its list, the same drive is chosen: the labelled one,
\* or a free SSD that no other free SSD comes before.  A device with partitions
\* of its own, which may be somebody's data, never is; one with a file system and
\* no partitions is, for lsblk's FSTYPE is not looked at.
DriveIsRight(ds) ==
  LET r == FindCorrectDevice(ds)
      free == FreeSSDs(ds)
  IN /\ FindCorrectDevice(Reverse(ds)) = r
     /\ r.drive # NoDrive =>
          \E n \in DOMAIN ds :
            /\ ds[n].name = r.drive
            /\ \/ IsSystem(ds[n])
               \/ /\ n \in free
                  /\ \A m \in free \ {n} :
                       \/ Megabytes(ds[m].size) > Megabytes(ds[n].size)
                       \/ /\ Megabytes(ds[m].size) = Megabytes(ds[n].size)
                          /\ ds[m].name < ds[n].name

\* "If no blockdevice has correctly labeled children, we follow a certain set of
\* rules" (baremetal.go:600): a machine that is provisioned again is installed
\* on the drive it was installed on before, by whatever rule that was chosen.
DriveIsKept(ds) ==
  LET drive == FindCorrectDevice(ds).drive
  IN drive # NoDrive => FindCorrectDevice(Install(ds, drive)) = Answer(drive)

\* "This means that there is no SSD available. Then we have to include HDD as
\* well" (baremetal.go:636): a free hard disk is better than no drive.
HardDiskIsTaken(ds) ==
  (\E n \in DOMAIN ds : ds[n].sd /\ ds[n].parts = "none") =>
    LET r == FindCorrectDevice(ds) IN r.err \/ r.drive # NoDrive
=============================================================================
