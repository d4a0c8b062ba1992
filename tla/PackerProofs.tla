----------------------------- MODULE PackerProofs -----------------------------
(***************************************************************************)
(* What holds of Packer for any images, directories and faults: an image   *)
(* is built by one process at a time, and an image of the container is     *)
(* built from its own configuration.                                       *)
(***************************************************************************)
EXTENDS Packer, TLAPS

\* What is known of every reachable state.
Inv == TypeOK /\ IInv

LEMMA FaultsType ==
  ASSUME faults \in 0 .. MaxFaults, Fault \/ NoFault
  PROVE  faults' \in 0 .. MaxFaults
  BY MaxFaultsAssumption DEF Fault, NoFault

LEMMA NoBuildType == NoBuild \in Build
  BY DEF NoBuild, Build

LEMMA InitInv == Init => Inv
<1> SUFFICES ASSUME Init PROVE Inv
  OBVIOUS
<1>1. TypeOK
  <2>1. snapshots \in [Images -> Seq(Snapshot)]
    BY DEF Init
  <2>2. build \in [Builds -> Build]
    BY NoBuildType DEF Init
  <2>3. path \notin Folders
    BY NamesAssumption DEF Init
  <2>4. \A b \in Builds : build[b].state = "none"
    BY DEF Init, NoBuild
  <2>5. /\ folder \in [Folders -> Remote \cup {None, Partial}]
        /\ table \in [Images -> Builds \cup {None}]
        /\ faults \in 0 .. MaxFaults
    BY MaxFaultsAssumption DEF Init
  <2>6. QED
    BY <2>1, <2>2, <2>3, <2>4, <2>5 DEF Init, TypeOK
<1>2. IInv
  BY DEF Init, IInv, Tracked, Backed, PathOfWorker, BuildsOwn, OwnImagesAreOwn, NoBuild, Own
<1>3. QED
  BY <1>1, <1>2 DEF Inv

-----------------------------------------------------------------------------
(* Initialize.                                                             *)

LEMMA InitializeInv ==
  ASSUME Inv, NEW i \in Images, Initialize(i)
  PROVE  Inv'
<1>1. /\ table' = table /\ build' = build /\ snapshots' = snapshots
      /\ faults' \in 0 .. MaxFaults
  BY FaultsType DEF Initialize, Validated, Inv, TypeOK
<1>2. worker' \in Images \cup {None}
  BY DEF Initialize, Validated, Inv, TypeOK
<1>3. /\ path' \in Own \cup Folders \cup {None}
      /\ folder' \in [Folders -> Remote \cup {None, Partial}]
      /\ path' \in Folders => folder'[path'] \in Remote
  <2>1. CASE i \in Own
    BY <2>1, NamesAssumption, ImagesAssumption DEF Initialize, Inv, TypeOK, Own
  <2>2. CASE i \in Remote /\ folder[FolderOf[i]] # None
    BY <2>2 DEF Initialize, Inv, TypeOK, Own
  <2>3. CASE i \in Remote /\ folder[FolderOf[i]] = None
    <3>1. FolderOf[i] \in Folders
      BY <2>3, FoldersAssumption
    <3>2. path \in Folders => path # FolderOf[i]
      BY <2>3, NamesAssumption, ImagesAssumption DEF Inv, TypeOK
    <3>3. QED
      BY <2>3, <3>1, <3>2 DEF Initialize, Inv, TypeOK, Own
  <2>4. QED
    BY <2>1, <2>2, <2>3 DEF Own
<1>4. PathOfWorker'
  BY NamesAssumption DEF Initialize, Validated, Inv, IInv, PathOfWorker, Own
<1>5. QED
  BY <1>1, <1>2, <1>3, <1>4
     DEF Inv, TypeOK, IInv, Tracked, Backed, BuildsOwn, OwnImagesAreOwn

-----------------------------------------------------------------------------
(* EnsureImage: first an entry is deleted, then a build may be started.    *)

\* The table and the builds, as far as IInv speaks of them.
Consistent(t, d) ==
  /\ t \in [Images -> Builds \cup {None}] /\ d \in [Builds -> Build]
  /\ \A b \in Builds : d[b].state # "none" =>
       /\ d[b].of \in Images /\ d[b].from \in Images
       /\ t[d[b].of] = b
       /\ d[b].of \in Own => d[b].from = d[b].of
  /\ \A b \in Builds : d[b].state = "saving" => d[b].nr \in DOMAIN snapshots[d[b].of]
  /\ \A j \in Images : t[j] # None => d[t[j]].state # "none" /\ d[t[j]].of = j

LEMMA NowConsistent ==
  ASSUME Inv PROVE Consistent(table, build)
  BY DEF Inv, TypeOK, IInv, Consistent, Tracked, Backed, BuildsOwn

LEMMA ForgottenConsistent ==
  ASSUME Inv, NEW i \in Images, table[i] # None
  PROVE  Consistent(Without(i), Forgotten(i)) /\ Without(i)[i] = None
<1>1. table[i] \in Builds /\ build[table[i]].of = i
  BY DEF Inv, TypeOK, IInv, Backed
<1>2. NoBuild.state = "none" /\ NoBuild.state # "saving"
  BY DEF NoBuild
<1>3. Without(i) \in [Images -> Builds \cup {None}]
  BY DEF Inv, TypeOK, Without
<1>4. Forgotten(i) \in [Builds -> Build]
  BY <1>1, NoBuildType DEF Inv, TypeOK, Forgotten
<1>5. \A b \in Builds : Forgotten(i)[b].state # "none" => b # table[i] /\ Forgotten(i)[b] = build[b]
  BY <1>1, <1>2 DEF Forgotten, Inv, TypeOK
<1>6. \A b \in Builds : Forgotten(i)[b].state # "none" => build[b].of # i
  BY <1>1, <1>5 DEF Inv, TypeOK, IInv, Tracked
<1>7. \A j \in Images : Without(i)[j] = IF j = i THEN None ELSE table[j]
  BY DEF Without, Inv, TypeOK
<1>8. \A j \in Images : Without(i)[j] # None =>
        Forgotten(i)[Without(i)[j]].state # "none" /\ Forgotten(i)[Without(i)[j]].of = j
  <2> SUFFICES ASSUME NEW j \in Images, Without(i)[j] # None
               PROVE  Forgotten(i)[Without(i)[j]].state # "none" /\ Forgotten(i)[Without(i)[j]].of = j
    OBVIOUS
  <2>1. j # i /\ Without(i)[j] = table[j] /\ table[j] \in Builds
    BY <1>7 DEF Inv, TypeOK
  <2>2. build[table[j]].state # "none" /\ build[table[j]].of = j
    BY <2>1 DEF Inv, IInv, Backed
  <2>3. table[j] # table[i]
    BY <1>1, <2>1, <2>2
  <2>4. Forgotten(i)[table[j]] = build[table[j]]
    BY <2>1, <2>3 DEF Forgotten, Inv, TypeOK
  <2>5. QED
    BY <2>1, <2>2, <2>4
<1>9. \A b \in Builds : Forgotten(i)[b].state # "none" =>
        /\ Forgotten(i)[b].of \in Images /\ Forgotten(i)[b].from \in Images
        /\ Without(i)[Forgotten(i)[b].of] = b
        /\ Forgotten(i)[b].of \in Own => Forgotten(i)[b].from = Forgotten(i)[b].of
  BY <1>5, <1>6, <1>7 DEF Inv, TypeOK, IInv, Tracked, BuildsOwn
<1>10. \A b \in Builds : Forgotten(i)[b].state = "saving" =>
         Forgotten(i)[b].nr \in DOMAIN snapshots[Forgotten(i)[b].of]
  BY <1>5 DEF Inv, TypeOK
<1>11. QED
  BY <1>3, <1>4, <1>7, <1>8, <1>9, <1>10 DEF Consistent

\* What is built from is there, and is its own configuration for an image of
\* the container.
LEMMA ConfigRight ==
  ASSUME Inv, worker # None
  PROVE  Config \in Images /\ (worker \in Own => Config = worker)
  BY NamesAssumption, ImagesAssumption DEF Inv, TypeOK, IInv, PathOfWorker, Config, Own

LEMMA EnsureConsistent ==
  ASSUME Inv, NEW i \in Images, worker = i, NEW t, NEW d,
         Consistent(t, d), t[i] = None, Ensure(i, t, d)
  PROVE  Consistent(table', build') /\ (Fault \/ NoFault)
<1>1. CASE table' = t /\ build' = d /\ (Fault \/ NoFault)
  BY <1>1
<1>2. ASSUME NEW b \in Builds, d[b].state = "none", NoFault,
             table' = [t EXCEPT ![i] = b],
             build' = [d EXCEPT ![b] = [NoBuild EXCEPT !.state = "running",
                                                       !.of = i, !.from = Config]]
      PROVE  Consistent(table', build')
  <2> DEFINE new == [NoBuild EXCEPT !.state = "running", !.of = i, !.from = Config]
  <2>1. Config \in Images /\ (i \in Own => Config = i)
    BY ConfigRight, NamesAssumption
  <2>2. new \in Build /\ new.state = "running" /\ new.of = i /\ new.from = Config
    BY <2>1 DEF NoBuild, Build
  <2> HIDE DEF new
  <2>3. build' = [d EXCEPT ![b] = new] /\ build' \in [Builds -> Build]
    BY <1>2, <2>2 DEF Consistent, new
  <2>4. table' \in [Images -> Builds \cup {None}]
    BY <1>2 DEF Consistent
  <2>5. \A c \in Builds : build'[c] = IF c = b THEN new ELSE d[c]
    BY <2>3 DEF Consistent
  <2>6. \A j \in Images : table'[j] = IF j = i THEN b ELSE t[j]
    BY <1>2 DEF Consistent
  <2>7. \A c \in Builds : d[c].state # "none" => d[c].of # i
    BY NamesAssumption DEF Consistent
  <2>8. \A c \in Builds : build'[c].state # "none" =>
          /\ build'[c].of \in Images /\ build'[c].from \in Images
          /\ table'[build'[c].of] = c
          /\ build'[c].of \in Own => build'[c].from = build'[c].of
    BY <2>1, <2>2, <2>5, <2>6, <2>7 DEF Consistent
  <2>9. \A c \in Builds : build'[c].state = "saving" => build'[c].nr \in DOMAIN snapshots[build'[c].of]
    BY <2>2, <2>5 DEF Consistent
  <2>10. \A j \in Images : table'[j] # None =>
           build'[table'[j]].state # "none" /\ build'[table'[j]].of = j
    <3> SUFFICES ASSUME NEW j \in Images, table'[j] # None
                 PROVE  build'[table'[j]].state # "none" /\ build'[table'[j]].of = j
      OBVIOUS
    <3>1. CASE j = i
      BY <3>1, <2>2, <2>5, <2>6
    <3>2. CASE j # i
      <4>1. table'[j] = t[j] /\ t[j] \in Builds /\ d[t[j]].state # "none" /\ d[t[j]].of = j
        BY <3>2, <2>6 DEF Consistent
      <4>2. t[j] # b
        BY <4>1, <1>2
      <4>3. QED
        BY <4>1, <4>2, <2>5
    <3>3. QED
      BY <3>1, <3>2
  <2>11. QED
    BY <2>3, <2>4, <2>8, <2>9, <2>10 DEF Consistent
<1>3. QED
  BY <1>1, <1>2 DEF Ensure

LEMMA EnsureImageInv ==
  ASSUME Inv, EnsureImage
  PROVE  Inv'
<1>1. /\ worker \in Images /\ worker # None /\ worker' = None
      /\ path' = path /\ folder' = folder /\ snapshots' = snapshots
  BY DEF EnsureImage, Inv, TypeOK
<1>2. Consistent(table', build') /\ (Fault \/ NoFault)
  <2>1. CASE UNCHANGED <<table, build, faults>>
    BY <2>1, NowConsistent DEF NoFault
  <2>2. CASE table[worker] # None /\ table' = Without(worker) /\ build' = Forgotten(worker) /\ NoFault
    BY <2>2, <1>1, ForgottenConsistent
  <2>3. CASE table[worker] # None /\ Ensure(worker, Without(worker), Forgotten(worker))
    <3>1. Consistent(Without(worker), Forgotten(worker)) /\ Without(worker)[worker] = None
      BY <2>3, <1>1, ForgottenConsistent
    <3>2. QED
      BY <2>3, <1>1, <3>1, EnsureConsistent
  <2>4. CASE table[worker] = None /\ Ensure(worker, table, build)
    BY <2>4, <1>1, NowConsistent, EnsureConsistent
  <2>5. QED
    BY <2>1, <2>2, <2>3, <2>4 DEF EnsureImage
<1>3. faults' \in 0 .. MaxFaults
  BY <1>2, FaultsType DEF Inv, TypeOK
<1>4. TypeOK'
  BY <1>1, <1>2, <1>3 DEF Consistent, Inv, TypeOK
<1>5. IInv'
  BY <1>1, <1>2
     DEF Consistent, Inv, IInv, Tracked, Backed, PathOfWorker, BuildsOwn, OwnImagesAreOwn
<1>6. QED
  BY <1>4, <1>5 DEF Inv

-----------------------------------------------------------------------------
(* The processes, Hetzner, and the end of a process.                       *)

LEMMA SavingType ==
  ASSUME NEW u \in Build, NEW k \in Nat
  PROVE  [u EXCEPT !.state = "saving", !.nr = k] \in Build
  BY DEF Build

LEMMA SavingFields ==
  ASSUME NEW u \in Build, NEW k \in Nat
  PROVE  /\ [u EXCEPT !.state = "saving", !.nr = k].state = "saving"
         /\ [u EXCEPT !.state = "saving", !.nr = k].nr = k
         /\ [u EXCEPT !.state = "saving", !.nr = k].of = u.of
         /\ [u EXCEPT !.state = "saving", !.nr = k].from = u.from
  BY DEF Build

LEMMA BuildStepInv ==
  ASSUME Inv, NEW b \in Builds, BuildStep(b)
  PROVE  Inv'
<1>1. /\ UNCHANGED <<worker, path, folder, table>>
      /\ build[b].state # "none" /\ build[b] \in Build
      /\ build[b].of \in Images /\ build[b].from \in Images
      /\ faults' \in 0 .. MaxFaults
  BY FaultsType DEF BuildStep, Save, Exit, Terminate, Inv, TypeOK, NoFault
<1>2. CASE Save(b)
  <2> DEFINE i == build[b].of
             new == [from |-> build[b].from, state |-> "creating"]
             v == [build[b] EXCEPT !.state = "saving", !.nr = Len(snapshots[i]) + 1]
  <2>1. i \in Images /\ snapshots[i] \in Seq(Snapshot) /\ new \in Snapshot
    BY <1>1 DEF Inv, TypeOK, Snapshot
  <2>2. /\ Append(snapshots[i], new) \in Seq(Snapshot)
        /\ Len(Append(snapshots[i], new)) = Len(snapshots[i]) + 1
        /\ DOMAIN Append(snapshots[i], new) = DOMAIN snapshots[i] \cup {Len(snapshots[i]) + 1}
        /\ \A n \in DOMAIN snapshots[i] : Append(snapshots[i], new)[n] = snapshots[i][n]
        /\ Append(snapshots[i], new)[Len(snapshots[i]) + 1] = new
    BY <2>1
  <2>3. /\ v \in Build /\ v.state = "saving" /\ v.of = i /\ v.from = build[b].from
        /\ v.nr = Len(snapshots[i]) + 1
    <3>1. Len(snapshots[i]) + 1 \in Nat
      BY <2>1
    <3>2. v \in Build
      BY <1>1, <3>1, SavingType
    <3>3. PICK u \in Build, k \in Nat : u = build[b] /\ k = Len(snapshots[i]) + 1
      BY <1>1, <3>1
    <3>4. v = [u EXCEPT !.state = "saving", !.nr = k]
      BY <3>3
    <3> HIDE DEF v
    <3>5. v.state = "saving" /\ v.nr = k /\ v.of = u.of /\ v.from = u.from
      BY <3>4, SavingFields
    <3>6. QED
      BY <3>2, <3>3, <3>5
  <2>4. build' = [build EXCEPT ![b] = v]
    BY <1>2 DEF Save, Inv, TypeOK
  <2>5. snapshots' = [snapshots EXCEPT ![i] = Append(snapshots[i], new)]
    BY <1>2 DEF Save, Inv, TypeOK
  <2> HIDE DEF v, new
  <2>6. \A c \in Builds : build'[c] = IF c = b THEN v ELSE build[c]
    BY <2>4 DEF Inv, TypeOK
  <2>7. \A j \in Images : snapshots'[j] = IF j = i THEN Append(snapshots[i], new) ELSE snapshots[j]
    BY <2>5 DEF Inv, TypeOK
  <2>8. build' \in [Builds -> Build] /\ snapshots' \in [Images -> Seq(Snapshot)]
    BY <2>2, <2>3, <2>4, <2>5 DEF Inv, TypeOK
  <2>9. \A c \in Builds : build'[c].state = "saving" => build'[c].nr \in DOMAIN snapshots'[build'[c].of]
    <3> SUFFICES ASSUME NEW c \in Builds, build'[c].state = "saving"
                 PROVE  build'[c].nr \in DOMAIN snapshots'[build'[c].of]
      OBVIOUS
    <3>1. CASE c = b
      BY <3>1, <2>1, <2>2, <2>3, <2>6, <2>7
    <3>2. CASE c # b
      BY <3>2, <2>1, <2>2, <2>6, <2>7 DEF Inv, TypeOK
    <3>3. QED
      BY <3>1, <3>2
  <2>10. \A c \in Builds : build'[c].state # "none" => build'[c].of \in Images /\ build'[c].from \in Images
    BY <1>1, <2>3, <2>6 DEF Inv, TypeOK
  <2>11. TypeOK'
    BY <1>1, <2>8, <2>9, <2>10 DEF Inv, TypeOK
  <2>12. Tracked' /\ Backed' /\ BuildsOwn'
    <3>1. \A c \in Builds : /\ build'[c].state # "none" => build[c].state # "none"
                            /\ build[c].state # "none" => build'[c].state # "none"
                            /\ build'[c].of = build[c].of /\ build'[c].from = build[c].from
      BY <1>1, <2>3, <2>6
    <3>2. Tracked' /\ BuildsOwn'
      BY <1>1, <3>1 DEF Inv, IInv, Tracked, BuildsOwn
    <3>3. Backed'
      BY <1>1, <3>1 DEF Inv, TypeOK, IInv, Backed
    <3>4. QED
      BY <3>2, <3>3
  <2>13. i \in Own => new.from = i
    BY <1>1 DEF Inv, IInv, BuildsOwn, new
  <2>14. OwnImagesAreOwn'
    <3> SUFFICES ASSUME NEW j \in Own, NEW n \in DOMAIN snapshots'[j]
                 PROVE  snapshots'[j][n].from = j
      BY DEF OwnImagesAreOwn
    <3>1. CASE j = i
      <4>1. snapshots'[j] = Append(snapshots[i], new)
        BY <3>1, <2>1, <2>7
      <4>2. n \in DOMAIN snapshots[i] \/ n = Len(snapshots[i]) + 1
        BY <4>1, <2>2
      <4>3. CASE n \in DOMAIN snapshots[i]
        BY <3>1, <4>1, <4>3, <2>2 DEF Inv, IInv, OwnImagesAreOwn
      <4>4. CASE n = Len(snapshots[i]) + 1
        BY <3>1, <4>1, <4>4, <2>2, <2>13
      <4>5. QED
        BY <4>2, <4>3, <4>4
    <3>2. CASE j # i
      BY <3>2, <2>7 DEF Inv, IInv, OwnImagesAreOwn, Own
    <3>3. QED
      BY <3>1, <3>2
  <2>15. PathOfWorker'
    BY <1>1 DEF Inv, IInv, PathOfWorker
  <2>16. QED
    BY <2>11, <2>12, <2>14, <2>15 DEF Inv, IInv
<1>3. CASE Exit(b) \/ Terminate(b)
  <2>1. PICK v \in Build :
          /\ build' = [build EXCEPT ![b] = v]
          /\ v.of = build[b].of /\ v.from = build[b].from /\ v.state \in {"exited", "terminated"}
    <3> DEFINE u == [build[b] EXCEPT !.state = "exited", !.ok = TRUE]
               w == [build[b] EXCEPT !.state = "exited"]
               x == [build[b] EXCEPT !.state = "terminated"]
    <3>1. /\ u \in Build /\ u.of = build[b].of /\ u.from = build[b].from /\ u.state = "exited"
          /\ w \in Build /\ w.of = build[b].of /\ w.from = build[b].from /\ w.state = "exited"
          /\ x \in Build /\ x.of = build[b].of /\ x.from = build[b].from /\ x.state = "terminated"
      BY <1>1 DEF Build
    <3>2. \/ build' = [build EXCEPT ![b] = u]
          \/ build' = [build EXCEPT ![b] = w]
          \/ build' = [build EXCEPT ![b] = x]
      BY <1>3 DEF Exit, Terminate, Inv, TypeOK
    <3> HIDE DEF u, w, x
    <3>3. QED
      BY <3>1, <3>2
  <2>2. \A c \in Builds : build'[c] = IF c = b THEN v ELSE build[c]
    BY <2>1 DEF Inv, TypeOK
  <2>3. snapshots' = snapshots /\ build' \in [Builds -> Build]
    BY <1>3, <2>1 DEF Exit, Terminate, Inv, TypeOK
  <2>4. TypeOK'
    BY <1>1, <2>1, <2>2, <2>3 DEF Inv, TypeOK
  <2>5. IInv'
    BY <1>1, <2>1, <2>2, <2>3
       DEF Inv, TypeOK, IInv, Tracked, Backed, PathOfWorker, BuildsOwn, OwnImagesAreOwn
  <2>6. QED
    BY <2>4, <2>5 DEF Inv
<1>4. QED
  BY <1>2, <1>3 DEF BuildStep

LEMMA HetznerInv ==
  ASSUME Inv, HetznerStep
  PROVE  Inv'
<1>0. PICK i \in Images : \E n \in DOMAIN snapshots[i] : BecomeAvailable(i, n) \/ DeleteSnapshot(i, n)
  BY DEF HetznerStep
<1>1. PICK n \in DOMAIN snapshots[i] : BecomeAvailable(i, n) \/ DeleteSnapshot(i, n)
  BY <1>0
<1>2. /\ UNCHANGED <<worker, path, folder, table, build>>
      /\ faults' \in 0 .. MaxFaults
  BY <1>1, FaultsType DEF BecomeAvailable, DeleteSnapshot, Inv, TypeOK, NoFault
<1>3. snapshots[i] \in Seq(Snapshot) /\ snapshots[i][n] \in Snapshot
  BY <1>1 DEF Inv, TypeOK
<1>4. PICK v \in Snapshot : v.from = snapshots[i][n].from
                           /\ snapshots' = [snapshots EXCEPT ![i] = [snapshots[i] EXCEPT ![n] = v]]
  <2> DEFINE u == [snapshots[i][n] EXCEPT !.state = "available"]
             w == [snapshots[i][n] EXCEPT !.state = "gone"]
  <2>1. u \in Snapshot /\ u.from = snapshots[i][n].from /\ w \in Snapshot /\ w.from = snapshots[i][n].from
    BY <1>3 DEF Snapshot
  <2>2. \/ snapshots' = [snapshots EXCEPT ![i] = [snapshots[i] EXCEPT ![n] = u]]
        \/ snapshots' = [snapshots EXCEPT ![i] = [snapshots[i] EXCEPT ![n] = w]]
    BY <1>1 DEF BecomeAvailable, DeleteSnapshot, Inv, TypeOK
  <2> HIDE DEF u, w
  <2>3. QED
    BY <2>1, <2>2
<1>5. /\ [snapshots[i] EXCEPT ![n] = v] \in Seq(Snapshot)
      /\ DOMAIN [snapshots[i] EXCEPT ![n] = v] = DOMAIN snapshots[i]
      /\ \A k \in DOMAIN snapshots[i] : [snapshots[i] EXCEPT ![n] = v][k].from = snapshots[i][k].from
  BY <1>3, <1>4
<1>6. \A j \in Images : /\ DOMAIN snapshots'[j] = DOMAIN snapshots[j]
                        /\ \A k \in DOMAIN snapshots[j] : snapshots'[j][k].from = snapshots[j][k].from
  BY <1>4, <1>5 DEF Inv, TypeOK
<1>7. snapshots' \in [Images -> Seq(Snapshot)]
  BY <1>4, <1>5 DEF Inv, TypeOK
<1>8. TypeOK'
  BY <1>2, <1>6, <1>7 DEF Inv, TypeOK
<1>9. IInv'
  BY <1>2, <1>6 DEF Inv, IInv, Tracked, Backed, PathOfWorker, BuildsOwn, OwnImagesAreOwn, Own
<1>10. QED
  BY <1>8, <1>9 DEF Inv

LEMMA CrashInv ==
  ASSUME Inv, Crash
  PROVE  Inv'
<1>1. faults' \in 0 .. MaxFaults
  BY FaultsType DEF Crash, Inv, TypeOK
<1>2. build' \in [Builds -> Build] /\ \A b \in Builds : build'[b].state = "none"
  BY NoBuildType DEF Crash, NoBuild
<1>3. path' \notin Folders
  BY NamesAssumption DEF Crash
<1>4. TypeOK'
  BY <1>1, <1>2, <1>3 DEF Crash, Inv, TypeOK
<1>5. IInv'
  BY <1>2 DEF Crash, Inv, IInv, Tracked, Backed, PathOfWorker, BuildsOwn, OwnImagesAreOwn
<1>6. QED
  BY <1>4, <1>5 DEF Inv

-----------------------------------------------------------------------------
(* The theorems.                                                           *)

LEMMA StepInv ==
  ASSUME Inv, [Next]_vars
  PROVE  Inv'
<1>1. CASE \E i \in Images : Initialize(i)
  BY <1>1, InitializeInv
<1>2. CASE EnsureImage
  BY <1>2, EnsureImageInv
<1>3. CASE ReturnEarly \/ UNCHANGED vars
  BY <1>3 DEF ReturnEarly, vars, Inv, TypeOK, IInv, Tracked, Backed, PathOfWorker,
              BuildsOwn, OwnImagesAreOwn
<1>4. CASE \E b \in Builds : BuildStep(b)
  BY <1>4, BuildStepInv
<1>5. CASE HetznerStep \/ Crash
  BY <1>5, HetznerInv, CrashInv
<1>6. QED
  BY <1>1, <1>2, <1>3, <1>4, <1>5 DEF Next

LEMMA Invariance == Spec => []Inv
  BY InitInv, StepInv, PTL DEF Spec

\* Every reachable state is one the code can represent; in particular the
\* configuration of a build is always one that was validated.
THEOREM TypeCorrect == Spec => []TypeOK
<1>1. Inv => TypeOK
  BY DEF Inv
<1>2. QED
  BY <1>1, Invariance, PTL

\* EnsureImage never starts a second build of an image while one runs, although
\* the goroutine of the first writes the table's build without the lock.
THEOREM OneBuild == Spec => []OneBuildPerImage
<1>1. Inv => OneBuildPerImage
  BY DEF Inv, TypeOK, IInv, Tracked, OneBuildPerImage
<1>2. QED
  BY <1>1, Invariance, PTL

\* A machine whose image is one of the container's gets it from that image's
\* own configuration, although Initialize of every machine overwrites the path:
\* its own Initialize, earlier in the same reconcile, sets it again.
THEOREM OwnImages == Spec => []OwnImagesAreOwn
<1>1. Inv => OwnImagesAreOwn
  BY DEF Inv, IInv
<1>2. QED
  BY <1>1, Invariance, PTL
=============================================================================
