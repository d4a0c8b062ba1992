-------------------------------- MODULE Packer --------------------------------
(***************************************************************************)
(* Packer (pkg/packer/packer.go) as the HcloudMachine controller uses it:  *)
(* every reconcile calls Initialize, which chooses a configuration, and    *)
(* may go on to EnsureImage, which builds an image from it unless there is *)
(* one with the label of its hash.                                         *)
(*                                                                         *)
(* One Packer serves all machines.  The path of the configuration is one   *)
(* field of it.  A build is a child process and a goroutine that waits for *)
(* it; the goroutine writes what the controller reads under a lock that    *)
(* the goroutine does not take.                                            *)
(***************************************************************************)
EXTENDS Naturals, Sequences

CONSTANTS
  Images,     \* the images machines ask for (name and Kubernetes version: what is hashed)
  Remote,     \* those whose name is a URL; the others are built into the container
  Folders,    \* directories below /tmp
  FolderOf,   \* FolderOf[i]: the directory Initialize looks for
  Builds,     \* builds, at most so many at once
  MaxFaults,  \* bound on failures, crashes and interventions together
  None, Partial

ASSUME ImagesAssumption == Remote \subseteq Images
ASSUME FoldersAssumption == FolderOf \in [Remote -> Folders]
ASSUME MaxFaultsAssumption == MaxFaults \in Nat
ASSUME NamesAssumption ==
  /\ None # Partial /\ Images \cap Folders = {}
  /\ {None, Partial} \cap (Images \cup Folders \cup Builds) = {}

VARIABLES
  worker,     \* the reconcile in flight: its image, once Initialize has returned
  path,       \* packerConfigPath: what is built into the container, or a directory
  folder,     \* folder[f]: whose archive was extracted there
  table,      \* builds, by hash
  build,      \* build[b]: a build, its process and its goroutine
  snapshots,  \* snapshots[i]: those at Hetzner with the label of i, as they were created
  faults

vars == <<worker, path, folder, table, build, snapshots, faults>>

Own == Images \ Remote

\* A process is "running", waits for the image it has asked for ("saving"), or
\* has ended ("exited"); then the goroutine sets terminated.
Build == [state : {"none", "running", "saving", "exited", "terminated"},
          of : Images \cup {None}, from : Images \cup {None}, ok : BOOLEAN, nr : Nat]
NoBuild == [state |-> "none", of |-> None, from |-> None, ok |-> FALSE, nr |-> 0]

\* from: the image whose configuration it was built from.
Snapshot == [from : Images, state : {"creating", "available", "gone"}]

\* Packer validates a configuration before it is used: what is built is there.
TypeOK ==
  /\ worker \in Images \cup {None}
  /\ path \in Own \cup Folders \cup {None}
  /\ folder \in [Folders -> Remote \cup {None, Partial}]
  /\ path \in Folders => folder[path] \in Remote
  /\ table \in [Images -> Builds \cup {None}]
  /\ build \in [Builds -> Build]
  /\ \A b \in Builds : build[b].state # "none" => build[b].of \in Images /\ build[b].from \in Images
  /\ \A b \in Builds : build[b].state = "saving" => build[b].nr \in DOMAIN snapshots[build[b].of]
  /\ snapshots \in [Images -> Seq(Snapshot)]
  /\ faults \in 0 .. MaxFaults

Init ==
  /\ worker = None /\ path = None
  /\ folder = [f \in Folders |-> None]
  /\ table = [i \in Images |-> None]
  /\ build = [b \in Builds |-> NoBuild]
  /\ snapshots = [i \in Images |-> <<>>]
  /\ faults = 0

Fault == faults < MaxFaults /\ faults' = faults + 1
NoFault == UNCHANGED faults

-----------------------------------------------------------------------------
(* Initialize.                                                             *)

\* The configuration is validated: the reconcile goes on, or returns an error.
Validated(i) ==
  \/ path' # None /\ worker' = i /\ NoFault
  \/ path' = None /\ UNCHANGED worker /\ NoFault
  \/ UNCHANGED worker /\ Fault

\* Mutant: the path is set when there is none.
InitializeOnce(i) ==
  /\ worker = None
  /\ IF i \in Own THEN path' = IF path = None THEN i ELSE path
                  ELSE path' = FolderOf[i]
  /\ folder' = IF i \in Own THEN folder ELSE [folder EXCEPT ![FolderOf[i]] = i]
  /\ Validated(i)
  /\ UNCHANGED <<table, build, snapshots>>

\* The path is set for an image of the container, and for a URL only by the
\* call that extracts the archive.  Status.ImageInitialized is set before the
\* patch helper takes its snapshot and so is never persisted: every reconcile
\* comes here.
Initialize(i) ==
  /\ worker = None
  /\ \/ i \in Own /\ path' = i /\ UNCHANGED folder /\ Validated(i)
     \/ /\ i \in Remote /\ folder[FolderOf[i]] # None
        /\ UNCHANGED <<path, folder>> /\ Validated(i)
     \/ /\ i \in Remote /\ folder[FolderOf[i]] = None
        /\ \/ /\ folder' = [folder EXCEPT ![FolderOf[i]] = i] /\ path' = FolderOf[i]
              /\ Validated(i)
           \/ /\ folder' \in {folder, [folder EXCEPT ![FolderOf[i]] = Partial]}
              /\ UNCHANGED <<path, worker>> /\ Fault
  /\ UNCHANGED <<table, build, snapshots>>

-----------------------------------------------------------------------------
(* EnsureImage.                                                            *)

\* ListImages, by the hash; those that are available.  EnsureImage returns the
\* latest, and nothing is remembered of it but the server that is made from it.
Available(i) ==
  {n \in DOMAIN snapshots[i] : snapshots[i][n].state = "available"}

Config == IF path \in Folders THEN folder[path] ELSE path

Unused(b) == build[b].state = "none"

\* EnsureImage, where t is the table without a build that is over and d are the
\* builds as far as they are still referred to.
Ensure(i, t, d) ==
  \/ table' = t /\ build' = d /\ Fault
  \/ Available(i) # {} /\ table' = t /\ build' = d /\ NoFault
  \/ /\ Available(i) = {} /\ NoFault
     /\ \E b \in Builds :
          /\ d[b].state = "none"
          /\ table' = [t EXCEPT ![i] = b]
          /\ build' = [d EXCEPT ![b] = [NoBuild EXCEPT !.state = "running",
                                                       !.of = i, !.from = Config]]

\* The table and the builds once the entry of i is deleted.
Without(i) == [table EXCEPT ![i] = None]
Forgotten(i) == [build EXCEPT ![table[i]] = NoBuild]

\* Mutant: an entry is deleted whether its build is over or not.
EnsureImageAnew ==
  /\ worker # None /\ worker' = None
  /\ Ensure(worker, Without(worker), build)
  /\ UNCHANGED <<path, folder, snapshots>>

\* Mutant: a build that failed stays in the table.
EnsureImageStuck ==
  /\ worker # None /\ worker' = None
  /\ IF table[worker] # None
     THEN UNCHANGED <<table, build, faults>>
     ELSE Ensure(worker, table, build)
  /\ UNCHANGED <<path, folder, snapshots>>

\* A build that runs is waited for; a failed one is deleted and its error
\* returned; one that succeeded is deleted, and then, or with no entry, an image
\* is looked for and a build started.  terminated is read without the goroutine
\* having taken the lock, so the result may not be visible yet: nil.
EnsureImage ==
  /\ worker # None /\ worker' = None
  /\ LET b == table[worker] IN
     \/ /\ b # None /\ build[b].state # "terminated"
        /\ UNCHANGED <<table, build, faults>>
     \/ /\ b # None /\ build[b].state = "terminated" /\ ~build[b].ok
        /\ table' = Without(worker) /\ build' = Forgotten(worker)
        /\ NoFault
     \/ /\ b # None /\ build[b].state = "terminated"
        /\ Ensure(worker, Without(worker), Forgotten(worker))
     \/ b = None /\ Ensure(worker, table, build)
  /\ UNCHANGED <<path, folder, snapshots>>

\* The reconcile ends before it comes to the image: the machine has no owner
\* yet, is paused, waits for its cluster, or is being deleted.
ReturnEarly ==
  /\ worker # None /\ worker' = None
  /\ UNCHANGED <<path, folder, table, build, snapshots, faults>>

-----------------------------------------------------------------------------
(* The child process, its goroutine, and Hetzner.                          *)

\* The process asks for the snapshot of the server it has prepared.
Save(b) ==
  /\ build[b].state = "running"
  /\ snapshots' = [snapshots EXCEPT ![build[b].of] =
       Append(@, [from |-> build[b].from, state |-> "creating"])]
  /\ build' = [build EXCEPT ![b].state = "saving",
                            ![b].nr = Len(snapshots[build[b].of]) + 1]
  /\ UNCHANGED <<worker, path, folder, table, faults>>

\* It ends well once the image is there, or fails at any time.
Exit(b) ==
  /\ \/ /\ build[b].state = "saving" /\ snapshots[build[b].of][build[b].nr].state # "creating"
        /\ build' = [build EXCEPT ![b].state = "exited", ![b].ok = TRUE] /\ NoFault
     \/ /\ build[b].state \in {"running", "saving"}
        /\ build' = [build EXCEPT ![b].state = "exited"] /\ Fault
  /\ UNCHANGED <<worker, path, folder, table, snapshots>>

\* Wait has returned: result, then terminated.
Terminate(b) ==
  /\ build[b].state = "exited" /\ build' = [build EXCEPT ![b].state = "terminated"]
  /\ UNCHANGED <<worker, path, folder, table, snapshots, faults>>

\* An image becomes available, whether somebody waits for it or not.
BecomeAvailable(i, n) ==
  /\ snapshots[i][n].state = "creating"
  /\ snapshots' = [snapshots EXCEPT ![i][n].state = "available"]
  /\ UNCHANGED <<worker, path, folder, table, build, faults>>

\* Somebody deletes an image.
DeleteSnapshot(i, n) ==
  /\ snapshots[i][n].state = "available" /\ Fault
  /\ snapshots' = [snapshots EXCEPT ![i][n].state = "gone"]
  /\ UNCHANGED <<worker, path, folder, table, build>>

\* The process ends, its children with it, and starts in a new container.
Crash ==
  /\ Fault
  /\ worker' = None /\ path' = None
  /\ folder' = [f \in Folders |-> None]
  /\ table' = [i \in Images |-> None]
  /\ build' = [b \in Builds |-> NoBuild]
  /\ UNCHANGED <<snapshots>>

BuildStep(b) == Save(b) \/ Exit(b) \/ Terminate(b)
HetznerStep ==
  \E i \in Images : \E n \in DOMAIN snapshots[i] : BecomeAvailable(i, n) \/ DeleteSnapshot(i, n)

Next ==
  \/ \E i \in Images : Initialize(i)
  \/ EnsureImage \/ ReturnEarly
  \/ \E b \in Builds : BuildStep(b)
  \/ HetznerStep \/ Crash

Spec == Init /\ [][Next]_vars

\* Machines without an image are reconciled every few seconds (server.go:65
\* leads to RequeueAfter) and do come to EnsureImage; processes and goroutines
\* go on, and Hetzner finishes an image.
Fairness ==
  /\ \A i \in Images : SF_vars(Initialize(i) /\ worker' = i) /\ SF_vars(worker = i /\ EnsureImage)
  /\ \A b \in Builds : WF_vars(BuildStep(b))
  /\ \A i \in Images : WF_vars(\E n \in DOMAIN snapshots[i] : BecomeAvailable(i, n))

FairSpec == Spec /\ Fairness

-----------------------------------------------------------------------------
(* Safety.                                                                 *)

\* "check if build is currently running" (packer.go:143): however the table,
\* the processes and the goroutines interleave, an image is not built twice at
\* the same time by one process.
OneBuildPerImage ==
  \A a, b \in Builds :
    /\ build[a].state \in {"running", "saving"} /\ build[b].state \in {"running", "saving"}
    /\ build[a].of = build[b].of
    => a = b

\* The path is shared, but a machine whose image is one of the container's gets
\* it from its own configuration, whatever other machines have initialized before.
OwnImagesAreOwn ==
  \A i \in Own : \A n \in DOMAIN snapshots[i] : snapshots[i][n].from = i

\* What the label promises for every image: it carries the hash of what it was
\* built from ("check if the API has an image already build", packer.go:136).
LabelIsTrue ==
  \A i \in Images : \A n \in DOMAIN snapshots[i] : snapshots[i][n].from = i

\* The inductive invariant: a build is in the table until it has been noticed
\* that it is over, and what is built from, or could be next, is right for the
\* images of the container.
Tracked == \A b \in Builds : build[b].state # "none" => table[build[b].of] = b

Backed == \A i \in Images : table[i] # None => build[table[i]].state # "none" /\ build[table[i]].of = i

PathOfWorker == worker # None => path # None /\ (worker \in Own => path = worker)

BuildsOwn == \A b \in Builds : build[b].state # "none" /\ build[b].of \in Own => build[b].from = build[b].of

IInv == Tracked /\ Backed /\ PathOfWorker /\ BuildsOwn /\ OwnImagesAreOwn

-----------------------------------------------------------------------------
(* Liveness, under FairSpec.                                               *)

\* A machine gets an image that is there in the end, whatever builds failed and
\* were lost, unless the extraction of its archive broke off: the directory is
\* then taken for an extracted one (packer.go:90).
ImageComes ==
  \A i \in Images :
    <>[]\/ Available(i) # {}
        \/ i \in Remote /\ folder[FolderOf[i]] = Partial
=============================================================================
