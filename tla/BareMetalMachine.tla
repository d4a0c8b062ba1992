--------------------------- MODULE BareMetalMachine ---------------------------
(***************************************************************************)
(* The BareMetalMachine controller                                         *)
(* (controllers/baremetalmachine_controller.go) and its service            *)
(* (pkg/baremetal/baremetal.go).                                           *)
(*                                                                         *)
(* Servers are not created: they are taken from those of a Hetzner Robot   *)
(* account, whose names ("cluster--type--machine", "type--anything") say   *)
(* whose they are.  Taking one is a long sequence of calls and SSH         *)
(* commands; its name is set last.  Giving one up only renames it.         *)
(***************************************************************************)
EXTENDS FiniteSets, Naturals

CONSTANTS
  Machines,     \* the names of BareMetalMachine objects, all of one server type
  Servers,      \* the servers of that type in the Robot account
  Drives,       \* the drives of a server, all of them SSDs named sd...
  DataDrives,   \* those that hold somebody's partitions at first
  PlainDrives,  \* those that hold somebody's data without a partition at first
  UsedServers,  \* those that an earlier machine has given back
  SystemDrive,  \* the drive its system was installed on
  MaxFaults,    \* bound on failures, crashes and interventions together
  None, Free, Blank, Rescue, Former

ASSUME DrivesAssumption ==
  DataDrives \cup PlainDrives \subseteq Drives /\ SystemDrive \in Drives
ASSUME MaxFaultsAssumption == MaxFaults \in Nat
ASSUME NamesAssumption ==
  /\ {None, Free, Blank, Rescue, Former} \cap (Machines \cup Servers \cup Drives) = {}
  /\ Former \notin {None, Blank, Rescue}
  /\ None \notin {Free, Blank, Rescue} /\ Free \notin {Blank, Rescue} /\ Blank # Rescue

VARIABLES
  obj,           \* obj[m]: the object in the API server
  cache,         \* cache[m]: the object in the informer cache
  bootstrapped,  \* the machines whose bootstrap secret is there
  srv,           \* srv[s]: server s
  worker,        \* the reconcile in flight
  faults

vars == <<obj, cache, bootstrapped, srv, worker, faults>>

-----------------------------------------------------------------------------
(* The data.                                                               *)

\* failed: Status.FailureReason; the other fields are as in HcloudMachine.
Object == [life : {"absent", "live", "deleting"}, fin : BOOLEAN, ready : BOOLEAN,
           failed : BOOLEAN, pid : Servers \cup {None}]

Absent == [life |-> "absent", fin |-> FALSE, ready |-> FALSE,
           failed |-> FALSE, pid |-> None]
Fresh  == [Absent EXCEPT !.life = "live"]

\* A drive is "empty", or "plain" with a file system right on it, or it has
\* partitions: those of a "system" that was installed, the same with the label
\* "os", or "data".
\* name: whose server it is; rescue: the next boot is into the rescue system;
\* system: what is installed, Blank until it has a machine's user data, Former
\* if it is that of an earlier machine; running: what it has booted.
Server == [name : Machines \cup {Free}, ready : BOOLEAN,
           cancelled : BOOLEAN, rescue : BOOLEAN,
           system : Machines \cup {None, Blank, Former},
           running : Machines \cup {None, Blank, Former, Rescue},
           drives : [Drives -> {"empty", "plain", "data", "system", "os"}]]

Steps == {"idle", "register", "find", "rescue", "reset", "install", "label",
          "reboot", "seed", "restart", "name", "delete", "close", "panic"}

\* snap and work as in HcloudMachine.
WorkerState == [step : Steps, m : Machines \cup {None}, snap : Object, work : Object,
                server : Servers \cup {None}, drive : Drives \cup {None}]

Idle == [step |-> "idle", m |-> None, snap |-> Absent, work |-> Absent,
         server |-> None, drive |-> None]

WithServer == {"rescue", "reset", "install", "label", "reboot", "seed", "restart", "name"}

TypeOK ==
  /\ obj \in [Machines -> Object] /\ cache \in [Machines -> Object]
  /\ bootstrapped \subseteq Machines
  /\ srv \in [Servers -> Server]
  /\ worker \in WorkerState
  /\ worker.step # "idle" => worker.m \in Machines
  /\ worker.step \in WithServer => worker.server \in Servers
  /\ worker.step = "label" => worker.drive \in Drives
  /\ faults \in 0 .. MaxFaults

Init ==
  /\ obj = [m \in Machines |-> Absent] /\ cache = obj
  /\ bootstrapped = {}
  /\ srv = [s \in Servers |->
       LET system == IF s \in UsedServers THEN Former ELSE None IN
       [name |-> Free, ready |-> FALSE, cancelled |-> FALSE, rescue |-> FALSE,
        system |-> system, running |-> system,
        drives |-> [d \in Drives |->
          IF s \in UsedServers /\ d = SystemDrive THEN "os"
          ELSE IF d \in DataDrives THEN "data"
          ELSE IF d \in PlainDrives THEN "plain" ELSE "empty"]]]
  /\ worker = Idle
  /\ faults = 0

Fault == faults < MaxFaults /\ faults' = faults + 1
NoFault == UNCHANGED faults

-----------------------------------------------------------------------------
(* The API server and the patch helper, as in HcloudMachine.               *)

Collected(o) == IF o.life = "deleting" /\ ~o.fin THEN Absent ELSE o

SpecPatched(o, from, to) ==
  Collected([o EXCEPT !.fin = IF from.fin = to.fin THEN @ ELSE to.fin,
                      !.pid = IF from.pid = to.pid THEN @ ELSE to.pid])

StatusPatched(o, from, to) ==
  IF o.life = "absent" THEN o
  ELSE [o EXCEPT !.ready = IF from.ready = to.ready THEN @ ELSE to.ready,
                 !.failed = IF from.failed = to.failed THEN @ ELSE to.failed]

Patched(o, from, to) == StatusPatched(SpecPatched(o, from, to), from, to)

\* Both calls succeed.
PatchDone(m, from, to) ==
  /\ from = to \/ obj[m].life # "absent"
  /\ obj' = [obj EXCEPT ![m] = IF from = to THEN @ ELSE Patched(@, from, to)]
  /\ NoFault

\* The object is not there any more, or a fault leaves any part of the calls.
PatchFails(m, from, to) ==
  \/ from # to /\ obj[m].life = "absent" /\ NoFault /\ UNCHANGED obj
  \/ /\ obj[m].life # "absent" /\ Fault
     /\ \E o \in {obj[m], SpecPatched(obj[m], from, to),
                  StatusPatched(obj[m], from, to), Patched(obj[m], from, to)} :
          obj' = [obj EXCEPT ![m] = o]

-----------------------------------------------------------------------------
(* Servers.                                                                *)

Boot(v) == [v EXCEPT !.running = IF v.rescue THEN Rescue ELSE v.system,
                     !.rescue = FALSE]

\* listMatchingMachines and findAttachedMachine: the servers named for m.
Attached(m) == {s \in Servers : srv[s].name = m}

\* findNewMachine: a server that is nobody's, and is paid for long enough.
Available == {s \in Servers : srv[s].name = Free /\ ~srv[s].cancelled}

\* Mutant: a drive is usable unless it carries the label.
AnyDrive(v) ==
  LET os == {d \in Drives : v.drives[d] = "os"}
  IN IF os = {} THEN Drives ELSE os

\* findCorrectDevice: the one that carries the label "os", or one without
\* partitions, whatever file system it has; more than one label is an error.
CorrectDevice(v) ==
  LET os == {d \in Drives : v.drives[d] = "os"}
  IN IF os = {} THEN {d \in Drives : v.drives[d] \in {"empty", "plain"}}
     ELSE IF Cardinality(os) = 1 THEN os ELSE {}

-----------------------------------------------------------------------------
(* The worker: reconcileNormal.                                            *)

Goto(step) == worker' = [worker EXCEPT !.step = step]
Leave == Goto("close")

\* A remote call fails: an error is returned, or runSSH panics because it
\* cannot open a session.
Fails == Fault /\ (Leave \/ Goto("panic"))

Reconcile(m) ==
  /\ worker.step = "idle" /\ cache[m].life # "absent"
  /\ worker' = [Idle EXCEPT
       !.step = IF cache[m].life = "deleting" THEN "delete" ELSE "register",
       !.m = m, !.snap = cache[m], !.work = cache[m]]
  /\ UNCHANGED <<obj, cache, bootstrapped, srv, faults>>

\* The finalizer is registered before anything else is done.
AddFinalizer ==
  /\ worker.step = "register"
  /\ LET to == [worker.work EXCEPT !.fin = TRUE]
     IN \/ /\ PatchDone(worker.m, worker.snap, to)
           /\ worker' = [worker EXCEPT !.step = "find", !.work = to]
        \/ /\ PatchFails(worker.m, worker.snap, to)
           /\ worker' = [worker EXCEPT !.step = "close", !.work = to]
  /\ UNCHANGED <<cache, bootstrapped, srv>>

\* Mutant: ready is left to the reconcile that has provisioned the server.
MarkFound(s) ==
  worker' = [worker EXCEPT !.step = "close", !.work.pid = s]

\* A server that is cancelled and runs out soon fails the machine; the code
\* that follows marks every attached server's machine ready.
MarkReady(s) ==
  worker' = [worker EXCEPT !.step = "close", !.work.pid = s, !.work.ready = TRUE,
                           !.work.failed = @ \/ srv[s].cancelled]

\* Mutant: a machine that has a provider id looks for its server by it.
FindServerByProviderID ==
  /\ worker.step = "find"
  /\ \/ worker.work.pid # None /\ MarkReady(worker.work.pid)
     \/ /\ worker.work.pid = None
        /\ \E s \in Available :
             /\ srv[s].ready /\ worker.m \in bootstrapped
             /\ worker' = [worker EXCEPT !.step = "rescue", !.server = s]
     \/ worker.work.pid = None /\ Leave
  /\ NoFault
  /\ UNCHANGED <<obj, cache, bootstrapped, srv>>

\* Reconcile: find the server that is attached, or else a new one, in the order
\* Robot lists them; wait until it and the bootstrap data are ready.
FindServer ==
  /\ worker.step = "find"
  /\ LET A == Attached(worker.m) IN
     \/ Cardinality(A) > 1 /\ Leave /\ NoFault
     \/ \E s \in A : A = {s} /\ MarkReady(s) /\ NoFault
     \/ A = {} /\ Available = {} /\ Leave /\ NoFault
     \/ \E s \in Available :
          /\ A = {} /\ NoFault
          /\ \/ (~srv[s].ready \/ worker.m \notin bootstrapped) /\ Leave
             \/ /\ srv[s].ready /\ worker.m \in bootstrapped
                /\ worker' = [worker EXCEPT !.step = "rescue", !.server = s]
     \/ Leave /\ Fault
  /\ UNCHANGED <<obj, cache, bootstrapped, srv>>

-----------------------------------------------------------------------------
(* The worker: provisionMachine.                                           *)

\* The server the worker provisions is v from now on.
Becomes(v) == srv' = [srv EXCEPT ![worker.server] = v]

\* Mutant: the server is named as soon as it has been chosen.
NameFirst ==
  /\ worker.step = "rescue"
  /\ LET v == srv[worker.server] IN
       Becomes([v EXCEPT !.rescue = TRUE, !.name = worker.m]) /\ Goto("reset") /\ NoFault
  /\ UNCHANGED <<obj, cache, bootstrapped>>

ActivateRescue ==
  /\ worker.step = "rescue"
  /\ LET v == srv[worker.server] IN
     \/ Becomes([v EXCEPT !.rescue = TRUE]) /\ Goto("reset") /\ NoFault
     \/ \E r \in {v.rescue, TRUE} : Becomes([v EXCEPT !.rescue = r]) /\ Leave /\ Fault
  /\ UNCHANGED <<obj, cache, bootstrapped>>

\* The error of ResetBMServer is not looked at.
Reset ==
  /\ worker.step = "reset"
  /\ Goto("install")
  /\ \/ Becomes(Boot(srv[worker.server])) /\ NoFault
     \/ UNCHANGED srv /\ Fault
  /\ UNCHANGED <<obj, cache, bootstrapped>>

\* installimage has written a system to d.
Installed(v, d) == [v EXCEPT !.drives[d] = "system", !.system = Blank]

\* wipefs has been run on d.
Wiped(v, d) == [v EXCEPT !.drives[d] = "empty", !.system = None]

\* In the rescue system, choose the drive and install the image; a failed
\* installation is wiped, but for another failure, or a panic.
Install ==
  /\ worker.step = "install"
  /\ LET v == srv[worker.server] IN
     \/ /\ v.running # Rescue \/ CorrectDevice(v) = {}
        /\ Leave /\ NoFault /\ UNCHANGED srv
     \/ \E d \in CorrectDevice(v) :
          /\ v.running = Rescue
          /\ \/ /\ Becomes(Installed(v, d)) /\ NoFault
                /\ worker' = [worker EXCEPT !.step = "label", !.drive = d]
             \/ /\ Becomes(Wiped(v, d)) /\ Leave /\ Fault
             \/ /\ Becomes([Installed(v, d) EXCEPT !.system = None]) /\ Fails
     \/ v.running = Rescue /\ UNCHANGED srv /\ Fails
  /\ UNCHANGED <<obj, cache, bootstrapped>>

\* The partitions get the label by which the drive is found again.
Label ==
  /\ worker.step = "label"
  /\ LET v == srv[worker.server]
         labelled == [v EXCEPT !.drives[worker.drive] = "os"]
     IN \/ Becomes(labelled) /\ Goto("reboot") /\ NoFault
        \/ Becomes(Wiped(v, worker.drive)) /\ Leave /\ Fault
        \/ (Becomes(v) \/ Becomes(labelled)) /\ Fails
  /\ UNCHANGED <<obj, cache, bootstrapped>>

\* "reboot" over SSH, and what comes next: the end of the connection is the
\* command's normal outcome, and looks the same if the command is never run.
RebootThen(step) ==
  LET v == srv[worker.server] IN
  \/ Becomes(Boot(v)) /\ Goto(step) /\ NoFault
  \/ (Becomes(v) \/ Becomes(Boot(v))) /\ Fails
  \/ Becomes(v) /\ Goto(step) /\ Fault

Reboot ==
  /\ worker.step = "reboot" /\ RebootThen("seed")
  /\ UNCHANGED <<obj, cache, bootstrapped>>

\* The user data is written where cloud-init of the system that runs will look.
Seed ==
  /\ worker.step = "seed"
  /\ LET v == srv[worker.server]
         seeded == IF v.running = Blank THEN [v EXCEPT !.system = worker.m] ELSE v
     IN \/ Becomes(seeded) /\ Goto("restart") /\ NoFault
        \/ (Becomes(v) \/ Becomes(seeded)) /\ Fails
  /\ UNCHANGED <<obj, cache, bootstrapped>>

RebootAgain ==
  /\ worker.step = "restart" /\ RebootThen("name")
  /\ UNCHANGED <<obj, cache, bootstrapped>>

SetName ==
  /\ worker.step = "name"
  /\ LET v == srv[worker.server]
         named == [v EXCEPT !.name = worker.m]
     IN \/ /\ Becomes(named) /\ NoFault
           /\ worker' = [worker EXCEPT !.step = "close", !.work.pid = worker.server,
                                       !.work.ready = TRUE]
        \/ (Becomes(v) \/ Becomes(named)) /\ Leave /\ Fault
  /\ UNCHANGED <<obj, cache, bootstrapped>>

-----------------------------------------------------------------------------
(* The worker: reconcileDelete, and the end of a reconcile.                *)

LetGo == worker' = [worker EXCEPT !.step = "close", !.work.fin = FALSE]

\* Mutant: the finalizer is removed whether the server was renamed or not.
DeleteOnce ==
  /\ worker.step = "delete" /\ LetGo
  /\ \/ UNCHANGED srv /\ Fault
     \/ \E s \in Attached(worker.m) : srv' = [srv EXCEPT ![s].name = Free] /\ NoFault
     \/ Attached(worker.m) = {} /\ UNCHANGED srv /\ NoFault
  /\ UNCHANGED <<obj, cache, bootstrapped>>

\* Mutant: a machine whose server is not found is not let go.
DeleteFound ==
  /\ worker.step = "delete"
  /\ \/ Attached(worker.m) = {} /\ Leave /\ UNCHANGED srv
     \/ \E s \in Attached(worker.m) : srv' = [srv EXCEPT ![s].name = Free] /\ LetGo
  /\ NoFault
  /\ UNCHANGED <<obj, cache, bootstrapped>>

\* Service.Delete: rename the attached server, then drop the finalizer.
Delete ==
  /\ worker.step = "delete"
  /\ LET A == Attached(worker.m) IN
     \/ A = {} /\ LetGo /\ NoFault /\ UNCHANGED srv
     \/ Cardinality(A) > 1 /\ Leave /\ NoFault /\ UNCHANGED srv
     \/ \E s \in A :
          /\ A = {s} /\ srv' = [srv EXCEPT ![s].name = Free]
          /\ \/ LetGo /\ NoFault
             \/ Leave /\ Fault
     \/ Leave /\ Fault /\ UNCHANGED srv
  /\ UNCHANGED <<obj, cache, bootstrapped>>

Close ==
  /\ worker.step = "close" /\ worker' = Idle
  /\ \/ PatchDone(worker.m, worker.snap, worker.work)
     \/ PatchFails(worker.m, worker.snap, worker.work)
  /\ UNCHANGED <<cache, bootstrapped, srv>>

Restart == worker' = Idle /\ cache' = obj' /\ UNCHANGED <<bootstrapped, srv>>

Panic ==
  /\ worker.step = "panic"
  /\ \/ PatchDone(worker.m, worker.snap, worker.work)
     \/ PatchFails(worker.m, worker.snap, worker.work)
  /\ Restart

Crash == Fault /\ UNCHANGED obj /\ Restart

Provision ==
  \/ ActivateRescue \/ Reset \/ Install \/ Label \/ Reboot \/ Seed
  \/ RebootAgain \/ SetName

WorkerStep == AddFinalizer \/ FindServer \/ Provision \/ Delete \/ Close \/ Panic

-----------------------------------------------------------------------------
(* What the worker lives with.                                             *)

CreateObject(m) ==
  /\ obj[m].life = "absent"
  /\ obj' = [obj EXCEPT ![m] = Fresh] /\ bootstrapped' = bootstrapped \ {m}
  /\ UNCHANGED <<cache, srv, worker, faults>>

DeleteObject(m) ==
  /\ obj[m].life = "live"
  /\ obj' = [obj EXCEPT ![m] = Collected([@ EXCEPT !.life = "deleting"])]
  /\ UNCHANGED <<cache, bootstrapped, srv, worker, faults>>

Watch(m) ==
  /\ cache[m] # obj[m] /\ cache' = [cache EXCEPT ![m] = obj[m]]
  /\ UNCHANGED <<obj, bootstrapped, srv, worker, faults>>

Bootstrap(m) ==
  /\ obj[m].life = "live" /\ m \notin bootstrapped
  /\ bootstrapped' = bootstrapped \cup {m}
  /\ UNCHANGED <<obj, cache, srv, worker, faults>>

ServerReady(s) ==
  /\ ~srv[s].ready /\ srv' = [srv EXCEPT ![s].ready = TRUE]
  /\ UNCHANGED <<obj, cache, bootstrapped, worker, faults>>

CancelServer(s) ==
  /\ ~srv[s].cancelled /\ Fault /\ srv' = [srv EXCEPT ![s].cancelled = TRUE]
  /\ UNCHANGED <<obj, cache, bootstrapped, worker>>

Environment ==
  \/ \E m \in Machines : CreateObject(m) \/ DeleteObject(m) \/ Watch(m) \/ Bootstrap(m)
  \/ \E s \in Servers : ServerReady(s) \/ CancelServer(s)

Next ==
  \/ \E m \in Machines : Reconcile(m)
  \/ WorkerStep \/ Crash \/ Environment

Spec == Init /\ [][Next]_vars

\* As for HcloudMachine: the worker goes on, every object is reconciled again
\* and again (errors, RequeueAfter, resync), and the others do their part.
Fairness ==
  /\ WF_vars(WorkerStep)
  /\ \A m \in Machines : SF_vars(Reconcile(m)) /\ WF_vars(Watch(m)) /\ WF_vars(Bootstrap(m))
  /\ \A s \in Servers : WF_vars(ServerReady(s))

FairSpec == Spec /\ Fairness

-----------------------------------------------------------------------------
(* Safety.                                                                 *)

\* "Finally set the machine's name" (baremetal.go:450): a server that carries a
\* machine's name was installed for it and runs nothing of an earlier machine.
\* No retry, crash or earlier user of the server lets the name come first.
NamedMeansInstalled ==
  \A s \in Servers : srv[s].name \in Machines =>
    /\ srv[s].system \in {srv[s].name, Blank}
    /\ srv[s].running \in {srv[s].name, Blank, Rescue}

\* What one would rather have: it runs that machine's system.  A lost reboot, or
\* one that enters the rescue system again because the reset of an earlier step
\* had failed (its error is dropped, baremetal.go:293), goes unnoticed.
NamedMeansProvisioned ==
  \A s \in Servers : srv[s].name \in Machines =>
    srv[s].system = srv[s].name /\ srv[s].running = srv[s].name

\* "There are %s servers which are attached" (baremetal.go:194) is an error no
\* later reconcile gets out of: a machine never has two servers.
OneServerPerMachine ==
  \A m \in Machines : Cardinality(Attached(m)) <= 1

\* "Found %v devices with the correct labels" (baremetal.go:622) is another:
\* however installations fail and are repeated, by this machine or the next, a
\* server has at most one labelled drive.
OneSystemDrive ==
  \A s \in Servers : Cardinality({d \in Drives : srv[s].drives[d] = "os"}) <= 1

\* Why: names belong to one server, a labelled drive is the only one of its
\* server, and the server a reconcile provisions is nobody's and has come as far
\* as the step says.
NamesDiffer ==
  \A s, t \in Servers : srv[s].name \in Machines /\ srv[s].name = srv[t].name => s = t

LabelsDiffer ==
  \A s \in Servers : \A d, e \in Drives :
    srv[s].drives[d] = "os" /\ srv[s].drives[e] = "os" => d = e

ServerFree ==
  worker.step \in WithServer =>
    srv[worker.server].name = Free /\ Attached(worker.m) = {}

Progress ==
  LET v == srv[worker.server] IN
  /\ worker.step \in {"label", "reboot"} => v.system = Blank /\ v.running = Rescue
  /\ worker.step = "label" =>
       v.drives[worker.drive] = "system" /\ \A d \in Drives : v.drives[d] # "os"
  /\ worker.step = "seed" => v.system = Blank
  /\ worker.step \in {"restart", "name"} => v.system \in {Blank, worker.m}
  /\ worker.step \in {"seed", "restart"} => v.running \in {Blank, Rescue}
  /\ worker.step = "name" => v.running \in {Blank, Rescue, worker.m}

IInv == NamedMeansInstalled /\ NamesDiffer /\ LabelsDiffer /\ ServerFree /\ Progress

\* "Choose devices with no children" (baremetal.go:629): no installation, no
\* wipe after a failed one, and no machine that has the server later touches a
\* drive with partitions that are not a system's.
PartitionsKept ==
  [][\A s \in Servers, d \in Drives :
       srv[s].drives[d] = "data" => srv'[s].drives[d] = "data"]_vars

\* What one would rather have: nor does any touch a drive that has somebody's
\* data without a partition.  lsblk is asked for the file system of each drive
\* (baremetal.go:309), but a drive counts as free when it has no children.
DataKept ==
  [][\A s \in Servers, d \in Drives :
       srv[s].drives[d] \in {"data", "plain"} => srv'[s].drives[d] = srv[s].drives[d]]_vars

\* "We have to set a failureReason so that the infrastructure object gets
\* deleted" (baremetal.go:111): a failed machine is not reported ready.
FailedNotReady == \A m \in Machines : ~(obj[m].failed /\ obj[m].ready)

\* Why the promise below is kept, as in HcloudMachine: an object keeps its
\* finalizer while a server has its name, and a cache that is behind does no harm.
Held ==
  /\ \A s \in Servers : srv[s].name \in Machines => obj[srv[s].name].fin
  /\ \A m \in Machines : obj[m].life = "absent" => ~obj[m].fin
  /\ \A m \in Machines : obj[m].life = "deleting" => obj[m].fin

CacheSafe ==
  \A m \in Machines :
    /\ cache[m].life = "live" /\ cache[m].fin => obj[m].fin
    /\ cache[m].life = "deleting" => ~(obj[m].life = "live" /\ obj[m].fin)

\* A reconcile of a live object holds it before it comes to a server.
NormalSafe ==
  worker.step # "idle" /\ worker.snap.life = "live" =>
    LET m == worker.m IN
      /\ worker.step # "delete"
      /\ worker.snap.fin => worker.work.fin /\ obj[m].fin
      /\ worker.step # "register" => worker.work.fin
      /\ worker.step \notin {"register", "close"} => obj[m].fin
      /\ cache[m].life = "deleting" => obj[m].life = "deleting"

\* A reconcile of a deleted one lets it go when no server has its name.
DeleteSafe ==
  worker.step # "idle" /\ worker.snap.life = "deleting" =>
    LET m == worker.m IN
      /\ worker.step \in {"delete", "close"}
      /\ worker.work.fin => worker.snap.fin
      /\ worker.step = "delete" /\ worker.snap.fin => worker.work.fin
      /\ ~(obj[m].life = "live" /\ obj[m].fin)
      /\ ~(cache[m].life = "live" /\ cache[m].fin)
      /\ worker.step = "close" /\ worker.snap.fin /\ ~worker.work.fin => Attached(m) = {}

PInv ==
  /\ Held /\ CacheSafe
  /\ worker.step # "idle" => worker.snap.life \in {"live", "deleting"}
  /\ NormalSafe /\ DeleteSafe

\* The controller keeps the promise of OwnedResource: a server is named for an
\* object that holds it, and given back before the object is let go.
lifeOf == [m \in Machines |-> obj[m].life]
held   == {m \in Machines : obj[m].fin}
served == {m \in Machines : Attached(m) # {}}

Abstract == INSTANCE OwnedResource WITH
  Objects <- Machines, life <- lifeOf, held <- held, resource <- served

KeepsPromise == Abstract!Spec

-----------------------------------------------------------------------------
(* Liveness, under FairSpec.                                               *)

\* "Choose devices with no children" (baremetal.go:629): a server without one,
\* and without a label, cannot be installed.
Usable(s) == CorrectDevice(srv[s]) # {}

\* A machine becomes ready, unless there is no server for it, or crashes have
\* used up the drives of one.
MachineBecomesReady ==
  \A m \in Machines :
    obj[m].life = "live" ~> \/ obj[m].life # "live" \/ obj[m].ready
                            \/ Available = {}
                            \/ \E s \in Servers : ~Usable(s)

\* A deleted machine goes.
DeletedMachineGoes ==
  \A m \in Machines : obj[m].life = "deleting" ~> obj[m].life # "deleting"

\* A server that is ready to be used keeps a drive to install the system on:
\* "If an error occurs here, we have to wipe the device to avoid future
\* problems" (baremetal.go:351).
DriveLeft == \A s \in Servers : worker.step = "idle" => Usable(s)
=============================================================================
