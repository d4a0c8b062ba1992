----------------------- MODULE BareMetalMachineProofs -----------------------
(***************************************************************************)
(* Proofs about the BareMetalMachine controller, for any machines,         *)
(* servers, drives and number of faults.                                   *)
(***************************************************************************)
EXTENDS BareMetalMachine, FiniteSetTheorems, TLAPS

USE DrivesAssumption, MaxFaultsAssumption, NamesAssumption

-----------------------------------------------------------------------------
(* Types.                                                                  *)

\* What the patch helper leaves in the API is an object again.
LEMMA PatchedType ==
  ASSUME NEW o \in Object, NEW from \in Object, NEW to \in Object
  PROVE  /\ SpecPatched(o, from, to) \in Object
         /\ StatusPatched(o, from, to) \in Object
         /\ Patched(o, from, to) \in Object
<1>1. \A p \in Object : Collected(p) \in Object
  BY DEF Collected, Absent, Object
<1>2. \A p \in Object : SpecPatched(p, from, to) \in Object
  <2>1. TAKE p \in Object
  <2>2. [p EXCEPT !.fin = IF from.fin = to.fin THEN p.fin ELSE to.fin,
                  !.pid = IF from.pid = to.pid THEN p.pid ELSE to.pid] \in Object
    BY DEF Object
  <2>3. QED BY <2>2, <1>1 DEF SpecPatched
<1>3. \A p \in Object : StatusPatched(p, from, to) \in Object
  BY DEF StatusPatched, Object
<1>4. QED BY <1>2, <1>3 DEF Patched

LEMMA PatchType ==
  ASSUME TypeOK, NEW m \in Machines, NEW from \in Object, NEW to \in Object,
         PatchDone(m, from, to) \/ PatchFails(m, from, to)
  PROVE  obj' \in [Machines -> Object] /\ faults' \in 0 .. MaxFaults
<1>1. obj[m] \in Object
  BY DEF TypeOK
<1>2. /\ SpecPatched(obj[m], from, to) \in Object
      /\ StatusPatched(obj[m], from, to) \in Object
      /\ Patched(obj[m], from, to) \in Object
  BY <1>1, PatchedType
<1>3. CASE PatchDone(m, from, to)
  BY <1>1, <1>2, <1>3 DEF PatchDone, NoFault, TypeOK
<1>4. CASE PatchFails(m, from, to)
  BY <1>1, <1>2, <1>4 DEF PatchFails, Fault, NoFault, TypeOK
<1>5. QED BY <1>3, <1>4

\* What can become of a server.
LEMMA ServerType ==
  ASSUME NEW v \in Server
  PROVE  /\ Boot(v) \in Server
         /\ [v EXCEPT !.rescue = TRUE] \in Server
         /\ \A d \in Drives : Installed(v, d) \in Server /\ Wiped(v, d) \in Server
         /\ \A d \in Drives : [Installed(v, d) EXCEPT !.system = None] \in Server
         /\ \A d \in Drives : [v EXCEPT !.drives[d] = "os"] \in Server
         /\ \A m \in Machines : /\ [v EXCEPT !.system = m] \in Server
                                /\ [v EXCEPT !.name = m] \in Server
         /\ [v EXCEPT !.name = Free] \in Server
         /\ [v EXCEPT !.ready = TRUE] \in Server
         /\ [v EXCEPT !.cancelled = TRUE] \in Server
  BY DEF Server, Boot, Installed, Wiped

LEMMA ServerFields ==
  ASSUME NEW v \in Server
  PROVE  /\ Boot(v).name = v.name /\ Boot(v).drives = v.drives
         /\ Boot(v).system = v.system /\ Boot(v).running \in {Rescue, v.system}
         /\ \A d \in Drives : Wiped(v, d).name = v.name
         /\ \A d, e \in Drives :
              Wiped(v, d).drives[e] = IF e = d THEN "empty" ELSE v.drives[e]
         /\ \A d \in Drives : /\ Installed(v, d).name = v.name
                              /\ Installed(v, d).system = Blank
                              /\ Installed(v, d).running = v.running
         /\ \A d, e \in Drives :
              Installed(v, d).drives[e] = IF e = d THEN "system" ELSE v.drives[e]
<1>1. /\ Boot(v).name = v.name /\ Boot(v).drives = v.drives
      /\ Boot(v).system = v.system /\ Boot(v).running \in {Rescue, v.system}
  BY DEF Server, Boot
<1>2. ASSUME NEW d \in Drives
      PROVE  /\ Wiped(v, d).name = v.name
             /\ \A e \in Drives :
                  Wiped(v, d).drives[e] = IF e = d THEN "empty" ELSE v.drives[e]
  BY DEF Server, Wiped
<1>3. ASSUME NEW d \in Drives
      PROVE  /\ Installed(v, d).name = v.name /\ Installed(v, d).system = Blank
             /\ Installed(v, d).running = v.running
             /\ \A e \in Drives :
                  Installed(v, d).drives[e] = IF e = d THEN "system" ELSE v.drives[e]
  BY DEF Server, Installed
<1>4. QED BY <1>1, <1>2, <1>3

LEMMA BecomesType ==
  ASSUME TypeOK, worker.server \in Servers, NEW v \in Server, Becomes(v)
  PROVE  srv' \in [Servers -> Server]
  BY DEF TypeOK, Becomes

LEMMA FaultsType ==
  ASSUME TypeOK, Fault \/ NoFault
  PROVE  faults' \in 0 .. MaxFaults
  BY DEF TypeOK, Fault, NoFault

\* Where a reconcile may be after it has moved on.
LEMMA WorkerFacts ==
  /\ Idle \in WorkerState /\ Idle.step = "idle"
  /\ \A step \in Steps : TypeOK /\ Goto(step) =>
       /\ worker' \in WorkerState /\ worker'.step = step /\ worker'.m = worker.m
       /\ worker'.server = worker.server /\ worker'.drive = worker.drive
<1>1. Idle \in WorkerState /\ Idle.step = "idle"
  BY DEF Idle, WorkerState, Steps, Absent, Object
<1>2. \A step \in Steps : TypeOK /\ Goto(step) =>
       /\ worker' \in WorkerState /\ worker'.step = step /\ worker'.m = worker.m
       /\ worker'.server = worker.server /\ worker'.drive = worker.drive
  BY DEF TypeOK, Goto, WorkerState
<1>3. QED BY <1>1, <1>2

\* CorrectDevice returns drives, none of which has somebody's partitions.
LEMMA CorrectDeviceType ==
  ASSUME NEW v
  PROVE  /\ CorrectDevice(v) \subseteq Drives
         /\ \A d \in CorrectDevice(v) : v.drives[d] \in {"empty", "plain", "os"}
  BY DEF CorrectDevice

LEMMA TypeInit == Init => TypeOK
<1>1. Absent \in Object
  BY DEF Absent, Object
<1>2. SUFFICES ASSUME Init PROVE TypeOK
  OBVIOUS
<1>3. srv \in [Servers -> Server]
  <2>1. \A s \in Servers :
          LET system == IF s \in UsedServers THEN Former ELSE None
              drives == [d \in Drives |->
                           IF s \in UsedServers /\ d = SystemDrive THEN "os"
                           ELSE IF d \in DataDrives THEN "data"
                           ELSE IF d \in PlainDrives THEN "plain" ELSE "empty"]
          IN [name |-> Free, ready |-> FALSE, cancelled |-> FALSE, rescue |-> FALSE,
              system |-> system, running |-> system, drives |-> drives] \in Server
    BY DEF Server
  <2>2. QED BY <1>2, <2>1 DEF Init
<1>4. QED BY <1>1, <1>2, <1>3, WorkerFacts DEF Init, TypeOK, WithServer

\* The steps of provisionMachine.
LEMMA ProvisionType ==
  ASSUME TypeOK, Provision
  PROVE  TypeOK'
<1> DEFINE v == srv[worker.server]
<1>1. worker.server \in Servers /\ v \in Server /\ worker.m \in Machines
  BY DEF TypeOK, WithServer, Provision, ActivateRescue, Reset, Install, Label, Reboot,
         Seed, RebootAgain, SetName
<1>2. UNCHANGED <<obj, cache, bootstrapped>>
  BY DEF Provision, ActivateRescue, Reset, Install, Label, Reboot, Seed, RebootAgain,
         SetName
<1>3. SUFFICES /\ srv' \in [Servers -> Server] /\ faults' \in 0 .. MaxFaults
               /\ worker' \in WorkerState /\ worker'.m \in Machines
               /\ worker'.step \in WithServer => worker'.server \in Servers
               /\ worker'.step = "label" => worker'.drive \in Drives
  BY <1>2 DEF TypeOK
<1>4. {"reset", "close", "panic", "install", "seed", "restart", "name", "reboot"} \subseteq Steps
  BY DEF Steps
<1> HIDE DEF v
<1>5. CASE ActivateRescue
  <2>1. \A r \in {v.rescue, TRUE} : [v EXCEPT !.rescue = r] \in Server
    BY <1>1 DEF Server
  <2>2. srv' \in [Servers -> Server]
    BY <1>1, <1>5, <2>1, ServerType, BecomesType DEF ActivateRescue, v
  <2>3. QED BY <1>1, <1>4, <1>5, <2>2, WorkerFacts, FaultsType DEF ActivateRescue, Leave
<1>6. CASE Reset
  <2>1. srv' \in [Servers -> Server]
    BY <1>1, <1>6, ServerType, BecomesType DEF Reset, v, TypeOK
  <2>2. QED BY <1>1, <1>4, <1>6, <2>1, WorkerFacts, FaultsType DEF Reset
<1>7. CASE Install
  <2>1. srv' \in [Servers -> Server]
    BY <1>1, <1>7, ServerType, BecomesType, CorrectDeviceType DEF Install, v, TypeOK
  <2>2. faults' \in 0 .. MaxFaults
    BY <1>7, FaultsType DEF Install, Fails
  <2>3. CASE Leave \/ Fails
    BY <1>1, <1>4, <2>1, <2>2, <2>3, WorkerFacts DEF Fails, Leave
  <2>4. CASE \E d \in Drives : worker' = [worker EXCEPT !.step = "label", !.drive = d]
    BY <1>1, <2>1, <2>2, <2>4 DEF TypeOK, WorkerState, Steps
  <2>5. QED BY <1>7, <2>3, <2>4, CorrectDeviceType DEF Install
<1>8. CASE Label
  <2>1. worker.drive \in Drives
    BY <1>8 DEF Label, TypeOK
  <2>2. srv' \in [Servers -> Server]
    BY <1>1, <1>8, <2>1, ServerType, BecomesType DEF Label, v
  <2>3. QED BY <1>1, <1>4, <1>8, <2>2, WorkerFacts, FaultsType DEF Label, Leave, Fails
<1>9. CASE Reboot
  <2>1. srv' \in [Servers -> Server]
    BY <1>1, <1>9, ServerType, BecomesType DEF Reboot, RebootThen, v
  <2>2. QED BY <1>1, <1>4, <1>9, <2>1, WorkerFacts, FaultsType DEF Reboot, RebootThen, Leave, Fails
<1>10. CASE Seed
  <2>1. srv' \in [Servers -> Server]
    BY <1>1, <1>10, ServerType, BecomesType DEF Seed, v
  <2>2. QED BY <1>1, <1>4, <1>10, <2>1, WorkerFacts, FaultsType DEF Seed, Leave, Fails
<1>11. CASE RebootAgain
  <2>1. srv' \in [Servers -> Server]
    BY <1>1, <1>11, ServerType, BecomesType DEF RebootAgain, RebootThen, v
  <2>2. QED BY <1>1, <1>4, <1>11, <2>1, WorkerFacts, FaultsType
            DEF RebootAgain, RebootThen, Leave, Fails
<1>12. CASE SetName
  <2>1. srv' \in [Servers -> Server]
    BY <1>1, <1>12, ServerType, BecomesType DEF SetName, v
  <2>2. faults' \in 0 .. MaxFaults
    BY <1>12, FaultsType DEF SetName
  <2>3. CASE Leave
    BY <1>1, <1>4, <2>1, <2>2, <2>3, WorkerFacts DEF Leave
  <2>4. CASE worker' = [worker EXCEPT !.step = "close", !.work.pid = worker.server,
                                      !.work.ready = TRUE]
    BY <1>1, <2>1, <2>2, <2>4 DEF TypeOK, WorkerState, Steps, Object, WithServer
  <2>5. QED BY <1>12, <2>3, <2>4 DEF SetName
<1>13. QED BY <1>5, <1>6, <1>7, <1>8, <1>9, <1>10, <1>11, <1>12 DEF Provision

LEMMA TypeStep == TypeOK /\ [Next]_vars => TypeOK'
<1> SUFFICES ASSUME TypeOK, [Next]_vars PROVE TypeOK'
  OBVIOUS
<1>1. {"find", "close", "rescue", "delete", "register"} \subseteq Steps
  BY DEF Steps
<1>2. CASE UNCHANGED vars
  BY <1>2 DEF vars, TypeOK
<1>3. ASSUME NEW m \in Machines, Reconcile(m) PROVE TypeOK'
  <2>1. worker' \in WorkerState /\ worker'.m = m /\ worker'.step \in {"delete", "register"}
    BY <1>3, WorkerFacts DEF Reconcile, TypeOK, WorkerState, Steps
  <2>2. QED BY <1>3, <2>1 DEF Reconcile, TypeOK, WithServer
<1>4. CASE AddFinalizer
  <2> DEFINE to == [worker.work EXCEPT !.fin = TRUE]
  <2>1. worker.m \in Machines /\ worker.snap \in Object /\ to \in Object
    BY <1>4 DEF AddFinalizer, TypeOK, WorkerState, Object
  <2>2. obj' \in [Machines -> Object] /\ faults' \in 0 .. MaxFaults
    BY <1>4, <2>1, PatchType DEF AddFinalizer
  <2>3. /\ worker' \in WorkerState /\ worker'.m = worker.m
        /\ worker'.step \in {"find", "close"}
    BY <1>4, <2>1 DEF AddFinalizer, TypeOK, WorkerState, Steps
  <2>4. QED BY <1>4, <2>1, <2>2, <2>3 DEF AddFinalizer, TypeOK, WithServer
<1>5. CASE FindServer
  <2>1. worker.m \in Machines /\ faults' \in 0 .. MaxFaults
    BY <1>5, FaultsType DEF FindServer, TypeOK
  <2>2. CASE Leave
    BY <1>1, <1>5, <2>1, <2>2, WorkerFacts DEF FindServer, Leave, TypeOK, WithServer
  <2>3. CASE \E s \in Servers : MarkReady(s)
    <3>1. PICK s \in Servers : MarkReady(s)
      BY <2>3
    <3>2. /\ worker' \in WorkerState /\ worker'.m = worker.m /\ worker'.step = "close"
      <4>1. worker.work \in Object /\ worker.work.failed \in BOOLEAN
            /\ srv[s].cancelled \in BOOLEAN
        BY DEF TypeOK, WorkerState, Object, Server
      <4>2. \A b \in BOOLEAN :
              [worker.work EXCEPT !.pid = s, !.ready = TRUE, !.failed = b] \in Object
        BY <4>1 DEF Object
      <4>3. (worker.work.failed \/ srv[s].cancelled) \in BOOLEAN
        BY <4>1
      <4>4. worker' = [worker EXCEPT !.step = "close",
                         !.work = [worker.work EXCEPT !.pid = s, !.ready = TRUE,
                                     !.failed = worker.work.failed \/ srv[s].cancelled]]
        BY <3>1 DEF MarkReady, TypeOK, WorkerState, Object
      <4>5. PICK w \in Object : worker' = [worker EXCEPT !.step = "close", !.work = w]
        BY <4>2, <4>3, <4>4
      <4>6. QED BY <4>5 DEF TypeOK, WorkerState, Steps
    <3>3. QED BY <1>5, <2>1, <3>2 DEF FindServer, TypeOK, WithServer
  <2>4. CASE \E s \in Servers : worker' = [worker EXCEPT !.step = "rescue", !.server = s]
    <3>1. /\ worker' \in WorkerState /\ worker'.m = worker.m /\ worker'.step = "rescue"
          /\ worker'.server \in Servers
      BY <2>4 DEF TypeOK, WorkerState, Steps
    <3>2. QED BY <1>5, <2>1, <3>1 DEF FindServer, TypeOK, WithServer
  <2>5. QED BY <1>5, <2>2, <2>3, <2>4 DEF FindServer, Attached, Available
<1>6. CASE Provision
  BY <1>6, ProvisionType
<1>7. CASE Delete
  <2>1. worker.m \in Machines /\ faults' \in 0 .. MaxFaults
    BY <1>7, FaultsType DEF Delete, TypeOK
  <2>2. srv' \in [Servers -> Server]
    <3>1. \A s \in Servers : [srv[s] EXCEPT !.name = Free] \in Server
      BY ServerType DEF TypeOK
    <3>2. CASE UNCHANGED srv
      BY <3>2 DEF TypeOK
    <3>3. CASE \E s \in Servers : srv' = [srv EXCEPT ![s].name = Free]
      BY <3>1, <3>3 DEF TypeOK
    <3>4. QED BY <1>7, <3>2, <3>3 DEF Delete, Attached
  <2>3. CASE Leave
    BY <1>1, <1>7, <2>1, <2>2, <2>3, WorkerFacts DEF Delete, Leave, TypeOK, WithServer
  <2>4. CASE LetGo
    <3>1. /\ worker' \in WorkerState /\ worker'.m = worker.m /\ worker'.step = "close"
      <4>1. [worker.work EXCEPT !.fin = FALSE] \in Object
        BY DEF TypeOK, WorkerState, Object
      <4>2. worker' = [worker EXCEPT !.step = "close",
                                     !.work = [worker.work EXCEPT !.fin = FALSE]]
        BY <2>4 DEF LetGo, TypeOK, WorkerState
      <4>3. QED BY <4>1, <4>2 DEF TypeOK, WorkerState, Steps
    <3>2. QED BY <1>7, <2>1, <2>2, <3>1 DEF Delete, TypeOK, WithServer
  <2>5. QED BY <1>7, <2>3, <2>4 DEF Delete
<1>8. CASE Close \/ Panic
  <2>1. worker.m \in Machines /\ worker.snap \in Object /\ worker.work \in Object
    BY <1>8 DEF Close, Panic, TypeOK, WorkerState
  <2>2. obj' \in [Machines -> Object] /\ faults' \in 0 .. MaxFaults
    BY <1>8, <2>1, PatchType DEF Close, Panic
  <2>3. QED BY <1>8, <2>2, WorkerFacts DEF Close, Panic, Restart, TypeOK, WithServer
<1>9. CASE Crash
  BY <1>9, WorkerFacts, FaultsType DEF Crash, Restart, TypeOK, WithServer
<1>10. CASE Environment
  <2>1. \A m \in Machines : [obj[m] EXCEPT !.life = "deleting"] \in Object
    BY DEF TypeOK, Object
  <2>2. \A o \in Object : Collected(o) \in Object
    BY DEF Collected, Absent, Object
  <2>3. Fresh \in Object
    BY DEF Fresh, Absent, Object
  <2>4. ASSUME NEW m \in Machines, CreateObject(m) \/ DeleteObject(m) \/ Watch(m) \/ Bootstrap(m)
        PROVE  TypeOK'
    BY <2>1, <2>2, <2>3, <2>4 DEF CreateObject, DeleteObject, Watch, Bootstrap, TypeOK
  <2>5. ASSUME NEW s \in Servers, ServerReady(s) \/ CancelServer(s)
        PROVE  TypeOK'
    <3>1. srv' \in [Servers -> Server] /\ faults' \in 0 .. MaxFaults
      <4>1. /\ [srv[s] EXCEPT !.ready = TRUE] \in Server
            /\ [srv[s] EXCEPT !.cancelled = TRUE] \in Server
        BY ServerType DEF TypeOK
      <4>2. faults' \in 0 .. MaxFaults
        BY <2>5, FaultsType DEF ServerReady, CancelServer, NoFault
      <4>3. QED BY <2>5, <4>1, <4>2 DEF ServerReady, CancelServer, TypeOK
    <3>2. QED BY <2>5, <3>1 DEF ServerReady, CancelServer, TypeOK
  <2>6. QED BY <1>10, <2>4, <2>5 DEF Environment
<1>11. QED BY <1>2, <1>3, <1>4, <1>5, <1>6, <1>7, <1>8, <1>9, <1>10 DEF Next, WorkerStep

\* Type correctness, for the whole controller: the fields of the object, of the
\* servers and of the reconcile in flight (baremetalmachine_controller.go:60-178).
THEOREM TypeCorrect == Spec => []TypeOK
<1>1. QED BY TypeInit, TypeStep, PTL DEF Spec

-----------------------------------------------------------------------------
(* The inductive invariant.                                                *)

\* IInv holds on when no server changes but for a name that is given up, and the
\* reconcile in flight either is no longer at a server or has not moved.
LEMMA QuietIInv ==
  ASSUME TypeOK, IInv, srv' \in [Servers -> Server],
         \A s \in Servers :
           /\ srv'[s].name \in {srv[s].name, Free}
           /\ srv'[s].system = srv[s].system /\ srv'[s].running = srv[s].running
           /\ srv'[s].drives = srv[s].drives,
         \/ worker'.step \notin WithServer
         \/ worker' = worker /\ \A s \in Servers : srv'[s].name = srv[s].name
  PROVE  IInv'
<1>1. NamedMeansInstalled' /\ NamesDiffer' /\ LabelsDiffer'
  BY DEF IInv, NamedMeansInstalled, NamesDiffer, LabelsDiffer
<1>2. CASE worker'.step \notin WithServer
  BY <1>1, <1>2 DEF IInv, ServerFree, Progress, WithServer
<1>3. CASE worker' = worker /\ \A s \in Servers : srv'[s].name = srv[s].name
  <2>1. CASE worker.step \in WithServer
    <3>1. worker.server \in Servers
      BY <2>1 DEF TypeOK
    <3>2. ServerFree'
      BY <1>3, <2>1, <3>1 DEF IInv, ServerFree, Attached
    <3>3. Progress'
      BY <1>3, <3>1 DEF IInv, Progress
    <3>4. QED BY <1>1, <3>2, <3>3 DEF IInv
  <2>2. CASE worker.step \notin WithServer
    BY <1>1, <1>3, <2>2 DEF IInv, ServerFree, Progress, WithServer
  <2>3. QED BY <2>1, <2>2
<1>4. QED BY <1>2, <1>3

\* What a step of provisionMachine does to the server of the reconcile cannot
\* be seen in another machine's server.
LEMMA LocalFacts ==
  ASSUME TypeOK, IInv, worker.step \in WithServer, NEW v \in Server, Becomes(v),
         v.name = Free,
         \A d, e \in Drives : v.drives[d] = "os" /\ v.drives[e] = "os" => d = e
  PROVE  /\ NamedMeansInstalled' /\ NamesDiffer' /\ LabelsDiffer'
         /\ srv'[worker.server] = v /\ \A s \in Servers : srv'[s].name # worker.m
<1>1. worker.server \in Servers /\ worker.m \in Machines
  BY DEF TypeOK, WithServer
<1>2. srv'[worker.server] = v
      /\ \A s \in Servers : s # worker.server => srv'[s] = srv[s]
  BY <1>1 DEF Becomes, TypeOK
<1>3. \A s \in Servers : srv[s].name # worker.m
  BY DEF IInv, ServerFree, Attached
<1>4. Free \notin Machines
  OBVIOUS
<1>5. NamedMeansInstalled'
  BY <1>2, <1>4 DEF IInv, NamedMeansInstalled
<1>6. NamesDiffer'
  BY <1>2, <1>4 DEF IInv, NamesDiffer
<1>7. LabelsDiffer'
  BY <1>2 DEF IInv, LabelsDiffer
<1>8. \A s \in Servers : srv'[s].name # worker.m
  BY <1>1, <1>2, <1>3, <1>4
<1>9. QED BY <1>2, <1>5, <1>6, <1>7, <1>8

\* The reconcile has left its server, or ends the process.
LEMMA AwayIInv ==
  ASSUME NamedMeansInstalled', NamesDiffer', LabelsDiffer',
         worker'.step \notin WithServer
  PROVE  IInv'
  BY DEF IInv, ServerFree, Progress, WithServer

\* The reconcile goes on with its server.
LEMMA OnIInv ==
  ASSUME NamedMeansInstalled', NamesDiffer', LabelsDiffer',
         worker'.m = worker.m, worker'.server = worker.server,
         srv'[worker.server].name = Free,
         \A s \in Servers : srv'[s].name # worker.m,
         Progress'
  PROVE  IInv'
  BY DEF IInv, ServerFree, Attached

\* A drive that CorrectDevice returns is the only one with the label, if any is.
LEMMA CorrectDeviceLabel ==
  ASSUME NEW v,
         \A d, e \in Drives : v.drives[d] = "os" /\ v.drives[e] = "os" => d = e,
         NEW d \in CorrectDevice(v)
  PROVE  \A e \in Drives : v.drives[e] = "os" => e = d
  BY DEF CorrectDevice

\* The steps of provisionMachine: each leaves the server as the next one, and
\* any later attempt, expects it.
LEMMA ProvisionIInv ==
  ASSUME TypeOK, IInv, Provision
  PROVE  IInv'
<1> DEFINE v == srv[worker.server]
<1>1. worker.step \in WithServer
  BY DEF WithServer, Provision, ActivateRescue, Reset, Install, Label, Reboot, Seed,
         RebootAgain, SetName
<1>2. worker.server \in Servers /\ v \in Server /\ worker.m \in Machines
  BY <1>1 DEF TypeOK, WithServer
<1>3. /\ v.name = Free
      /\ \A d, e \in Drives : v.drives[d] = "os" /\ v.drives[e] = "os" => d = e
  BY <1>1, <1>2 DEF IInv, ServerFree, LabelsDiffer
<1>4. /\ {"close", "panic"} \cap WithServer = {}
      /\ {"close", "panic", "reset", "install", "reboot", "seed", "restart", "name"} \subseteq Steps
  BY DEF WithServer, Steps
<1>5. /\ Boot(v) \in Server
      /\ \A d \in Drives : Wiped(v, d) \in Server /\ Installed(v, d) \in Server
      /\ \A d \in Drives : [Installed(v, d) EXCEPT !.system = None] \in Server
      /\ \A d \in Drives : [v EXCEPT !.drives[d] = "os"] \in Server
  BY <1>2, ServerType
<1>6. /\ Boot(v).name = v.name /\ Boot(v).drives = v.drives
      /\ Boot(v).system = v.system /\ Boot(v).running \in {Rescue, v.system}
      /\ \A d \in Drives : Wiped(v, d).name = v.name
      /\ \A d, e \in Drives :
           Wiped(v, d).drives[e] = IF e = d THEN "empty" ELSE v.drives[e]
      /\ \A d \in Drives : /\ Installed(v, d).name = v.name
                           /\ Installed(v, d).system = Blank
                           /\ Installed(v, d).running = v.running
      /\ \A d, e \in Drives :
           Installed(v, d).drives[e] = IF e = d THEN "system" ELSE v.drives[e]
  BY <1>2, ServerFields
<1>7. UNCHANGED srv => Becomes(v)
  BY <1>2 DEF Becomes, TypeOK
<1> HIDE DEF v
<1>8. ASSUME NEW w \in Server, Becomes(w), w.name = Free,
             \A d, e \in Drives : w.drives[d] = "os" /\ w.drives[e] = "os" => d = e,
             Leave \/ Goto("panic")
      PROVE  IInv'
  <2>1. worker'.step \notin WithServer
    BY <1>4, <1>8, WorkerFacts DEF Leave
  <2>2. NamedMeansInstalled' /\ NamesDiffer' /\ LabelsDiffer'
    BY <1>1, <1>8, LocalFacts
  <2>3. QED BY <2>1, <2>2, AwayIInv
<1>9. ASSUME NEW w \in Server, Becomes(w), w.name = Free,
             \A d, e \in Drives : w.drives[d] = "os" /\ w.drives[e] = "os" => d = e,
             worker'.m = worker.m, worker'.server = worker.server, Progress'
      PROVE  IInv'
  <2>1. /\ NamedMeansInstalled' /\ NamesDiffer' /\ LabelsDiffer'
        /\ srv'[worker.server] = w /\ \A s \in Servers : srv'[s].name # worker.m
    BY <1>1, <1>9, LocalFacts
  <2>2. QED BY <1>9, <2>1, OnIInv
<1>10. ASSUME NEW w, Becomes(w) PROVE srv'[worker.server] = w
  BY <1>2, <1>10 DEF Becomes, TypeOK
<1>11. CASE ActivateRescue
  <2>1. PICK r \in {v.rescue, TRUE} :
          /\ Becomes([v EXCEPT !.rescue = r])
          /\ Goto("reset") \/ Leave
    BY <1>11 DEF ActivateRescue, v
  <2> DEFINE w == [v EXCEPT !.rescue = r]
  <2>2. w \in Server /\ w.name = Free /\ w.drives = v.drives
    BY <1>2, <1>3 DEF Server
  <2>3. CASE Leave
    BY <1>3, <1>8, <2>1, <2>2, <2>3
  <2>4. CASE Goto("reset")
    <3>1. worker'.step = "reset" /\ worker'.m = worker.m /\ worker'.server = worker.server
      BY <1>4, <2>4, WorkerFacts
    <3>2. Progress'
      BY <3>1 DEF Progress
    <3>3. QED BY <1>3, <1>9, <2>1, <2>2, <3>1, <3>2
  <2>5. QED BY <2>1, <2>3, <2>4
<1>12. CASE Reset
  <2>1. PICK w \in {v, Boot(v)} : Becomes(w)
    BY <1>7, <1>12 DEF Reset, v
  <2>2. w \in Server /\ w.name = Free /\ w.drives = v.drives
    BY <1>2, <1>3, <1>5, <1>6
  <2>3. worker'.step = "install" /\ worker'.m = worker.m /\ worker'.server = worker.server
    BY <1>4, <1>12, WorkerFacts DEF Reset
  <2>4. Progress'
    BY <2>3 DEF Progress
  <2>5. QED BY <1>3, <1>9, <2>1, <2>2, <2>3, <2>4
<1>13. CASE Install
  <2>1. CASE UNCHANGED srv
    <3>1. Becomes(v)
      BY <1>7, <2>1
    <3>2. CASE Leave \/ Goto("panic")
      BY <1>2, <1>3, <1>8, <3>1, <3>2
    <3>3. CASE \E d \in CorrectDevice(v) :
                 /\ v.running = Rescue /\ Becomes(Installed(v, d))
                 /\ worker' = [worker EXCEPT !.step = "label", !.drive = d]
      <4>1. PICK d \in CorrectDevice(v) : Becomes(Installed(v, d))
        BY <3>3
      <4>2. srv'[worker.server] = v /\ srv'[worker.server] = Installed(v, d)
        BY <1>10, <3>1, <4>1
      <4>3. d \in Drives /\ v.drives[d] # "system" /\ Installed(v, d).drives[d] = "system"
        BY <1>2, CorrectDeviceType, ServerFields
      <4>4. QED BY <4>2, <4>3
    <3>4. QED BY <1>13, <3>2, <3>3 DEF Install, Fails, v
  <2>2. CASE \E d \in CorrectDevice(v) :
               \/ Becomes(Wiped(v, d)) /\ Leave
               \/ Becomes([Installed(v, d) EXCEPT !.system = None]) /\ Fails
    <3>1. PICK d \in CorrectDevice(v) :
               \/ Becomes(Wiped(v, d)) /\ Leave
               \/ Becomes([Installed(v, d) EXCEPT !.system = None]) /\ Fails
      BY <2>2
    <3>2. d \in Drives
      BY CorrectDeviceType
    <3> DEFINE W == {Wiped(v, d), [Installed(v, d) EXCEPT !.system = None]}
    <3>3. \A w \in W : w \in Server
      <4>1. /\ Wiped(v, d) \in Server
            /\ [Installed(v, d) EXCEPT !.system = None] \in Server
        BY <1>2, <3>2, ServerType
      <4>2. QED BY <4>1
    <3>4. \A w \in W : /\ w.name = Free
                       /\ \A e \in Drives : w.drives[e] = "os" => v.drives[e] = "os"
      <4>1. /\ [Installed(v, d) EXCEPT !.system = None].name = Installed(v, d).name
            /\ [Installed(v, d) EXCEPT !.system = None].drives = Installed(v, d).drives
        BY <3>2, <1>5 DEF Server
      <4>2. /\ Wiped(v, d).name = Free /\ Installed(v, d).name = Free
            /\ \A e \in Drives : Wiped(v, d).drives[e] = "os" => v.drives[e] = "os"
            /\ \A e \in Drives : Installed(v, d).drives[e] = "os" => v.drives[e] = "os"
        BY <1>3, <3>2, <1>6
      <4>3. QED BY <4>1, <4>2
    <3>5. PICK w \in W : Becomes(w) /\ (Leave \/ Goto("panic"))
      BY <3>1 DEF Fails
    <3>6. QED BY <1>3, <1>8, <3>3, <3>4, <3>5
  <2>3. CASE \E d \in CorrectDevice(v) :
               /\ v.running = Rescue /\ Becomes(Installed(v, d))
               /\ worker' = [worker EXCEPT !.step = "label", !.drive = d]
    <3>1. PICK d \in CorrectDevice(v) :
               /\ v.running = Rescue /\ Becomes(Installed(v, d))
               /\ worker' = [worker EXCEPT !.step = "label", !.drive = d]
      BY <2>3
    <3>2. d \in Drives /\ \A e \in Drives : v.drives[e] = "os" => e = d
      BY <1>3, CorrectDeviceType, CorrectDeviceLabel
    <3> DEFINE w == Installed(v, d)
    <3>3. /\ w \in Server /\ w.name = Free /\ w.system = Blank /\ w.running = Rescue
          /\ w.drives[d] = "system" /\ \A e \in Drives : w.drives[e] # "os"
      BY <1>3, <3>1, <3>2, <1>5, <1>6
    <3>4. /\ worker'.step = "label" /\ worker'.m = worker.m
          /\ worker'.server = worker.server /\ worker'.drive = d
      BY <3>1 DEF TypeOK, WorkerState
    <3>5. srv'[worker.server] = w
      BY <1>10, <3>1
    <3> HIDE DEF w
    <3>6. Progress'
      BY <3>3, <3>4, <3>5 DEF Progress
    <3>7. Becomes(w)
      BY <3>1 DEF w
    <3>8. QED BY <1>9, <3>3, <3>4, <3>6, <3>7
  <2>4. QED BY <1>13, <2>1, <2>2, <2>3 DEF Install, v
<1>14. CASE Label
  <2> DEFINE labelled == [v EXCEPT !.drives[worker.drive] = "os"]
  <2>1. /\ worker.drive \in Drives /\ \A d \in Drives : v.drives[d] # "os"
        /\ v.system = Blank /\ v.running = Rescue
    BY <1>14 DEF Label, TypeOK, IInv, Progress, v
  <2>2. /\ labelled \in Server /\ labelled.name = Free
        /\ labelled.system = Blank /\ labelled.running = Rescue
        /\ \A d \in Drives : labelled.drives[d] = "os" => d = worker.drive
    BY <1>2, <1>3, <2>1, ServerType DEF Server
  <2>3. /\ Wiped(v, worker.drive) \in Server /\ Wiped(v, worker.drive).name = Free
        /\ \A d \in Drives : Wiped(v, worker.drive).drives[d] # "os"
    BY <1>3, <2>1, <1>5, <1>6
  <2>4. CASE Becomes(labelled) /\ Goto("reboot")
    <3>1. worker'.step = "reboot" /\ worker'.m = worker.m /\ worker'.server = worker.server
      BY <1>4, <2>4, WorkerFacts
    <3>2. srv'[worker.server] = labelled
      BY <1>10, <2>4
    <3>3. Progress'
      BY <2>2, <3>1, <3>2 DEF Progress
    <3>4. QED BY <1>9, <2>2, <2>4, <3>1, <3>3
  <2>5. CASE Becomes(Wiped(v, worker.drive)) /\ Leave
    BY <1>8, <2>3, <2>5
  <2>6. CASE (Becomes(v) \/ Becomes(labelled)) /\ Fails
    <3>1. Leave \/ Goto("panic")
      BY <2>6 DEF Fails
    <3>2. CASE Becomes(v)
      BY <1>2, <1>3, <1>8, <3>1, <3>2
    <3>3. CASE Becomes(labelled)
      BY <1>8, <2>2, <3>1, <3>3
    <3>4. QED BY <2>6, <3>2, <3>3
  <2>7. QED BY <1>14, <2>4, <2>5, <2>6 DEF Label, v
<1>15. ASSUME NEW step \in {"seed", "name"}, RebootThen(step),
              worker.step = (IF step = "seed" THEN "reboot" ELSE "restart")
       PROVE  IInv'
  <2>1. PICK w \in {v, Boot(v)} : Becomes(w) /\ (Goto(step) \/ Leave \/ Goto("panic"))
    BY <1>15 DEF RebootThen, Fails, v
  <2>2. w \in Server /\ w.name = Free /\ w.drives = v.drives /\ w.system = v.system
    BY <1>2, <1>3, <1>5, <1>6
  <2>3. CASE Leave \/ Goto("panic")
    BY <1>3, <1>8, <2>1, <2>2, <2>3
  <2>4. CASE Goto(step)
    <3>1. worker'.step = step /\ worker'.m = worker.m /\ worker'.server = worker.server
      BY <1>4, <2>4, WorkerFacts
    <3>2. w.running \in {v.running, Rescue, v.system}
      BY <1>2, <2>1 DEF Boot, Server
    <3>3. /\ step = "seed" => v.system = Blank /\ v.running = Rescue
          /\ step = "name" => /\ v.system \in {Blank, worker.m}
                              /\ v.running \in {Blank, Rescue}
      BY <1>15 DEF IInv, Progress, v
    <3>4. Progress'
      BY <1>10, <2>1, <2>2, <3>1, <3>2, <3>3 DEF Progress
    <3>5. QED BY <1>3, <1>9, <2>1, <2>2, <3>1, <3>4
  <2>5. QED BY <2>1, <2>3, <2>4
<1>16. CASE Seed
  <2>1. v.system = Blank /\ v.running \in {Blank, Rescue}
    BY <1>16 DEF Seed, IInv, Progress, v
  <2>2. PICK w \in {v, [v EXCEPT !.system = worker.m]} :
          Becomes(w) /\ (Goto("restart") \/ Leave \/ Goto("panic"))
    BY <1>16 DEF Seed, Fails, v
  <2>3. /\ w \in Server /\ w.name = Free /\ w.drives = v.drives
        /\ w.running = v.running /\ w.system \in {Blank, worker.m}
    BY <1>2, <1>3, <2>1, ServerType DEF Server
  <2>4. CASE Leave \/ Goto("panic")
    BY <1>3, <1>8, <2>2, <2>3, <2>4
  <2>5. CASE Goto("restart")
    <3>1. worker'.step = "restart" /\ worker'.m = worker.m /\ worker'.server = worker.server
      BY <1>4, <2>5, WorkerFacts
    <3>2. Progress'
      BY <1>10, <2>1, <2>2, <2>3, <3>1 DEF Progress
    <3>3. QED BY <1>3, <1>9, <2>2, <2>3, <3>1, <3>2
  <2>6. QED BY <2>2, <2>4, <2>5
<1>17. CASE SetName
  <2>1. v.system \in {Blank, worker.m} /\ v.running \in {Blank, Rescue, worker.m}
    BY <1>17 DEF SetName, IInv, Progress, v
  <2>2. worker'.step \notin WithServer
    <3>1. worker'.step = "close"
      BY <1>4, <1>17, WorkerFacts DEF SetName, Leave, TypeOK, WorkerState
    <3>2. QED BY <1>4, <3>1
  <2>3. CASE Becomes(v)
    BY <1>1, <1>2, <1>3, <2>2, <2>3, LocalFacts, AwayIInv
  <2>4. CASE Becomes([v EXCEPT !.name = worker.m])
    <3> DEFINE w == [v EXCEPT !.name = worker.m]
    <3>1. /\ w.name = worker.m /\ w.drives = v.drives
          /\ w.system = v.system /\ w.running = v.running
      BY <1>2 DEF Server
    <3>2. srv'[worker.server] = w
          /\ \A s \in Servers : s # worker.server => srv'[s] = srv[s]
      BY <1>2, <2>4 DEF Becomes, TypeOK
    <3>3. \A s \in Servers : srv[s].name # worker.m
      BY <1>1 DEF IInv, ServerFree, Attached
    <3> HIDE DEF w
    <3>4. NamedMeansInstalled'
      BY <2>1, <3>1, <3>2 DEF IInv, NamedMeansInstalled
    <3>5. NamesDiffer'
      BY <3>1, <3>2, <3>3 DEF IInv, NamesDiffer
    <3>6. LabelsDiffer'
      BY <1>3, <3>1, <3>2 DEF IInv, LabelsDiffer
    <3>7. QED BY <2>2, <3>4, <3>5, <3>6, AwayIInv
  <2>5. QED BY <1>17, <2>3, <2>4 DEF SetName, v
<1>18. CASE Reboot
  BY <1>15, <1>18 DEF Reboot
<1>19. CASE RebootAgain
  BY <1>15, <1>19 DEF RebootAgain
<1>20. QED BY <1>11, <1>12, <1>13, <1>14, <1>16, <1>17, <1>18, <1>19 DEF Provision

\* Every other step: no server changes, or only its name is given up, or a field
\* the invariant does not speak of.
LEMMA OtherStep ==
  ASSUME TypeOK, [Next]_vars, ~Provision
  PROVE  /\ \A s \in Servers :
              /\ srv'[s].name \in {srv[s].name, Free}
              /\ srv'[s].system = srv[s].system /\ srv'[s].running = srv[s].running
              /\ srv'[s].drives = srv[s].drives
         /\ \/ worker'.step \notin WithServer
            \/ worker' = worker /\ \A s \in Servers : srv'[s].name = srv[s].name
            \/ FindServer
<1> DEFINE Same == \A s \in Servers :
                     /\ srv'[s].name = srv[s].name
                     /\ srv'[s].system = srv[s].system
                     /\ srv'[s].running = srv[s].running
                     /\ srv'[s].drives = srv[s].drives
<1>1. UNCHANGED srv => Same
  OBVIOUS
<1>2. \A s \in Servers : srv[s] \in Server
  BY DEF TypeOK
<1>3. CASE UNCHANGED vars
  BY <1>3 DEF vars
<1>4. ASSUME NEW m \in Machines, Reconcile(m)
      PROVE  UNCHANGED srv /\ worker'.step \notin WithServer
  BY <1>4 DEF Reconcile, WithServer, Idle
<1>5. CASE AddFinalizer
  <2>1. worker'.step \in {"find", "close"}
    BY <1>5 DEF AddFinalizer, TypeOK, WorkerState
  <2>2. QED BY <1>1, <1>5, <2>1 DEF AddFinalizer, WithServer
<1>6. CASE FindServer
  BY <1>6 DEF FindServer
<1>7. CASE Delete
  <2>1. worker'.step \notin WithServer
    BY <1>7 DEF Delete, LetGo, Leave, Goto, TypeOK, WorkerState, WithServer
  <2>2. CASE UNCHANGED srv
    BY <2>1, <2>2
  <2>3. ASSUME NEW s \in Servers, srv' = [srv EXCEPT ![s].name = Free]
        PROVE  \A q \in Servers :
                 /\ srv'[q].name \in {srv[q].name, Free}
                 /\ srv'[q].system = srv[q].system /\ srv'[q].running = srv[q].running
                 /\ srv'[q].drives = srv[q].drives
    BY <1>2, <2>3 DEF TypeOK, Server
  <2>4. QED BY <1>7, <2>1, <2>2, <2>3 DEF Delete, Attached
<1>8. CASE Close \/ Panic \/ Crash
  BY <1>8, WorkerFacts DEF Close, Panic, Crash, Restart, WithServer
<1>9. CASE Environment
  <2>1. ASSUME NEW m \in Machines, CreateObject(m) \/ DeleteObject(m) \/ Watch(m) \/ Bootstrap(m)
        PROVE  UNCHANGED <<srv, worker>>
    BY <2>1 DEF CreateObject, DeleteObject, Watch, Bootstrap
  <2>2. ASSUME NEW s \in Servers, ServerReady(s) \/ CancelServer(s)
        PROVE  UNCHANGED worker /\ Same
    <3>1. UNCHANGED worker /\ \/ srv' = [srv EXCEPT ![s].ready = TRUE]
                              \/ srv' = [srv EXCEPT ![s].cancelled = TRUE]
      BY <2>2 DEF ServerReady, CancelServer
    <3>2. CASE srv' = [srv EXCEPT ![s].ready = TRUE]
      BY <1>2, <3>1, <3>2 DEF TypeOK, Server
    <3>3. CASE srv' = [srv EXCEPT ![s].cancelled = TRUE]
      BY <1>2, <3>1, <3>3 DEF TypeOK, Server
    <3>4. QED BY <3>1, <3>2, <3>3
  <2>3. QED BY <1>1, <1>9, <2>1, <2>2 DEF Environment
<1>10. QED BY <1>1, <1>3, <1>4, <1>5, <1>6, <1>7, <1>8, <1>9 DEF Next, WorkerStep

\* A reconcile comes to a server only when its machine has none.
LEMMA FindServerIInv ==
  ASSUME TypeOK, IInv, FindServer
  PROVE  IInv'
<1>1. UNCHANGED srv
  BY DEF FindServer
<1>2. NamedMeansInstalled' /\ NamesDiffer' /\ LabelsDiffer'
  BY <1>1 DEF IInv, NamedMeansInstalled, NamesDiffer, LabelsDiffer
<1>3. CASE \E s \in Available :
             /\ Attached(worker.m) = {}
             /\ worker' = [worker EXCEPT !.step = "rescue", !.server = s]
  <2>1. PICK s \in Available :
             /\ Attached(worker.m) = {}
             /\ worker' = [worker EXCEPT !.step = "rescue", !.server = s]
    BY <1>3
  <2>2. worker'.step = "rescue" /\ worker'.m = worker.m /\ worker'.server = s
    BY <2>1 DEF TypeOK, WorkerState
  <2>3. ServerFree' /\ Progress'
    BY <1>1, <2>1, <2>2 DEF ServerFree, Progress, Attached, Available
  <2>4. QED BY <1>2, <2>3 DEF IInv
<1>4. CASE Leave \/ \E s \in Servers : MarkReady(s)
  <2>1. worker'.step = "close"
    BY <1>4 DEF Leave, Goto, MarkReady, TypeOK, WorkerState
  <2>2. QED BY <1>2, <2>1, AwayIInv DEF WithServer
<1>5. QED BY <1>3, <1>4 DEF FindServer, Attached

LEMMA IInvInit == Init => IInv
<1>1. SUFFICES ASSUME Init PROVE IInv
  OBVIOUS
<1>2. \A s \in Servers :
         /\ srv[s].name = Free
         /\ \A d \in Drives : srv[s].drives[d] = "os" => d = SystemDrive
  BY <1>1 DEF Init
<1>3. NamedMeansInstalled /\ NamesDiffer /\ LabelsDiffer
  BY <1>2, NamesAssumption DEF NamedMeansInstalled, NamesDiffer, LabelsDiffer
<1>4. ServerFree /\ Progress
  BY <1>1, WorkerFacts DEF Init, ServerFree, Progress, WithServer
<1>5. QED BY <1>3, <1>4 DEF IInv

LEMMA IInvStep == TypeOK /\ IInv /\ [Next]_vars => IInv'
<1> SUFFICES ASSUME TypeOK, IInv, [Next]_vars PROVE IInv'
  OBVIOUS
<1>1. CASE Provision
  BY <1>1, ProvisionIInv
<1>2. CASE FindServer
  BY <1>2, FindServerIInv
<1>3. CASE ~Provision /\ ~FindServer
  <2>1. srv' \in [Servers -> Server]
    BY TypeStep DEF TypeOK
  <2>2. QED BY <1>3, <2>1, OtherStep, QuietIInv
<1>4. QED BY <1>1, <1>2, <1>3

\* Type correctness and the inductive invariant, which the theorems below follow
\* from: how far provisionMachine (baremetal.go:234-462) has come with a server.
THEOREM Invariance == Spec => [](TypeOK /\ IInv)
<1>1. QED BY TypeInit, TypeStep, IInvInit, IInvStep, PTL DEF Spec

-----------------------------------------------------------------------------
(* What the invariant is for.                                              *)

\* A server that carries a machine's name was installed for that machine and
\* runs nothing of an earlier one (baremetal.go:450).
THEOREM NamesComeLast == Spec => []NamedMeansInstalled
<1>1. IInv => NamedMeansInstalled
  BY DEF IInv
<1>2. QED BY <1>1, Invariance, PTL

\* A machine never has two servers, so findAttachedMachine (baremetal.go:167-201)
\* never meets the error that no retry gets out of.
THEOREM NoDuplicates == Spec => []OneServerPerMachine
<1>1. IInv => OneServerPerMachine
  <2>1. SUFFICES ASSUME IInv, NEW m \in Machines PROVE Cardinality(Attached(m)) <= 1
    BY DEF OneServerPerMachine
  <2>2. CASE Attached(m) = {}
    BY <2>2, FS_EmptySet
  <2>3. ASSUME NEW s \in Attached(m) PROVE Cardinality(Attached(m)) <= 1
    <3>1. Attached(m) = {s}
      BY <2>1, <2>3 DEF IInv, NamesDiffer, Attached
    <3>2. Cardinality({s}) = 1
      BY FS_Singleton
    <3>3. QED BY <3>1, <3>2
  <2>4. QED BY <2>2, <2>3
<1>2. QED BY <1>1, Invariance, PTL

\* A server never has two drives with the label, so findCorrectDevice
\* (baremetal.go:599-688) always knows which one to install.
THEOREM OneLabel == Spec => []OneSystemDrive
<1>1. IInv => OneSystemDrive
  <2>1. SUFFICES ASSUME IInv, NEW s \in Servers
        PROVE  Cardinality({d \in Drives : srv[s].drives[d] = "os"}) <= 1
    BY DEF OneSystemDrive
  <2> DEFINE os == {d \in Drives : srv[s].drives[d] = "os"}
  <2>2. CASE os = {}
    BY <2>2, FS_EmptySet
  <2>3. ASSUME NEW d \in os PROVE Cardinality(os) <= 1
    <3>1. os = {d}
      BY <2>1, <2>3 DEF IInv, LabelsDiffer
    <3>2. Cardinality({d}) = 1
      BY FS_Singleton
    <3>3. QED BY <3>1, <3>2
  <2>4. QED BY <2>2, <2>3
<1>2. QED BY <1>1, Invariance, PTL

\* No installation and no wipe touches a drive with partitions that are not a
\* system's (baremetal.go:304-383, 629).  Nothing is said of a file system right
\* on a drive: findCorrectDevice takes such a drive for an empty one.
THEOREM PartitionsSafe == Spec => PartitionsKept
<1> DEFINE Kept == \A s \in Servers, d \in Drives :
                     srv[s].drives[d] = "data" => srv'[s].drives[d] = "data"
<1>1. TypeOK /\ IInv /\ [Next]_vars => [Kept]_vars
  <2>1. SUFFICES ASSUME TypeOK, IInv, [Next]_vars PROVE Kept
    OBVIOUS
  <2>2. CASE ~Provision
    BY <2>1, <2>2, OtherStep
  <2>3. CASE Provision
    <3> DEFINE v == srv[worker.server]
    <3>1. worker.server \in Servers /\ v \in Server
      BY <2>1, <2>3 DEF TypeOK, WithServer, Provision, ActivateRescue, Reset, Install,
                        Label, Reboot, Seed, RebootAgain, SetName
    <3> HIDE DEF v
    <3>2. ASSUME NEW w, Becomes(w),
                 \A d \in Drives : v.drives[d] = "data" => w.drives[d] = "data"
          PROVE  Kept
      BY <2>1, <3>1, <3>2 DEF Becomes, TypeOK, v
    <3>3. UNCHANGED srv => Kept
      OBVIOUS
    <3>4. /\ \A d \in CorrectDevice(v) : d \in Drives /\ v.drives[d] # "data"
          /\ worker.step = "label" =>
               worker.drive \in Drives /\ v.drives[worker.drive] # "data"
      BY <2>1, CorrectDeviceType DEF IInv, Progress, TypeOK, v
    <3>5. ASSUME NEW e \in Drives, v.drives[e] # "data",
                 NEW w \in {Wiped(v, e), Installed(v, e)},
                 NEW d \in Drives, v.drives[d] = "data"
          PROVE  w.drives[d] = "data"
      BY <3>1, <3>5, ServerFields
    <3>6. CASE Install
      <4>1. \A e \in Drives :
              [Installed(v, e) EXCEPT !.system = None].drives = Installed(v, e).drives
        BY <3>1, ServerType DEF Server
      <4>2. ASSUME NEW e \in CorrectDevice(v),
                   \/ Becomes(Wiped(v, e)) \/ Becomes(Installed(v, e))
                   \/ Becomes([Installed(v, e) EXCEPT !.system = None])
            PROVE  Kept
        <5>1. e \in Drives /\ v.drives[e] # "data"
          BY <3>4
        <5>2. CASE Becomes(Wiped(v, e))
          BY <3>2, <3>5, <5>1, <5>2
        <5>3. CASE Becomes(Installed(v, e))
          BY <3>2, <3>5, <5>1, <5>3
        <5>4. CASE Becomes([Installed(v, e) EXCEPT !.system = None])
          <6> DEFINE w == [Installed(v, e) EXCEPT !.system = None]
          <6>1. w.drives = Installed(v, e).drives
            BY <4>1, <5>1
          <6> HIDE DEF w
          <6>2. \A d \in Drives : v.drives[d] = "data" => w.drives[d] = "data"
            BY <3>5, <5>1, <6>1
          <6>3. Becomes(w)
            BY <5>4 DEF w
          <6>4. QED BY <3>2, <6>2, <6>3
        <5>5. QED BY <4>2, <5>2, <5>3, <5>4
      <4>3. QED BY <3>3, <3>6, <4>2 DEF Install, v
    <3>7. CASE Label
      <4> DEFINE labelled == [v EXCEPT !.drives[worker.drive] = "os"]
      <4>1. worker.drive \in Drives /\ v.drives[worker.drive] # "data"
        BY <3>4, <3>7 DEF Label
      <4>2. \A d \in Drives : v.drives[d] = "data" => labelled.drives[d] = "data"
        BY <3>1, <4>1 DEF Server
      <4>3. CASE Becomes(labelled)
        BY <3>2, <4>2, <4>3
      <4>4. CASE Becomes(Wiped(v, worker.drive))
        BY <3>2, <3>5, <4>1, <4>4
      <4>5. CASE Becomes(v)
        BY <3>2, <4>5
      <4>6. QED BY <3>7, <4>3, <4>4, <4>5 DEF Label, v
    <3>8. CASE ~Install /\ ~Label
      <4>1. \/ UNCHANGED srv
            \/ \E w : Becomes(w) /\ w.drives = v.drives
        <5>1. /\ \A x : [v EXCEPT !.rescue = x].drives = v.drives
              /\ \A x : [v EXCEPT !.system = x].drives = v.drives
              /\ \A x : [v EXCEPT !.name = x].drives = v.drives
              /\ Boot(v).drives = v.drives
          BY <3>1, ServerFields DEF Server
        <5>2. CASE ActivateRescue
          BY <5>1, <5>2 DEF ActivateRescue, v
        <5>3. CASE Reset \/ Reboot \/ RebootAgain
          BY <5>1, <5>3 DEF Reset, Reboot, RebootAgain, RebootThen, v
        <5>4. CASE Seed
          BY <5>1, <5>4 DEF Seed, v
        <5>5. CASE SetName
          BY <5>1, <5>5 DEF SetName, v
        <5>6. QED BY <2>3, <3>8, <5>2, <5>3, <5>4, <5>5 DEF Provision
      <4>2. QED BY <3>2, <3>3, <4>1
    <3>9. QED BY <3>6, <3>7, <3>8
  <2>4. QED BY <2>2, <2>3
<1>2. QED BY <1>1, Invariance, PTL DEF Spec, PartitionsKept
-----------------------------------------------------------------------------
(* What a patch does to the finalizer, as in HcloudMachineProofs.           *)

\* An object is consistent: a deleted one is held, one that is gone is not.
Consistent(o) ==
  /\ o.life = "absent" => ~o.fin
  /\ o.life = "deleting" => o.fin

\* A patch, whole or in part, sets or drops the finalizer only if the caller
\* did, and an object goes only with its finalizer.
LEMMA PatchedFacts ==
  ASSUME NEW o \in Object, NEW from \in Object, NEW to \in Object,
         Consistent(o), o.life # "absent",
         NEW p \in {o, SpecPatched(o, from, to),
                    StatusPatched(o, from, to), Patched(o, from, to)}
  PROVE  /\ p.fin /\ ~o.fin => to.fin /\ ~from.fin
         /\ o.fin /\ ~p.fin => from.fin /\ ~to.fin
         /\ p.life = o.life \/ (o.life = "deleting" /\ p.life = "absent" /\ ~p.fin)
         /\ Consistent(p)
<1> DEFINE fin == IF from.fin = to.fin THEN o.fin ELSE to.fin
           pid == IF from.pid = to.pid THEN o.pid ELSE to.pid
           sent == [o EXCEPT !.fin = fin, !.pid = pid]
<1>1. sent \in Object /\ sent.fin = fin /\ sent.life = o.life
  BY DEF Object
<1>2. SpecPatched(o, from, to) = Collected(sent)
  BY DEF SpecPatched
<1>3. Absent.life = "absent" /\ Absent.fin = FALSE
  BY DEF Absent
<1> DEFINE q == SpecPatched(o, from, to)
<1>4. \/ q = sent /\ ~(o.life = "deleting" /\ ~fin)
      \/ q = Absent /\ o.life = "deleting" /\ ~fin
  BY <1>1, <1>2 DEF Collected
<1>5. /\ q.fin /\ ~o.fin => to.fin /\ ~from.fin
      /\ o.fin /\ ~q.fin => from.fin /\ ~to.fin
      /\ q.life = o.life \/ (o.life = "deleting" /\ q.life = "absent" /\ ~q.fin)
      /\ Consistent(q)
  <2>1. fin \in BOOLEAN /\ o.fin \in BOOLEAN /\ to.fin \in BOOLEAN /\ from.fin \in BOOLEAN
    BY DEF Object
  <2>2. CASE q = sent /\ ~(o.life = "deleting" /\ ~fin)
    BY <1>1, <2>1, <2>2 DEF Consistent
  <2>3. CASE q = Absent /\ o.life = "deleting" /\ ~fin
    BY <1>3, <2>1, <2>3 DEF Consistent
  <2>4. QED BY <1>4, <2>2, <2>3
<1>6. \A x \in Object : /\ StatusPatched(x, from, to).fin = x.fin
                        /\ StatusPatched(x, from, to).life = x.life
  BY DEF StatusPatched, Object
<1>7. q \in Object
  BY PatchedType
<1>8. /\ Patched(o, from, to).fin = q.fin
      /\ Patched(o, from, to).life = q.life
  BY <1>6, <1>7 DEF Patched
<1>9. CASE p \in {o, StatusPatched(o, from, to)}
  BY <1>6, <1>9 DEF Consistent
<1>10. CASE p \in {q, Patched(o, from, to)}
  BY <1>5, <1>8, <1>10 DEF Consistent
<1>11. QED BY <1>9, <1>10

\* The same, for a call of the patch helper and whatever comes of it.
LEMMA PatchFacts ==
  ASSUME TypeOK, Held, NEW m \in Machines,
         NEW from \in Object, NEW to \in Object,
         PatchDone(m, from, to) \/ PatchFails(m, from, to)
  PROVE  /\ \A n \in Machines : n # m => obj'[n] = obj[n]
         /\ obj'[m].fin /\ ~obj[m].fin => to.fin /\ ~from.fin
         /\ obj[m].fin /\ ~obj'[m].fin => from.fin /\ ~to.fin
         /\ \/ obj'[m].life = obj[m].life
            \/ obj[m].life = "deleting" /\ obj'[m].life = "absent" /\ ~obj'[m].fin
         /\ Consistent(obj'[m])
<1>1. obj[m] \in Object /\ Consistent(obj[m])
  BY DEF TypeOK, Held, Consistent
<1>2. CASE obj' = obj
  BY <1>1, <1>2
<1>3. CASE obj[m].life # "absent" /\
           \E p \in {obj[m], SpecPatched(obj[m], from, to),
                     StatusPatched(obj[m], from, to), Patched(obj[m], from, to)} :
             obj' = [obj EXCEPT ![m] = p]
  <2>1. PICK p \in {obj[m], SpecPatched(obj[m], from, to),
                    StatusPatched(obj[m], from, to), Patched(obj[m], from, to)} :
          obj' = [obj EXCEPT ![m] = p]
    BY <1>3
  <2>2. obj'[m] = p /\ \A n \in Machines : n # m => obj'[n] = obj[n]
    BY <2>1 DEF TypeOK
  <2>3. /\ p.fin /\ ~obj[m].fin => to.fin /\ ~from.fin
        /\ obj[m].fin /\ ~p.fin => from.fin /\ ~to.fin
        /\ p.life = obj[m].life
             \/ (obj[m].life = "deleting" /\ p.life = "absent" /\ ~p.fin)
        /\ Consistent(p)
    BY <1>1, <1>3, PatchedFacts
  <2>4. QED BY <2>2, <2>3
<1>4. CASE PatchDone(m, from, to)
  <2>1. CASE from = to
    <3>1. obj' = obj
      BY <1>4, <2>1 DEF PatchDone, TypeOK
    <3>2. QED BY <3>1, <1>2
  <2>2. CASE from # to
    BY <1>3, <1>4, <2>2 DEF PatchDone
  <2>3. QED BY <2>1, <2>2
<1>5. CASE PatchFails(m, from, to)
  BY <1>2, <1>3, <1>5 DEF PatchFails
<1>6. QED BY <1>4, <1>5

\* A patch that is done has set the finalizer it was asked to set.
LEMMA PatchHolds ==
  ASSUME TypeOK, Held, NEW m \in Machines,
         NEW from \in Object, NEW to \in Object,
         PatchDone(m, from, to), to.fin, from.fin => obj[m].fin
  PROVE  obj'[m].fin
<1>1. obj[m] \in Object /\ Consistent(obj[m])
  BY DEF TypeOK, Held, Consistent
<1>2. CASE from = to
  BY <1>2 DEF PatchDone, TypeOK
<1>3. CASE from # to
  <2> DEFINE sent == [obj[m] EXCEPT
               !.fin = IF from.fin = to.fin THEN obj[m].fin ELSE to.fin,
               !.pid = IF from.pid = to.pid THEN obj[m].pid ELSE to.pid]
  <2>1. sent \in Object /\ sent.fin
    BY <1>1 DEF Object
  <2>2. SpecPatched(obj[m], from, to) = sent
    BY <2>1 DEF SpecPatched, Collected
  <2>3. StatusPatched(sent, from, to).fin = sent.fin
    BY <2>1 DEF StatusPatched, Object
  <2>4. obj'[m] = StatusPatched(sent, from, to)
    BY <1>3, <2>2 DEF PatchDone, Patched, TypeOK
  <2>5. QED BY <2>1, <2>3, <2>4
<1>4. QED BY <1>2, <1>3

\* The three steps that patch, in these terms.
LEMMA WorkerPatches ==
  ASSUME TypeOK, Held, AddFinalizer \/ Close \/ Panic
  PROVE  \E to \in Object :
           /\ to.fin = (worker.work.fin \/ worker.step = "register")
           /\ \A n \in Machines : n # worker.m => obj'[n] = obj[n]
           /\ obj'[worker.m].fin /\ ~obj[worker.m].fin => to.fin /\ ~worker.snap.fin
           /\ obj[worker.m].fin /\ ~obj'[worker.m].fin => worker.snap.fin /\ ~to.fin
           /\ \/ obj'[worker.m].life = obj[worker.m].life
              \/ /\ obj[worker.m].life = "deleting" /\ obj'[worker.m].life = "absent"
                 /\ ~obj'[worker.m].fin
           /\ Consistent(obj'[worker.m])
           /\ AddFinalizer => worker'.work = to /\ worker'.m = worker.m
                               /\ worker'.snap = worker.snap
                               /\ worker'.step \in {"find", "close"}
           /\ PatchDone(worker.m, worker.snap, to) /\ to.fin
                /\ (worker.snap.fin => obj[worker.m].fin) => obj'[worker.m].fin
           /\ AddFinalizer /\ worker'.step = "find" => PatchDone(worker.m, worker.snap, to)
<1>1. worker.m \in Machines /\ worker.snap \in Object /\ worker.work \in Object
  BY DEF AddFinalizer, Close, Panic, TypeOK, WorkerState
<1>2. CASE AddFinalizer
  <2> DEFINE to == [worker.work EXCEPT !.fin = TRUE]
  <2>1. to \in Object /\ to.fin = TRUE
    BY <1>1 DEF Object
  <2>2. /\ PatchDone(worker.m, worker.snap, to) \/ PatchFails(worker.m, worker.snap, to)
        /\ worker'.work = to /\ worker'.m = worker.m /\ worker'.snap = worker.snap
        /\ worker'.step \in {"find", "close"}
        /\ worker'.step = "find" => PatchDone(worker.m, worker.snap, to)
    BY <1>2 DEF AddFinalizer, TypeOK, WorkerState
  <2>3. worker.step = "register"
    BY <1>2 DEF AddFinalizer
  <2> HIDE DEF to
  <2>4. /\ \A n \in Machines : n # worker.m => obj'[n] = obj[n]
        /\ obj'[worker.m].fin /\ ~obj[worker.m].fin => to.fin /\ ~worker.snap.fin
        /\ obj[worker.m].fin /\ ~obj'[worker.m].fin => worker.snap.fin /\ ~to.fin
        /\ \/ obj'[worker.m].life = obj[worker.m].life
           \/ /\ obj[worker.m].life = "deleting" /\ obj'[worker.m].life = "absent"
              /\ ~obj'[worker.m].fin
        /\ Consistent(obj'[worker.m])
    BY <1>1, <2>1, <2>2, PatchFacts
  <2>5. PatchDone(worker.m, worker.snap, to) /\ to.fin
          /\ (worker.snap.fin => obj[worker.m].fin) => obj'[worker.m].fin
    BY <1>1, <2>1, PatchHolds
  <2>6. to.fin = (worker.work.fin \/ worker.step = "register")
    BY <2>1, <2>3
  <2>7. QED BY <2>1, <2>2, <2>4, <2>5, <2>6
<1>3. CASE Close \/ Panic
  <2>1. PatchDone(worker.m, worker.snap, worker.work)
          \/ PatchFails(worker.m, worker.snap, worker.work)
    BY <1>3 DEF Close, Panic
  <2>2. ~AddFinalizer /\ worker.step # "register"
    BY <1>3 DEF Close, Panic, AddFinalizer
  <2>3. worker.work.fin \in BOOLEAN
    BY <1>1 DEF Object
  <2>4. QED BY <1>1, <2>1, <2>2, <2>3, PatchFacts, PatchHolds
<1>4. QED BY <1>2, <1>3

-----------------------------------------------------------------------------
(* The finalizer and the names: PInv is an invariant.                      *)

\* The steps of reconcileNormal that leave the object alone: they keep the
\* finalizer in memory, and give a server no name but their machine's.
LEMMA NormalMoves ==
  ASSUME TypeOK, FindServer \/ Provision
  PROVE  /\ UNCHANGED <<obj, cache>>
         /\ worker.step \in WithServer \cup {"find"}
         /\ worker'.step \in (WithServer \cup {"close", "panic"})
         /\ worker'.m = worker.m /\ worker'.snap = worker.snap
         /\ worker'.work.fin = worker.work.fin
         /\ \A s \in Servers : srv'[s].name \in {srv[s].name, worker.m}
<1> DEFINE v == srv[worker.server]
<1>1. worker \in WorkerState /\ worker.work \in Object /\ srv \in [Servers -> Server]
  BY DEF TypeOK, WorkerState
<1>2. UNCHANGED <<obj, cache>> /\ worker.step \in WithServer \cup {"find"}
  BY DEF FindServer, Provision, ActivateRescue, Reset, Install, Label, Reboot, Seed,
         RebootAgain, SetName, WithServer
<1> DEFINE Moves == /\ worker'.step \in (WithServer \cup {"close", "panic"})
                    /\ worker'.m = worker.m /\ worker'.snap = worker.snap
                    /\ worker'.work.fin = worker.work.fin
<1>3. /\ Leave => Moves
      /\ \A step \in WithServer \cup {"panic"} : Goto(step) => Moves
  BY <1>1 DEF Leave, Goto, WorkerState, WithServer
<1>4. ASSUME NEW s \in Servers, NEW step \in {"rescue", "close"},
             worker' = [worker EXCEPT !.step = step, !.server = s]
      PROVE  Moves
  BY <1>1, <1>4 DEF WorkerState, WithServer
<1>5. ASSUME NEW s \in Servers, MarkReady(s) PROVE Moves
  <2> DEFINE made == [[[worker.work EXCEPT !.pid = s] EXCEPT !.ready = TRUE]
                        EXCEPT !.failed = worker.work.failed \/ srv[s].cancelled]
  <2>1. worker' = [worker EXCEPT !.step = "close", !.work = made]
    BY <1>1, <1>5 DEF MarkReady, WorkerState, Object
  <2>2. made.fin = worker.work.fin
    BY <1>1 DEF Object
  <2> HIDE DEF made
  <2>3. QED BY <1>1, <2>1, <2>2 DEF WorkerState
<1>6. ASSUME worker' = [worker EXCEPT !.step = "close", !.work.pid = worker.server,
                                      !.work.ready = TRUE]
      PROVE  Moves
  <2> DEFINE made == [[worker.work EXCEPT !.pid = worker.server] EXCEPT !.ready = TRUE]
  <2>1. worker' = [worker EXCEPT !.step = "close", !.work = made]
    BY <1>1, <1>6 DEF WorkerState, Object
  <2>2. made.fin = worker.work.fin
    BY <1>1 DEF Object
  <2> HIDE DEF made
  <2>3. QED BY <1>1, <2>1, <2>2 DEF WorkerState
<1>7. ASSUME NEW d \in Drives,
             worker' = [worker EXCEPT !.step = "label", !.drive = d]
      PROVE  Moves
  BY <1>1, <1>7 DEF WorkerState, WithServer
<1>8. Moves
  <2>1. CASE FindServer
    BY <1>3, <1>4, <1>5, <2>1 DEF FindServer, Attached, Available
  <2>2. CASE Install
    BY <1>3, <1>7, <2>2, CorrectDeviceType DEF Install, Fails
  <2>3. CASE SetName
    BY <1>3, <1>6, <2>3 DEF SetName
  <2>4. CASE ActivateRescue \/ Reset \/ Label \/ Reboot \/ Seed \/ RebootAgain
    BY <1>3, <2>4 DEF ActivateRescue, Reset, Label, Reboot, Seed, RebootAgain,
       RebootThen, Fails, WithServer
  <2>5. QED BY <2>1, <2>2, <2>3, <2>4 DEF Provision
<1>9. \A s \in Servers : srv'[s].name \in {srv[s].name, worker.m}
  <2>1. CASE UNCHANGED srv
    BY <2>1
  <2>2. CASE \E w : Becomes(w) /\ w.name \in {v.name, worker.m}
    BY <1>1, <2>2 DEF Becomes
  <2>3. UNCHANGED srv \/ \E w : Becomes(w) /\ w.name \in {v.name, worker.m}
    <3>1. CASE FindServer
      BY <3>1 DEF FindServer
    <3>2. CASE Provision
      <4>1. worker.server \in Servers /\ v \in Server
        BY <1>1, <3>2 DEF TypeOK, WithServer, Provision, ActivateRescue, Reset, Install,
                   Label, Reboot, Seed, RebootAgain, SetName
      <4> HIDE DEF v
      <4>2. /\ \A x : [v EXCEPT !.rescue = x].name = v.name
            /\ \A x : [v EXCEPT !.system = x].name = v.name
            /\ \A d, x : [v EXCEPT !.drives[d] = x].name = v.name
            /\ [v EXCEPT !.name = worker.m].name = worker.m
            /\ Boot(v).name = v.name
        BY <4>1, ServerFields DEF Server
      <4>3. ASSUME NEW d \in Drives
            PROVE  /\ Wiped(v, d).name = v.name /\ Installed(v, d).name = v.name
                   /\ [Installed(v, d) EXCEPT !.system = None].name = v.name
        BY <4>1, ServerFields, ServerType DEF Server
      <4>4. CASE ActivateRescue
        BY <4>2, <4>4 DEF ActivateRescue, v
      <4>5. CASE Reset \/ Reboot \/ RebootAgain
        BY <4>2, <4>5 DEF Reset, Reboot, RebootAgain, RebootThen, v
      <4>6. CASE Install
        BY <4>3, <4>6, CorrectDeviceType DEF Install, v
      <4>7. CASE Label
        <5>1. worker.drive \in Drives
          BY <4>7 DEF Label, TypeOK
        <5> DEFINE labelled == [v EXCEPT !.drives[worker.drive] = "os"]
        <5>2. labelled.name = v.name
          BY <4>1 DEF Server
        <5>3. Wiped(v, worker.drive).name = v.name
          BY <4>3, <5>1
        <5>4. Becomes(labelled) \/ Becomes(Wiped(v, worker.drive)) \/ Becomes(v)
          BY <4>7 DEF Label, v
        <5> HIDE DEF labelled
        <5>5. QED BY <5>2, <5>3, <5>4
      <4>8. CASE Seed
        BY <4>2, <4>8 DEF Seed, v
      <4>9. CASE SetName
        BY <4>2, <4>9 DEF SetName, v
      <4>10. QED BY <3>2, <4>4, <4>5, <4>6, <4>7, <4>8, <4>9 DEF Provision
    <3>3. QED BY <3>1, <3>2
  <2>4. QED BY <2>1, <2>2, <2>3
<1>10. QED BY <1>2, <1>8, <1>9

LEMMA NormalPInv ==
  ASSUME TypeOK, PInv, FindServer \/ Provision
  PROVE  PInv'
<1>1. /\ UNCHANGED <<obj, cache>>
      /\ worker.step \in WithServer \cup {"find"}
      /\ worker'.step \in (WithServer \cup {"close", "panic"})
      /\ worker'.m = worker.m /\ worker'.snap = worker.snap
      /\ worker'.work.fin = worker.work.fin
      /\ \A s \in Servers : srv'[s].name \in {srv[s].name, worker.m}
  BY NormalMoves
<1>2. worker.m \in Machines /\ worker.step \notin {"idle", "register", "delete", "close"}
  BY <1>1 DEF TypeOK, WithServer
<1>3. worker.snap.life = "live" /\ obj[worker.m].fin
  BY <1>2 DEF PInv, NormalSafe, DeleteSafe
<1>4. Held' /\ CacheSafe'
  BY <1>1, <1>3 DEF PInv, Held, CacheSafe
<1>5. worker'.step \notin {"idle", "register", "delete"}
  BY <1>1 DEF WithServer
<1>6. NormalSafe' /\ DeleteSafe'
  BY <1>1, <1>2, <1>3, <1>5 DEF PInv, NormalSafe, DeleteSafe
<1>7. QED BY <1>1, <1>3, <1>4, <1>6 DEF PInv

LEMMA DeletePInv ==
  ASSUME TypeOK, PInv, Delete
  PROVE  PInv'
<1>1. /\ UNCHANGED <<obj, cache>> /\ worker.step = "delete" /\ worker.m \in Machines
      /\ worker \in WorkerState /\ worker.work \in Object
  BY DEF Delete, TypeOK, WorkerState
<1>2. worker.snap.life = "deleting"
  BY <1>1 DEF PInv, NormalSafe
<1>3. ASSUME NEW s \in Servers, Attached(worker.m) = {s},
             srv' = [srv EXCEPT ![s].name = Free]
      PROVE  \A q \in Servers : /\ srv'[q].name \in {srv[q].name, Free}
                                /\ srv'[q].name # worker.m
  <2>1. \A q \in Servers : srv'[q].name = IF q = s THEN Free ELSE srv[q].name
    BY <1>3 DEF TypeOK, Server
  <2>2. Free # worker.m
    BY <1>1
  <2>3. QED BY <1>3, <2>1, <2>2 DEF Attached
<1>4. /\ \A s \in Servers : srv'[s].name \in {srv[s].name, Free}
      /\ worker'.step = "close" /\ worker'.m = worker.m /\ worker'.snap = worker.snap
      /\ worker'.work.fin => worker.work.fin
      /\ worker.work.fin /\ ~worker'.work.fin => \A s \in Servers : srv'[s].name # worker.m
  <2>1. \A s \in Servers : srv'[s].name \in {srv[s].name, Free}
    BY <1>3 DEF Delete, Attached
  <2>2. CASE Leave
    BY <1>1, <2>1, <2>2 DEF Leave, Goto, WorkerState
  <2>3. CASE LetGo /\ \A s \in Servers : srv'[s].name # worker.m
    <3>1. worker' = [worker EXCEPT !.step = "close",
                       !.work = [worker.work EXCEPT !.fin = FALSE]]
      BY <1>1, <2>3 DEF LetGo, WorkerState, Object
    <3>2. [worker.work EXCEPT !.fin = FALSE].fin = FALSE
      BY <1>1 DEF Object
    <3>3. QED BY <1>1, <2>1, <2>3, <3>1, <3>2 DEF WorkerState
  <2>4. CASE LetGo /\ Attached(worker.m) = {} /\ UNCHANGED srv
    BY <2>3, <2>4 DEF Attached
  <2>5. QED BY <1>3, <2>2, <2>3, <2>4 DEF Delete, Attached
<1>5. Held' /\ CacheSafe'
  BY <1>1, <1>4 DEF PInv, Held, CacheSafe
<1>6. NormalSafe' /\ DeleteSafe'
  BY <1>1, <1>2, <1>4 DEF PInv, NormalSafe, DeleteSafe, Attached
<1>7. QED BY <1>2, <1>4, <1>5, <1>6 DEF PInv

\* What users, the informer, the bootstrap provider and Robot do.
LEMMA EnvironmentPInv ==
  ASSUME TypeOK, PInv, Environment
  PROVE  PInv'
<1>1. UNCHANGED worker
  BY DEF Environment, CreateObject, DeleteObject, Watch, Bootstrap, ServerReady,
         CancelServer
<1>2. ASSUME NEW m \in Machines, CreateObject(m) PROVE PInv'
  <2>1. /\ obj'[m] = Fresh /\ obj[m].life = "absent" /\ ~obj[m].fin
        /\ \A n \in Machines : n # m => obj'[n] = obj[n]
        /\ UNCHANGED <<cache, srv>>
    BY <1>2 DEF CreateObject, TypeOK, PInv, Held
  <2>2. Fresh.life = "live" /\ Fresh.fin = FALSE
    BY DEF Fresh, Absent
  <2>3. Held' /\ CacheSafe'
    BY <2>1, <2>2 DEF PInv, Held, CacheSafe
  <2>4. NormalSafe' /\ DeleteSafe'
    BY <1>1, <2>1, <2>2 DEF PInv, NormalSafe, DeleteSafe, TypeOK, Attached
  <2>5. QED BY <1>1, <2>3, <2>4 DEF PInv
<1>3. ASSUME NEW m \in Machines, DeleteObject(m) PROVE PInv'
  <2> DEFINE marked == [obj[m] EXCEPT !.life = "deleting"]
  <2>1. /\ obj'[m] = Collected(marked) /\ obj[m].life = "live"
        /\ \A n \in Machines : n # m => obj'[n] = obj[n]
        /\ UNCHANGED <<cache, srv>>
    BY <1>3 DEF DeleteObject, TypeOK
  <2>2. marked.life = "deleting" /\ marked.fin = obj[m].fin /\ obj[m].fin \in BOOLEAN
    BY DEF TypeOK, Object
  <2>3. Absent.life = "absent" /\ Absent.fin = FALSE
    BY DEF Absent
  <2>4. /\ obj'[m].fin = obj[m].fin
        /\ obj[m].fin => obj'[m].life = "deleting"
        /\ ~obj[m].fin => obj'[m].life = "absent"
    BY <2>1, <2>2, <2>3 DEF Collected
  <2>5. Held' /\ CacheSafe'
    BY <2>1, <2>4 DEF PInv, Held, CacheSafe
  <2>6. NormalSafe' /\ DeleteSafe'
    BY <1>1, <2>1, <2>4 DEF PInv, NormalSafe, DeleteSafe, TypeOK, Attached
  <2>7. QED BY <1>1, <2>5, <2>6 DEF PInv
<1>4. ASSUME NEW m \in Machines, Watch(m) PROVE PInv'
  <2>1. /\ cache'[m] = obj[m] /\ UNCHANGED <<obj, srv>>
        /\ \A n \in Machines : n # m => cache'[n] = cache[n]
    BY <1>4 DEF Watch, TypeOK
  <2>2. Held' /\ CacheSafe'
    BY <2>1 DEF PInv, Held, CacheSafe
  <2>3. /\ UNCHANGED <<worker, obj, srv>> /\ Attached(worker.m)' = Attached(worker.m)
        /\ worker.step # "idle" => worker.m \in Machines
    BY <1>1, <2>1 DEF TypeOK, Attached
  <2>4. NormalSafe'
    BY <2>1, <2>3 DEF PInv, NormalSafe
  <2>5. DeleteSafe'
    BY <2>1, <2>3 DEF PInv, DeleteSafe
  <2>6. QED BY <1>1, <2>2, <2>4, <2>5 DEF PInv
<1>5. ASSUME UNCHANGED <<obj, cache>>, \A s \in Servers : srv'[s].name = srv[s].name
      PROVE  PInv'
  BY <1>1, <1>5 DEF PInv, Held, CacheSafe, NormalSafe, DeleteSafe, Attached
<1>6. ASSUME NEW m \in Machines, Bootstrap(m) PROVE PInv'
  BY <1>5, <1>6 DEF Bootstrap
<1>7. ASSUME NEW s \in Servers, ServerReady(s) \/ CancelServer(s) PROVE PInv'
  <2>1. /\ [srv[s] EXCEPT !.ready = TRUE].name = srv[s].name
        /\ [srv[s] EXCEPT !.cancelled = TRUE].name = srv[s].name
    BY DEF TypeOK, Server
  <2>2. \/ srv' = [srv EXCEPT ![s] = [srv[s] EXCEPT !.ready = TRUE]]
        \/ srv' = [srv EXCEPT ![s] = [srv[s] EXCEPT !.cancelled = TRUE]]
    BY <1>7 DEF ServerReady, CancelServer, TypeOK
  <2>3. \A q \in Servers : srv'[q].name = srv[q].name
    BY <2>1, <2>2 DEF TypeOK
  <2>4. UNCHANGED <<obj, cache>>
    BY <1>7 DEF ServerReady, CancelServer
  <2>5. QED BY <1>5, <2>3, <2>4
<1>8. QED BY <1>2, <1>3, <1>4, <1>6, <1>7 DEF Environment

LEMMA ReconcilePInv ==
  ASSUME TypeOK, PInv, NEW m \in Machines, Reconcile(m)
  PROVE  PInv'
<1>1. UNCHANGED <<obj, cache, srv>>
  BY DEF Reconcile
<1>2. /\ worker'.m = m /\ worker'.snap = cache[m] /\ worker'.work = cache[m]
      /\ worker'.step = IF cache[m].life = "deleting" THEN "delete" ELSE "register"
      /\ cache[m].life \in {"live", "deleting"}
  BY DEF Reconcile, Idle, TypeOK, Object
<1>3. Held' /\ CacheSafe'
  BY <1>1 DEF PInv, Held, CacheSafe
<1>4. NormalSafe'
  BY <1>1, <1>2 DEF PInv, CacheSafe, NormalSafe
<1>5. DeleteSafe'
  BY <1>1, <1>2 DEF PInv, CacheSafe, DeleteSafe
<1>6. QED BY <1>2, <1>3, <1>4, <1>5 DEF PInv

\* The steps that patch the object.
LEMMA PatchPInv ==
  ASSUME TypeOK, PInv, AddFinalizer \/ Close \/ Panic
  PROVE  PInv'
<1> DEFINE m == worker.m
           from == worker.snap
<1>1. /\ worker.step \in {"register", "close", "panic"} /\ UNCHANGED srv
      /\ m \in Machines /\ from.fin \in BOOLEAN /\ worker.work.fin \in BOOLEAN
      /\ \A n \in Machines : obj[n].fin \in BOOLEAN
  BY DEF AddFinalizer, Close, Panic, Restart, TypeOK, WorkerState, Object
<1>2. PICK to \in Object :
           /\ to.fin = (worker.work.fin \/ worker.step = "register")
           /\ \A n \in Machines : n # m => obj'[n] = obj[n]
           /\ obj'[m].fin /\ ~obj[m].fin => to.fin /\ ~from.fin
           /\ obj[m].fin /\ ~obj'[m].fin => from.fin /\ ~to.fin
           /\ \/ obj'[m].life = obj[m].life
              \/ obj[m].life = "deleting" /\ obj'[m].life = "absent" /\ ~obj'[m].fin
           /\ Consistent(obj'[m])
           /\ AddFinalizer => worker'.work = to /\ worker'.m = m
                               /\ worker'.snap = from
                               /\ worker'.step \in {"find", "close"}
           /\ PatchDone(m, from, to) /\ to.fin
                /\ (from.fin => obj[m].fin) => obj'[m].fin
           /\ AddFinalizer /\ worker'.step = "find" => PatchDone(m, from, to)
  BY WorkerPatches DEF PInv
<1>3. /\ worker' = Idle \/ AddFinalizer
      /\ UNCHANGED cache \/ (Panic /\ cache' = obj')
      /\ AddFinalizer => worker.step = "register" /\ UNCHANGED cache
      /\ Panic => worker.step = "panic"
  BY DEF AddFinalizer, Close, Panic, Restart
<1>4. from.life \in {"live", "deleting"}
  BY <1>1 DEF PInv
<1> HIDE DEF m, from
<1>5. CASE from.life = "live"
  <2>1. /\ from.fin => to.fin /\ obj[m].fin
        /\ to.fin
        /\ cache[m].life = "deleting" => obj[m].life = "deleting"
    BY <1>1, <1>2, <1>5 DEF PInv, NormalSafe, m, from
  <2>2. /\ obj[m].fin => obj'[m].fin
        /\ obj[m].fin => obj'[m].life = obj[m].life
    BY <1>2, <2>1
  <2>3. Held'
    BY <1>1, <1>2, <2>2 DEF PInv, Held, Consistent
  <2>4. /\ cache[m].life = "deleting" => obj'[m].life = "deleting"
        /\ cache[m].life = "live" /\ cache[m].fin => obj'[m].fin
    BY <1>1, <2>1, <2>2 DEF PInv, CacheSafe, Held
  <2>5. \A n \in Machines :
          /\ cache[n].life = "live" /\ cache[n].fin => obj'[n].fin
          /\ cache[n].life = "deleting" => ~(obj'[n].life = "live" /\ obj'[n].fin)
    BY <1>2, <2>4 DEF PInv, CacheSafe
  <2>6. CacheSafe'
    BY <1>3, <2>5 DEF CacheSafe
  <2>7. CASE worker' = Idle
    BY <2>3, <2>6, <2>7, WorkerFacts DEF PInv, NormalSafe, DeleteSafe
  <2>8. CASE AddFinalizer
    <3>1. worker'.step = "find" => obj'[m].fin
      BY <1>2, <2>1, <2>8
    <3>2. /\ worker'.m = m /\ worker'.snap = from /\ worker'.work = to
          /\ worker'.step \in {"find", "close"} /\ UNCHANGED cache
      BY <1>2, <1>3, <2>8
    <3>3. NormalSafe' /\ DeleteSafe'
      BY <1>1, <1>5, <2>1, <2>2, <2>4, <3>1, <3>2 DEF NormalSafe, DeleteSafe
    <3>4. QED BY <1>5, <2>3, <2>6, <3>2, <3>3 DEF PInv
  <2>9. QED BY <1>3, <2>7, <2>8
<1>6. CASE from.life = "deleting"
  <2>1. /\ worker.step = "close" /\ to.fin = worker.work.fin
        /\ to.fin => from.fin
        /\ ~(obj[m].life = "live" /\ obj[m].fin)
        /\ ~(cache[m].life = "live" /\ cache[m].fin)
        /\ from.fin /\ ~to.fin => \A s \in Servers : srv[s].name # m
    BY <1>1, <1>2, <1>6 DEF PInv, DeleteSafe, m, from, Attached
  <2>2. /\ obj'[m].fin => obj[m].fin
        /\ obj[m].fin /\ ~obj'[m].fin => \A s \in Servers : srv[s].name # m
    BY <1>2, <2>1
  <2>3. worker' = Idle /\ UNCHANGED cache
    BY <1>3, <2>1
  <2>4. Held'
    BY <1>1, <1>2, <2>2 DEF PInv, Held, Consistent
  <2>5. CacheSafe'
    BY <1>1, <1>2, <2>1, <2>2, <2>3 DEF PInv, CacheSafe
  <2>6. QED BY <2>3, <2>4, <2>5, WorkerFacts DEF PInv, NormalSafe, DeleteSafe
<1>7. QED BY <1>4, <1>5, <1>6

LEMMA InitPInv == Init => PInv
<1> SUFFICES ASSUME Init PROVE PInv
  OBVIOUS
<1>1. /\ \A m \in Machines : obj[m] = Absent /\ cache[m] = Absent
      /\ \A s \in Servers : srv[s].name = Free
      /\ worker = Idle
  BY DEF Init
<1>2. Absent.life = "absent" /\ Absent.fin = FALSE /\ Free \notin Machines
  BY DEF Absent
<1>3. QED BY <1>1, <1>2, WorkerFacts DEF PInv, Held, CacheSafe, NormalSafe, DeleteSafe

LEMMA StepPInv == TypeOK /\ PInv /\ [Next]_vars => PInv'
<1> SUFFICES ASSUME TypeOK, PInv, [Next]_vars PROVE PInv'
  OBVIOUS
<1>1. CASE UNCHANGED vars
  BY <1>1 DEF vars, PInv, Held, CacheSafe, NormalSafe, DeleteSafe, Attached
<1>2. CASE Crash
  <2>1. UNCHANGED <<obj, srv>> /\ cache' = obj /\ worker' = Idle
    BY <1>2 DEF Crash, Restart
  <2>2. QED BY <2>1, WorkerFacts DEF PInv, Held, CacheSafe, NormalSafe, DeleteSafe
<1>3. QED
  BY <1>1, <1>2, EnvironmentPInv, ReconcilePInv, NormalPInv, DeletePInv, PatchPInv
     DEF Next, WorkerStep

-----------------------------------------------------------------------------
(* The controller implements OwnedResource.                                *)

\* A step after which servers have the names they had, and objects their life
\* and finalizer, is none of OwnedResource.
LEMMA Stutters ==
  ASSUME \A m \in Machines : obj'[m].life = obj[m].life /\ obj'[m].fin = obj[m].fin,
         \A s \in Servers : srv'[s].name = srv[s].name
  PROVE  UNCHANGED Abstract!vars
<1>1. lifeOf' = lifeOf /\ held' = held
  BY DEF lifeOf, held
<1>2. served' = served
  BY DEF served, Attached
<1>3. QED BY <1>1, <1>2 DEF Abstract!vars

\* One object's life or finalizer changes.
LEMMA OneObject ==
  ASSUME NEW m \in Machines,
         \A n \in Machines : n # m => obj'[n] = obj[n]
  PROVE  /\ lifeOf' = [lifeOf EXCEPT ![m] = obj'[m].life]
         /\ obj'[m].fin => held' = held \cup {m}
         /\ ~obj'[m].fin => held' = held \ {m}
         /\ lifeOf[m] = obj[m].life /\ (m \in held <=> obj[m].fin)
  BY DEF lifeOf, held

\* What a patch may do to the finalizer, and what goes with it.
LEMMA PatchChanges ==
  ASSUME TypeOK, PInv, AddFinalizer \/ Close \/ Panic
  PROVE  LET m == worker.m IN
         /\ UNCHANGED srv /\ m \in Machines
         /\ \A n \in Machines : n # m => obj'[n] = obj[n]
         /\ obj[m].fin \in BOOLEAN /\ obj'[m].fin \in BOOLEAN
         /\ obj'[m].fin = obj[m].fin => obj'[m].life = obj[m].life
         /\ obj'[m].fin /\ ~obj[m].fin =>
              obj'[m].life = obj[m].life /\ obj[m].life # "absent"
         /\ obj[m].fin /\ ~obj'[m].fin =>
              /\ obj[m].life = "deleting" /\ obj'[m].life = "absent"
              /\ Attached(m) = {}
<1> DEFINE m == worker.m
           from == worker.snap
<1>1. /\ worker.step \in {"register", "close", "panic"} /\ UNCHANGED srv
      /\ m \in Machines /\ from.fin \in BOOLEAN /\ worker.work.fin \in BOOLEAN
      /\ obj[m].fin \in BOOLEAN /\ obj[m].life \in {"absent", "live", "deleting"}
  BY DEF AddFinalizer, Close, Panic, Restart, TypeOK, WorkerState, Object
<1>2. obj'[m].fin \in BOOLEAN
  <2>1. TypeOK'
    BY TypeStep DEF Next, WorkerStep
  <2>2. QED BY <1>1, <2>1 DEF TypeOK, Object
<1>3. PICK to \in Object :
           /\ to.fin = (worker.work.fin \/ worker.step = "register")
           /\ \A n \in Machines : n # m => obj'[n] = obj[n]
           /\ obj[m].fin /\ ~obj'[m].fin => from.fin /\ ~to.fin
           /\ \/ obj'[m].life = obj[m].life
              \/ obj[m].life = "deleting" /\ obj'[m].life = "absent" /\ ~obj'[m].fin
           /\ Consistent(obj'[m])
  BY WorkerPatches DEF PInv
<1>4. Consistent(obj[m])
  BY <1>1 DEF PInv, Held, Consistent
<1>5. from.fin /\ ~to.fin => /\ Attached(m) = {}
                             /\ ~(obj[m].life = "live" /\ obj[m].fin)
  <2>1. from.life \in {"live", "deleting"}
    BY <1>1 DEF PInv
  <2>2. CASE from.life = "live"
    BY <1>1, <1>3, <2>2 DEF PInv, NormalSafe
  <2>3. CASE from.life = "deleting"
    BY <1>1, <1>3, <2>3 DEF PInv, DeleteSafe
  <2>4. QED BY <2>1, <2>2, <2>3
<1> HIDE DEF m, from
<1>6. obj'[m].fin = obj[m].fin => obj'[m].life = obj[m].life
  BY <1>1, <1>2, <1>3, <1>4 DEF Consistent
<1>7. obj'[m].fin /\ ~obj[m].fin => obj'[m].life = obj[m].life /\ obj[m].life # "absent"
  BY <1>3 DEF Consistent
<1>8. obj[m].fin /\ ~obj'[m].fin =>
        /\ obj[m].life = "deleting" /\ obj'[m].life = "absent" /\ Attached(m) = {}
  BY <1>1, <1>3, <1>4, <1>5 DEF Consistent
<1>9. QED BY <1>1, <1>2, <1>3, <1>6, <1>7, <1>8 DEF m

\* A patch takes hold of the object, lets it go, or changes neither.
LEMMA PatchMaps ==
  ASSUME TypeOK, PInv, AddFinalizer \/ Close \/ Panic
  PROVE  [Abstract!Next]_(Abstract!vars)
<1> DEFINE m == worker.m
<1>1. /\ UNCHANGED srv /\ m \in Machines
      /\ \A n \in Machines : n # m => obj'[n] = obj[n]
      /\ obj[m].fin \in BOOLEAN /\ obj'[m].fin \in BOOLEAN
      /\ obj'[m].fin = obj[m].fin => obj'[m].life = obj[m].life
      /\ obj'[m].fin /\ ~obj[m].fin =>
           obj'[m].life = obj[m].life /\ obj[m].life # "absent"
      /\ obj[m].fin /\ ~obj'[m].fin =>
           /\ obj[m].life = "deleting" /\ obj'[m].life = "absent" /\ Attached(m) = {}
  BY PatchChanges
<1> HIDE DEF m
<1>2. /\ lifeOf' = [lifeOf EXCEPT ![m] = obj'[m].life]
      /\ obj'[m].fin => held' = held \cup {m}
      /\ ~obj'[m].fin => held' = held \ {m}
      /\ lifeOf[m] = obj[m].life /\ (m \in held <=> obj[m].fin)
  BY <1>1, OneObject
<1>3. served' = served
  BY <1>1 DEF served, Attached
<1>4. CASE obj'[m].fin = obj[m].fin
  <2>1. \A n \in Machines : obj'[n].life = obj[n].life /\ obj'[n].fin = obj[n].fin
    BY <1>1, <1>4
  <2>2. QED BY <1>1, <2>1, Stutters
<1>5. CASE obj'[m].fin /\ ~obj[m].fin
  <2>1. lifeOf' = lifeOf
    BY <1>1, <1>2, <1>5 DEF lifeOf
  <2>2. Abstract!Hold(m)
    BY <1>1, <1>2, <1>3, <1>5, <2>1 DEF Abstract!Hold
  <2>3. QED BY <1>1, <2>2 DEF Abstract!Next
<1>6. CASE obj[m].fin /\ ~obj'[m].fin
  <2>1. m \notin served
    BY <1>1, <1>6 DEF served
  <2>2. Abstract!LetGo(m)
    BY <1>1, <1>2, <1>3, <1>6, <2>1 DEF Abstract!LetGo
  <2>3. QED BY <1>1, <2>2 DEF Abstract!Next
<1>7. QED BY <1>1, <1>4, <1>5, <1>6

\* Users' steps are theirs.
LEMMA UserMaps ==
  ASSUME TypeOK, PInv, NEW m \in Machines, CreateObject(m) \/ DeleteObject(m)
  PROVE  [Abstract!Next]_(Abstract!vars)
<1>1. served' = served
  BY DEF CreateObject, DeleteObject, served, Attached
<1>2. /\ lifeOf' = [lifeOf EXCEPT ![m] = obj'[m].life]
      /\ obj'[m].fin => held' = held \cup {m}
      /\ ~obj'[m].fin => held' = held \ {m}
      /\ lifeOf[m] = obj[m].life /\ (m \in held <=> obj[m].fin)
  <2>1. \A n \in Machines : n # m => obj'[n] = obj[n]
    BY DEF CreateObject, DeleteObject, TypeOK
  <2>2. QED BY <2>1, OneObject
<1>3. CASE CreateObject(m)
  <2>1. obj[m].life = "absent" /\ obj'[m].life = "live" /\ ~obj'[m].fin /\ ~obj[m].fin
    BY <1>3 DEF CreateObject, TypeOK, Fresh, Absent, PInv, Held
  <2>2. held' = held
    BY <1>2, <2>1
  <2>3. Abstract!Create(m)
    BY <1>1, <1>2, <2>1, <2>2 DEF Abstract!Create
  <2>4. QED BY <2>3 DEF Abstract!Next
<1>4. CASE DeleteObject(m)
  <2> DEFINE marked == [obj[m] EXCEPT !.life = "deleting"]
  <2>1. /\ marked.life = "deleting" /\ marked.fin = obj[m].fin
        /\ obj[m].fin \in BOOLEAN /\ obj'[m] = Collected(marked) /\ obj[m].life = "live"
    BY <1>4 DEF DeleteObject, TypeOK, Object
  <2> HIDE DEF marked
  <2>2. Absent.life = "absent" /\ Absent.fin = FALSE
    BY DEF Absent
  <2>3. /\ obj[m].fin => obj'[m].life = "deleting" /\ obj'[m].fin
        /\ ~obj[m].fin => obj'[m].life = "absent" /\ ~obj'[m].fin
    BY <2>1, <2>2 DEF Collected
  <2>4. held' = held
    BY <1>2, <2>1, <2>3
  <2>5. obj'[m].life = IF m \in held THEN "deleting" ELSE "absent"
    BY <1>2, <2>1, <2>3
  <2>6. Abstract!Delete(m)
    BY <1>1, <1>2, <2>1, <2>4, <2>5 DEF Abstract!Delete
  <2>7. QED BY <2>6 DEF Abstract!Next
<1>5. QED BY <1>3, <1>4

\* A server gets the name of a machine that is held and had none, or none gets a
\* name: provisionMachine acquires with its last step.
LEMMA ProvisionMaps ==
  ASSUME TypeOK, IInv, PInv, Provision
  PROVE  [Abstract!Next]_(Abstract!vars)
<1>1. /\ UNCHANGED <<obj, cache>>
      /\ \A s \in Servers : srv'[s].name \in {srv[s].name, worker.m}
      /\ worker.step \in WithServer
  BY NormalMoves DEF Provision, ActivateRescue, Reset, Install, Label, Reboot, Seed,
     RebootAgain, SetName, WithServer
<1>2. /\ worker.m \in Machines /\ obj[worker.m].fin /\ Attached(worker.m) = {}
      /\ worker.step \notin {"idle", "register", "delete", "close"}
  BY <1>1 DEF TypeOK, WithServer, IInv, ServerFree, PInv, NormalSafe, DeleteSafe
<1>3. CASE \A s \in Servers : srv'[s].name = srv[s].name
  BY <1>1, <1>3, Stutters
<1>4. ASSUME NEW s \in Servers, srv'[s].name # srv[s].name
      PROVE  [Abstract!Next]_(Abstract!vars)
  <2>1. /\ srv'[s].name = worker.m /\ srv[s].name = Free
        /\ \A q \in Servers : q # s => srv'[q] = srv[q]
    <3>1. worker.server \in Servers /\ srv[worker.server].name = Free
      BY <1>1 DEF TypeOK, IInv, ServerFree
    <3>2. \A q \in Servers : q # worker.server => srv'[q] = srv[q]
      BY <3>1 DEF Provision, ActivateRescue, Reset, Install, Label, Reboot, RebootThen,
         Seed, RebootAgain, SetName, Becomes, TypeOK
    <3>3. QED BY <1>1, <1>4, <3>1, <3>2
  <2>2. lifeOf' = lifeOf /\ held' = held /\ worker.m \in held
    BY <1>1, <1>2 DEF lifeOf, held
  <2>3. worker.m \notin served
    BY <1>2 DEF served
  <2>4. served' = served \cup {worker.m}
    <3>1. worker.m \in served'
      BY <1>2, <2>1 DEF served, Attached
    <3>2. ASSUME NEW n \in Machines, n # worker.m
          PROVE  n \in served' <=> n \in served
      BY <2>1, <3>2 DEF served, Attached
    <3>3. served \subseteq Machines /\ served' \subseteq Machines
      BY DEF served
    <3>4. QED BY <1>2, <3>1, <3>2, <3>3
  <2>5. Abstract!Acquire(worker.m)
    BY <2>2, <2>3, <2>4 DEF Abstract!Acquire
  <2>6. QED BY <1>2, <2>5 DEF Abstract!Next
<1>5. QED BY <1>3, <1>4

\* Service.Delete releases: it renames the machine's only server.
LEMMA DeleteMaps ==
  ASSUME TypeOK, PInv, Delete
  PROVE  [Abstract!Next]_(Abstract!vars)
<1>1. UNCHANGED obj /\ worker.m \in Machines
  BY DEF Delete, TypeOK
<1>2. CASE UNCHANGED srv
  BY <1>1, <1>2, Stutters
<1>3. ASSUME NEW s \in Servers, Attached(worker.m) = {s},
             srv' = [srv EXCEPT ![s].name = Free]
      PROVE  [Abstract!Next]_(Abstract!vars)
  <2>1. /\ srv[s].name = worker.m /\ Free \notin Machines
        /\ \A q \in Servers : q # s => srv[q].name # worker.m
        /\ \A q \in Servers : srv'[q].name = IF q = s THEN Free ELSE srv[q].name
    BY <1>3 DEF TypeOK, Server, Attached
  <2>2. served' = served \ {worker.m}
    <3>1. worker.m \notin served'
      BY <1>1, <2>1 DEF served, Attached
    <3>2. ASSUME NEW n \in Machines, n # worker.m
          PROVE  n \in served' <=> n \in served
      BY <2>1, <3>2 DEF served, Attached
    <3>3. served \subseteq Machines /\ served' \subseteq Machines
      BY DEF served
    <3>4. QED BY <3>1, <3>2, <3>3
  <2>3. lifeOf' = lifeOf /\ held' = held
    BY <1>1 DEF lifeOf, held
  <2>4. Abstract!Release(worker.m)
    BY <2>2, <2>3 DEF Abstract!Release
  <2>5. QED BY <1>1, <2>4 DEF Abstract!Next
<1>4. QED BY <1>2, <1>3 DEF Delete, Attached

LEMMA StepMaps ==
  ASSUME TypeOK, IInv, PInv, [Next]_vars
  PROVE  [Abstract!Next]_(Abstract!vars)
<1>1. CASE obj' = obj /\ UNCHANGED srv
  BY <1>1, Stutters
<1>2. ASSUME NEW s \in Servers, ServerReady(s) \/ CancelServer(s)
      PROVE  [Abstract!Next]_(Abstract!vars)
  <2>1. /\ [srv[s] EXCEPT !.ready = TRUE].name = srv[s].name
        /\ [srv[s] EXCEPT !.cancelled = TRUE].name = srv[s].name
    BY DEF TypeOK, Server
  <2>2. \/ srv' = [srv EXCEPT ![s] = [srv[s] EXCEPT !.ready = TRUE]]
        \/ srv' = [srv EXCEPT ![s] = [srv[s] EXCEPT !.cancelled = TRUE]]
    BY <1>2 DEF ServerReady, CancelServer, TypeOK
  <2>3. \A q \in Servers : srv'[q].name = srv[q].name
    BY <2>1, <2>2 DEF TypeOK
  <2>4. obj' = obj
    BY <1>2 DEF ServerReady, CancelServer
  <2>5. QED BY <2>3, <2>4, Stutters
<1>3. CASE Environment
  BY <1>1, <1>2, <1>3, UserMaps DEF Environment, Watch, Bootstrap
<1>4. CASE Crash
  BY <1>1, <1>4 DEF Crash, Restart
<1>5. CASE UNCHANGED vars
  BY <1>1, <1>5 DEF vars
<1>6. QED
  BY <1>1, <1>3, <1>4, <1>5, PatchMaps, ProvisionMaps, DeleteMaps DEF Next, WorkerStep,
     Reconcile, FindServer

\* Through failed commands, panics, crashes and stale reads, the controller does
\* what OwnedResource says: a server is named for an object that holds it and has
\* no other, and is renamed before the object is let go
\* (baremetalmachine_controller.go:143-178, baremetal.go:450, 470-505).
THEOREM Implements == Spec => KeepsPromise
<1>1. Init => Abstract!Init
  <2> SUFFICES ASSUME Init PROVE Abstract!Init
    OBVIOUS
  <2>1. /\ \A m \in Machines : obj[m].life = "absent" /\ obj[m].fin = FALSE
        /\ \A s \in Servers : srv[s].name = Free
    BY DEF Init, Absent
  <2>2. Free \notin Machines
    OBVIOUS
  <2>3. QED BY <2>1, <2>2 DEF Abstract!Init, lifeOf, held, served, Attached
<1>2. Init => PInv
  BY InitPInv
<1>3. TypeOK /\ PInv /\ [Next]_vars => PInv'
  BY StepPInv
<1>4. TypeOK /\ IInv /\ PInv /\ [Next]_vars => [Abstract!Next]_(Abstract!vars)
  BY StepMaps
<1>5. QED
  BY <1>1, <1>2, <1>3, <1>4, Invariance, PTL DEF Spec, KeepsPromise, Abstract!Spec
=============================================================================
