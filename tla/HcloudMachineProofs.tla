------------------------- MODULE HcloudMachineProofs -------------------------
(***************************************************************************)
(* Proofs about the HcloudMachine controller, for any machines, servers    *)
(* and number of faults.                                                   *)
(***************************************************************************)
EXTENDS HcloudMachine, TLAPS

USE ControlPlanesAssumption, MaxFaultsAssumption, HasNetworkAssumption,
    LateCreatesAssumption, NoMachineAssumption, NoServerAssumption

-----------------------------------------------------------------------------
(* Types.                                                                  *)

\* What the patch helper leaves in the API is an object again.
LEMMA PatchedType ==
  ASSUME NEW o \in Object, NEW from \in Object, NEW to \in Object
  PROVE  /\ SpecPatched(o, from, to) \in Object
         /\ StatusPatched(o, from, to) \in Object
         /\ Patched(o, from, to) \in Object
<1>1. \A p \in Object : Collected(p) \in Object
  BY DEF Collected, Absent, Object, Lives
<1>2. \A p \in Object : SpecPatched(p, from, to) \in Object
  <2>1. TAKE p \in Object
  <2>2. [p EXCEPT !.fin = IF from.fin = to.fin THEN p.fin ELSE to.fin,
                  !.pid = IF from.pid = to.pid THEN p.pid ELSE to.pid] \in Object
    BY DEF Object
  <2>3. QED BY <2>2, <1>1 DEF SpecPatched
<1>3. \A p \in Object : StatusPatched(p, from, to) \in Object
  BY DEF StatusPatched, Object
<1>4. QED BY <1>2, <1>3 DEF Patched

LEMMA PatchType ==
  ASSUME TypeOK, NEW m \in Machines, NEW from \in Object, NEW to \in Object,
         PatchDone(m, from, to) \/ PatchNotFound(m, from, to)
                                \/ PatchFails(m, from, to)
  PROVE  obj' \in [Machines -> Object] /\ faults' \in 0 .. MaxFaults
<1>1. obj[m] \in Object
  BY DEF TypeOK
<1>2. /\ SpecPatched(obj[m], from, to) \in Object
      /\ StatusPatched(obj[m], from, to) \in Object
      /\ Patched(obj[m], from, to) \in Object
  BY <1>1, PatchedType
<1>3. CASE PatchDone(m, from, to)
  BY <1>1, <1>2, <1>3 DEF PatchDone, NoFault, TypeOK
<1>4. CASE PatchNotFound(m, from, to)
  BY <1>4 DEF PatchNotFound, NoFault, TypeOK
<1>5. CASE PatchFails(m, from, to)
  BY <1>1, <1>2, <1>5 DEF PatchFails, Fault, TypeOK
<1>6. QED BY <1>3, <1>4, <1>5

-----------------------------------------------------------------------------
(* What the ways of moving on do to the reconcile in flight.               *)

LEMMA IdleFacts == Idle \in WorkerState /\ Idle.step = "idle"
  BY DEF Idle, WorkerState, Steps, Powers, Absent, Object, Lives, LoadBalancer,
         NoLoadBalancer

LEMMA WakesType ==
  ASSUME TypeOK, WakeWorkers
  PROVE  queue' \subseteq Machines
  BY DEF TypeOK, WakeWorkers

LEMMA FaultsType ==
  ASSUME TypeOK, Fault \/ NoFault
  PROVE  faults' \in 0 .. MaxFaults
  BY DEF TypeOK, Fault, NoFault

LEMMA GotoFacts ==
  ASSUME TypeOK, NEW step \in Steps, Goto(step)
  PROVE  /\ worker' \in WorkerState /\ worker'.step = step
         /\ worker'.m = worker.m /\ worker'.snap = worker.snap
         /\ worker'.work = worker.work /\ worker'.server = worker.server
         /\ worker'.seen = worker.seen
  BY DEF TypeOK, WorkerOK, WorkerState, Goto

LEMMA LeaveFacts ==
  ASSUME TypeOK, NEW retry \in BOOLEAN, Leave(retry)
  PROVE  /\ worker' \in WorkerState /\ worker'.step = "close"
         /\ worker'.m = worker.m /\ worker'.snap = worker.snap
         /\ worker'.work = worker.work /\ worker'.server = worker.server
  BY DEF TypeOK, WorkerOK, WorkerState, Leave, Steps

LEMMA GotoHealthFacts ==
  ASSUME TypeOK, GotoHealth
  PROVE  /\ worker' \in WorkerState /\ worker'.step = "health"
         /\ worker'.m = worker.m /\ worker'.snap = worker.snap
         /\ worker'.work = worker.work /\ worker'.server = worker.server
         /\ worker'.lb = lb
  BY DEF TypeOK, WorkerOK, WorkerState, GotoHealth, Steps

LEMMA GotoWithFacts ==
  ASSUME TypeOK, NEW step \in Steps, NEW s \in Servers, GotoWith(step, s)
  PROVE  /\ worker' \in WorkerState /\ worker'.step = step
         /\ worker'.m = worker.m /\ worker'.snap = worker.snap
         /\ worker'.work = worker.work /\ worker'.server = s
  BY DEF TypeOK, WorkerOK, WorkerState, GotoWith

LEMMA MarkReadyFacts ==
  ASSUME TypeOK, NEW s \in Servers, MarkReady(s)
  PROVE  /\ worker' \in WorkerState /\ worker'.step = "close"
         /\ worker'.m = worker.m /\ worker'.snap = worker.snap
         /\ worker'.work.fin = worker.work.fin
         /\ worker'.work.pid = s /\ worker'.work.ready = TRUE
<1>1. worker.work \in Object /\ worker \in WorkerState
  BY DEF TypeOK, WorkerOK, WorkerState
<1>2. [[worker.work EXCEPT !.pid = s] EXCEPT !.ready = TRUE] \in Object
  BY <1>1 DEF Object
<1>3. worker' = [worker EXCEPT !.step = "close", !.requeue = FALSE,
                   !.work = [[worker.work EXCEPT !.pid = s] EXCEPT !.ready = TRUE]]
  BY <1>1 DEF MarkReady, WorkerState, Object
<1>4. QED BY <1>1, <1>2, <1>3 DEF WorkerState, Steps, Object

LEMMA LetGoFacts ==
  ASSUME TypeOK, LetGo
  PROVE  /\ worker' \in WorkerState /\ worker'.step = "close"
         /\ worker'.m = worker.m /\ worker'.snap = worker.snap
         /\ worker'.work.fin = FALSE
         /\ worker'.work.pid = worker.work.pid
         /\ worker'.work.ready = worker.work.ready
<1>1. worker.work \in Object /\ worker \in WorkerState
  BY DEF TypeOK, WorkerOK, WorkerState
<1>2. [worker.work EXCEPT !.fin = FALSE] \in Object
  BY <1>1 DEF Object
<1>3. worker' = [worker EXCEPT !.step = "close",
                   !.work = [worker.work EXCEPT !.fin = FALSE]]
  BY <1>1 DEF LetGo, WorkerState, Object
<1>4. QED BY <1>1, <1>2, <1>3 DEF WorkerState, Steps, Object

LEMMA InitType == Init => TypeOK
<1>1. Absent \in Object
  BY DEF Absent, Object, Lives
<1>2. Init => WorkerOK
  BY IdleFacts DEF Init, WorkerOK
<1>3. ASSUME Init PROVE lb \in LoadBalancer /\ teardown \in BOOLEAN
  <2>1. PICK place \in Places : lb = [at |-> place, id |-> 0]
    BY <1>3 DEF Init
  <2>2. place \in {"outside", "inside"}
    BY DEF Places
  <2>3. QED BY <1>3, <2>1, <2>2 DEF Init, LoadBalancer
<1>4. Init => faults \in 0 .. MaxFaults
  BY DEF Init
<1>5. ASSUME Init
      PROVE  /\ obj \in [Machines -> Object] /\ cache \in [Machines -> Object]
             /\ phase \in [Machines -> Phases] /\ power \in [Servers -> Powers]
             /\ owner \in [Servers -> Machines \cup {NoMachine}]
  BY <1>1, <1>5 DEF Init, Phases, Powers
<1>6. QED BY <1>2, <1>3, <1>4, <1>5 DEF Init, TypeOK

LEMMA StepType == TypeOK /\ [Next]_vars => TypeOK'
<1> SUFFICES ASSUME TypeOK, [Next]_vars PROVE TypeOK'
  OBVIOUS
<1> USE DEF cluster, cloud
<1>1. ASSUME NEW m \in Machines, Reconcile(m) PROVE TypeOK'
  <2>1. cache[m] \in Object
    BY DEF TypeOK
  <2>2. [Idle EXCEPT !.step = IF cache[m].life = "deleting" THEN "deleteFind"
                                                          ELSE "register",
                     !.m = m, !.snap = cache[m], !.work = cache[m]] \in WorkerState
    BY <2>1, IdleFacts DEF WorkerState, Steps
  <2>0. faults' \in 0 .. MaxFaults
    BY <1>1, FaultsType DEF Reconcile
  <2>3. CASE UNCHANGED worker
    BY <1>1, <2>0, <2>3 DEF Reconcile, TypeOK, WorkerOK
  <2>4. CASE worker' = [Idle EXCEPT
               !.step = IF cache[m].life = "deleting" THEN "deleteFind"
                                                      ELSE "register",
               !.m = m, !.snap = cache[m], !.work = cache[m]]
    <3>1. worker'.m = m /\ worker'.step \in {"deleteFind", "register"}
      BY <2>4 DEF Idle
    <3>2. QED BY <1>1, <2>0, <2>2, <2>4, <3>1 DEF Reconcile, TypeOK, WorkerOK
  <2>5. QED BY <1>1, <2>3, <2>4 DEF Reconcile
<1>2. ASSUME AddFinalizer PROVE TypeOK'
  <2>1. worker.m \in Machines /\ worker.snap \in Object
    BY <1>2 DEF AddFinalizer, TypeOK, WorkerOK, WorkerState
  <2>2. [worker.work EXCEPT !.fin = TRUE] \in Object
    BY DEF TypeOK, WorkerOK, WorkerState, Object
  <2>3. obj' \in [Machines -> Object] /\ faults' \in 0 .. MaxFaults
    BY <1>2, <2>1, <2>2, PatchType DEF AddFinalizer
  <2>4. worker' \in WorkerState /\ worker'.step \in {"prepare", "close"}
        /\ worker'.m = worker.m
    BY <1>2, <2>2 DEF AddFinalizer, TypeOK, WorkerOK, WorkerState, Steps
  <2>5. QED BY <1>2, <2>1, <2>3, <2>4 DEF AddFinalizer, TypeOK, WorkerOK
<1>3. ASSUME Prepare PROVE TypeOK'
  <2>1. WorkerOK
    BY DEF TypeOK
  <2>2. WorkerOK'
    BY <1>3, <2>1, GotoFacts, LeaveFacts
       DEF Prepare, WorkerOK, Steps
  <2>3. Fault \/ NoFault
    BY <1>3 DEF Prepare
  <2>4. QED BY <1>3, <2>2, <2>3, FaultsType DEF Prepare, TypeOK
<1>4. ASSUME FindServer PROVE TypeOK'
  <2>1. WorkerOK
    BY DEF TypeOK
  <2>2. WorkerOK'
    BY <1>4, <2>1, GotoFacts, LeaveFacts, GotoWithFacts, MarkReadyFacts
       DEF FindServer, WorkerOK, Steps, ServersOf
  <2>3. Fault \/ NoFault
    BY <1>4 DEF FindServer
  <2>4. QED BY <1>4, <2>2, <2>3, FaultsType DEF FindServer, TypeOK
<1>5. ASSUME CreateServer PROVE TypeOK'
  <2>1. WorkerOK
    BY DEF TypeOK
  <2>2. WorkerOK'
    BY <1>5, <2>1, GotoFacts, LeaveFacts
       DEF CreateServer, WorkerOK, Steps
  <2>3. Fault \/ NoFault
    BY <1>5 DEF CreateServer
  <2>4. worker.m \in Machines \cup {NoMachine}
    BY <2>1 DEF WorkerOK, WorkerState
  <2>5. /\ owner' \in [Servers -> Machines \cup {NoMachine}]
        /\ power' \in [Servers -> Powers]
    BY <1>5, <2>4 DEF CreateServer, TypeOK, Powers
  <2>6. QED BY <1>5, <2>2, <2>3, <2>5, FaultsType DEF CreateServer, TypeOK
<1>6. ASSUME AttachToLoadBalancer PROVE TypeOK'
  <2>1. WorkerOK
    BY DEF TypeOK
  <2>2. WorkerOK'
    BY <1>6, <2>1, GotoFacts, GotoHealthFacts, LeaveFacts
       DEF AttachToLoadBalancer, WorkerOK, Steps
  <2>3. Fault \/ NoFault
    BY <1>6 DEF AttachToLoadBalancer
  <2>4. targets' \subseteq Servers
    BY <1>6, <2>1 DEF AttachToLoadBalancer, WorkerOK, TypeOK
  <2>5. QED BY <1>6, <2>2, <2>3, <2>4, FaultsType DEF AttachToLoadBalancer, TypeOK
<1>7. ASSUME CheckAddresses PROVE TypeOK'
  <2>1. WorkerOK
    BY DEF TypeOK
  <2>2. WorkerOK'
    BY <1>7, <2>1, MarkReadyFacts, LeaveFacts
       DEF CheckAddresses, WorkerOK, Steps
  <2>3. Fault \/ NoFault
    BY <1>7 DEF CheckAddresses
  <2>4. QED BY <1>7, <2>2, <2>3, FaultsType DEF CheckAddresses, TypeOK
<1>8. ASSUME DeleteFind PROVE TypeOK'
  <2>1. WorkerOK
    BY DEF TypeOK
  <2>2. WorkerOK'
    BY <1>8, <2>1, LeaveFacts, GotoWithFacts, LetGoFacts
       DEF DeleteFind, WorkerOK, Steps, ServersOf
  <2>3. Fault \/ NoFault
    BY <1>8 DEF DeleteFind
  <2>4. QED BY <1>8, <2>2, <2>3, FaultsType DEF DeleteFind, TypeOK
<1>9. ASSUME Detach PROVE TypeOK'
  <2>1. WorkerOK
    BY DEF TypeOK
  <2>2. WorkerOK'
    BY <1>9, <2>1, GotoFacts, LeaveFacts
       DEF Detach, WorkerOK, Steps
  <2>3. Fault \/ NoFault
    BY <1>9 DEF Detach
  <2>4. QED BY <1>9, <2>2, <2>3, FaultsType DEF Detach, TypeOK
<1>10. ASSUME DeleteServer PROVE TypeOK'
  <2>1. WorkerOK
    BY DEF TypeOK
  <2>2. WorkerOK'
    BY <1>10, <2>1, LeaveFacts, LetGoFacts
       DEF DeleteServer, WorkerOK, Steps
  <2>3. Fault \/ NoFault
    BY <1>10 DEF DeleteServer
  <2>4. QED BY <1>10, <2>2, <2>3, FaultsType DEF DeleteServer, TypeOK, Remove, Powers
<1>11. ASSUME Close PROVE TypeOK'
  <2>1. worker.m \in Machines /\ worker.snap \in Object /\ worker.work \in Object
    BY <1>11 DEF Close, TypeOK, WorkerOK, WorkerState
  <2>2. obj' \in [Machines -> Object] /\ faults' \in 0 .. MaxFaults
    BY <1>11, <2>1, PatchType DEF Close
  <2>3. QED BY <1>11, <2>1, <2>2, IdleFacts DEF Close, TypeOK, WorkerOK
<1>12. ASSUME Panic PROVE TypeOK'
  <2>1. worker.m \in Machines /\ worker.snap \in Object /\ worker.work \in Object
    BY <1>12 DEF Panic, TypeOK, WorkerOK, WorkerState
  <2>2. obj' \in [Machines -> Object] /\ faults' \in 0 .. MaxFaults
    BY <1>12, <2>1, PatchType DEF Panic
  <2>3. QED BY <1>12, <2>2, IdleFacts DEF Panic, Restart, TypeOK, WorkerOK
<1>13. ASSUME Crash PROVE TypeOK'
  <2>1. worker.m \in Machines \cup {NoMachine}
    BY DEF TypeOK, WorkerOK, WorkerState
  <2>2. faults' \in 0 .. MaxFaults
    BY <1>13, FaultsType DEF Crash
  <2>3. /\ owner' \in [Servers -> Machines \cup {NoMachine}]
        /\ power' \in [Servers -> Powers]
    BY <1>13, <2>1 DEF Crash, TypeOK, Powers
  <2>4. QED BY <1>13, <2>2, <2>3, IdleFacts DEF Crash, Restart, TypeOK, WorkerOK
<1>14. ASSUME NEW m \in Machines, Create(m) \/ Delete(m) PROVE TypeOK'
  <2>1. Fresh \in Object /\ Absent \in Object
    BY DEF Fresh, Absent, Object, Lives
  <2>2. Collected([obj[m] EXCEPT !.life = "deleting"]) \in Object
    <3>1. obj[m] \in Object
      BY DEF TypeOK
    <3>2. QED BY <2>1, <3>1 DEF Collected, Object, Lives
  <2>3. QED BY <1>14, <2>1, <2>2 DEF Create, Delete, TypeOK, WorkerOK, Phases
<1>15. ASSUME NEW m \in Machines, Watch(m) \/ Resync(m) \/ AdvancePhase(m)
       PROVE TypeOK'
  BY <1>15 DEF Watch, Resync, AdvancePhase, TypeOK, WorkerOK, Phases
<1>16. ASSUME \/ SetPaused \/ BuildImage \/ CreateVolume \/ JoinNetwork
              \/ RestoreLoadBalancer \/ BeginTeardown \/ LoseLoadBalancer
       PROVE TypeOK'
  <2>1. lb' \in LoadBalancer /\ faults' \in 0 .. MaxFaults
    BY <1>16, FaultsType DEF SetPaused, BuildImage, CreateVolume, JoinNetwork,
       RestoreLoadBalancer, BeginTeardown, LoseLoadBalancer, LoadBalancer, Places,
       TypeOK, NoFault
  <2>2. QED BY <1>16, <2>1, WakesType DEF SetPaused, BuildImage, CreateVolume, JoinNetwork,
         RestoreLoadBalancer, BeginTeardown, LoseLoadBalancer, TypeOK, WorkerOK
<1>17. ASSUME NEW s \in Servers, Boot(s) \/ Serve(s) \/ PowerOff(s) \/ LoseServer(s)
       PROVE TypeOK'
  <2>1. faults' \in 0 .. MaxFaults
    BY <1>17, FaultsType DEF Boot, Serve, PowerOff, LoseServer, NoFault
  <2>2. QED BY <1>17, <2>1 DEF Boot, Serve, PowerOff, LoseServer, Remove, TypeOK, WorkerOK, Powers
<1>18. ASSUME UNCHANGED vars PROVE TypeOK'
  BY <1>18 DEF vars, TypeOK, WorkerOK
<1>19. QED
  BY <1>1, <1>2, <1>3, <1>4, <1>5, <1>6, <1>7, <1>8, <1>9, <1>10, <1>11, <1>12,
     <1>13, <1>14, <1>15, <1>16, <1>17, <1>18
     DEF Next, WorkerStep, Environment

\* Every variable keeps its type, faults stay within their bound, and a
\* reconcile in flight knows its machine and, where it uses one, its server.
THEOREM TypeCorrect == Spec => []TypeOK
  BY InitType, StepType, PTL DEF Spec

-----------------------------------------------------------------------------
(* What a patch does to the finalizer.                                     *)

\* An object is consistent: a deleted one is held, one that is gone is not.
Consistent(o) ==
  /\ o.life = "absent" => ~o.fin
  /\ o.life = "deleting" => o.fin

\* A patch, whole or in part, sets or drops the finalizer only if the caller
\* did, and an object goes only with its finalizer.
LEMMA PatchedFacts ==
  ASSUME NEW o \in Object, NEW from \in Object, NEW to \in Object,
         Consistent(o), o.life # "absent",
         NEW p \in {o, SpecPatched(o, from, to),
                    StatusPatched(o, from, to), Patched(o, from, to)}
  PROVE  /\ p.fin /\ ~o.fin => to.fin /\ ~from.fin
         /\ o.fin /\ ~p.fin => from.fin /\ ~to.fin
         /\ p.life = o.life \/ (o.life = "deleting" /\ p.life = "absent" /\ ~p.fin)
         /\ Consistent(p)
<1> DEFINE fin == IF from.fin = to.fin THEN o.fin ELSE to.fin
           pid == IF from.pid = to.pid THEN o.pid ELSE to.pid
           sent == [o EXCEPT !.fin = fin, !.pid = pid]
<1>1. sent \in Object /\ sent.fin = fin /\ sent.life = o.life
  BY DEF Object
<1>2. SpecPatched(o, from, to) = Collected(sent)
  BY DEF SpecPatched
<1>3. Absent.life = "absent" /\ Absent.fin = FALSE
  BY DEF Absent
<1> DEFINE q == SpecPatched(o, from, to)
<1>4. \/ q = sent /\ ~(o.life = "deleting" /\ ~fin)
      \/ q = Absent /\ o.life = "deleting" /\ ~fin
  BY <1>1, <1>2 DEF Collected
<1>5. /\ q.fin /\ ~o.fin => to.fin /\ ~from.fin
      /\ o.fin /\ ~q.fin => from.fin /\ ~to.fin
      /\ q.life = o.life \/ (o.life = "deleting" /\ q.life = "absent" /\ ~q.fin)
      /\ Consistent(q)
  <2>1. fin \in BOOLEAN /\ o.fin \in BOOLEAN /\ to.fin \in BOOLEAN /\ from.fin \in BOOLEAN
    BY DEF Object
  <2>2. CASE q = sent /\ ~(o.life = "deleting" /\ ~fin)
    BY <1>1, <2>1, <2>2 DEF Consistent
  <2>3. CASE q = Absent /\ o.life = "deleting" /\ ~fin
    BY <1>3, <2>1, <2>3 DEF Consistent
  <2>4. QED BY <1>4, <2>2, <2>3
<1>6. \A x \in Object : /\ StatusPatched(x, from, to).fin = x.fin
                        /\ StatusPatched(x, from, to).life = x.life
  BY DEF StatusPatched, Object
<1>7. q \in Object
  BY PatchedType
<1>8. /\ Patched(o, from, to).fin = q.fin
      /\ Patched(o, from, to).life = q.life
  BY <1>6, <1>7 DEF Patched
<1>9. CASE p \in {o, StatusPatched(o, from, to)}
  BY <1>6, <1>9 DEF Consistent
<1>10. CASE p \in {q, Patched(o, from, to)}
  BY <1>5, <1>8, <1>10 DEF Consistent
<1>11. QED BY <1>9, <1>10

\* The same, for a call of the patch helper and whatever comes of it.
LEMMA PatchFacts ==
  ASSUME TypeOK, Held, NEW m \in Machines,
         NEW from \in Object, NEW to \in Object,
         PatchDone(m, from, to) \/ PatchNotFound(m, from, to)
                                \/ PatchFails(m, from, to)
  PROVE  /\ \A n \in Machines : n # m => obj'[n] = obj[n]
         /\ obj'[m].fin /\ ~obj[m].fin => to.fin /\ ~from.fin
         /\ obj[m].fin /\ ~obj'[m].fin => from.fin /\ ~to.fin
         /\ \/ obj'[m].life = obj[m].life
            \/ obj[m].life = "deleting" /\ obj'[m].life = "absent" /\ ~obj'[m].fin
         /\ Consistent(obj'[m])
<1>1. obj[m] \in Object /\ Consistent(obj[m])
  BY DEF TypeOK, Held, Consistent
<1>2. CASE obj' = obj
  BY <1>1, <1>2
<1>3. CASE obj[m].life # "absent" /\
           \E p \in {obj[m], SpecPatched(obj[m], from, to),
                     StatusPatched(obj[m], from, to), Patched(obj[m], from, to)} :
             obj' = [obj EXCEPT ![m] = p]
  <2>1. PICK p \in {obj[m], SpecPatched(obj[m], from, to),
                    StatusPatched(obj[m], from, to), Patched(obj[m], from, to)} :
          obj' = [obj EXCEPT ![m] = p]
    BY <1>3
  <2>2. obj'[m] = p /\ \A n \in Machines : n # m => obj'[n] = obj[n]
    BY <2>1 DEF TypeOK
  <2>3. /\ p.fin /\ ~obj[m].fin => to.fin /\ ~from.fin
        /\ obj[m].fin /\ ~p.fin => from.fin /\ ~to.fin
        /\ p.life = obj[m].life
             \/ (obj[m].life = "deleting" /\ p.life = "absent" /\ ~p.fin)
        /\ Consistent(p)
    BY <1>1, <1>3, PatchedFacts
  <2>4. QED BY <2>2, <2>3
<1>4. CASE PatchDone(m, from, to)
  <2>1. CASE from = to
    <3>1. obj' = obj
      BY <1>4, <2>1 DEF PatchDone, TypeOK
    <3>2. QED BY <3>1, <1>2
  <2>2. CASE from # to
    BY <1>3, <1>4, <2>2 DEF PatchDone
  <2>3. QED BY <2>1, <2>2
<1>5. CASE PatchNotFound(m, from, to)
  BY <1>2, <1>5 DEF PatchNotFound
<1>6. CASE PatchFails(m, from, to)
  BY <1>3, <1>6 DEF PatchFails
<1>7. QED BY <1>4, <1>5, <1>6

\* A patch that is done has set the finalizer it was asked to set.
LEMMA PatchHolds ==
  ASSUME TypeOK, Held, NEW m \in Machines,
         NEW from \in Object, NEW to \in Object,
         PatchDone(m, from, to), to.fin, from.fin => obj[m].fin
  PROVE  obj'[m].fin
<1>1. obj[m] \in Object /\ Consistent(obj[m])
  BY DEF TypeOK, Held, Consistent
<1>2. CASE from = to
  BY <1>2 DEF PatchDone, TypeOK
<1>3. CASE from # to
  <2> DEFINE sent == [obj[m] EXCEPT
               !.fin = IF from.fin = to.fin THEN obj[m].fin ELSE to.fin,
               !.pid = IF from.pid = to.pid THEN obj[m].pid ELSE to.pid]
  <2>1. sent \in Object /\ sent.fin
    BY <1>1 DEF Object
  <2>2. SpecPatched(obj[m], from, to) = sent
    BY <2>1 DEF SpecPatched, Collected
  <2>3. StatusPatched(sent, from, to).fin = sent.fin
    BY <2>1 DEF StatusPatched, Object
  <2>4. obj'[m] = StatusPatched(sent, from, to)
    BY <1>3, <2>2 DEF PatchDone, Patched, TypeOK
  <2>5. QED BY <2>1, <2>3, <2>4
<1>4. QED BY <1>2, <1>3

-----------------------------------------------------------------------------
(* The inductive invariant.                                                *)

LEMMA InitIInv == Init => IInv
<1> SUFFICES ASSUME Init PROVE IInv
  OBVIOUS
<1>1. /\ \A m \in Machines : obj[m].life = "absent" /\ obj[m].fin = FALSE
                             /\ cache[m].life = "absent"
      /\ \A s \in Servers : owner[s] = NoMachine /\ power[s] = "absent"
      /\ worker.step = "idle"
  BY IdleFacts DEF Init, Absent
<1>2. QED
  BY <1>1 DEF IInv, Held, NoOrphanServer, CacheSafe, OneServerPerMachine,
              NormalSafe, DeleteSafe

\* Steps of the environment, and a reconcile that does not begin, leave the
\* worker alone.
LEMMA EnvironmentIInv ==
  ASSUME TypeOK, IInv, Environment
  PROVE  IInv'
<1>1. UNCHANGED worker
  BY DEF Environment, Create, Delete, Watch, Resync, AdvancePhase, SetPaused,
         BuildImage, CreateVolume, JoinNetwork,
         RestoreLoadBalancer, BeginTeardown, LoseLoadBalancer, Boot, Serve, PowerOff, LoseServer
<1>2. ASSUME NEW m \in Machines, Create(m) PROVE IInv'
  <2>1. /\ obj'[m] = Fresh /\ obj[m].life = "absent" /\ ~obj[m].fin
        /\ \A n \in Machines : n # m => obj'[n] = obj[n]
        /\ UNCHANGED <<cache, owner, power>>
    BY <1>2 DEF Create, TypeOK, cloud, IInv, Held
  <2>2. Fresh.life = "live" /\ Fresh.fin = FALSE
    BY DEF Fresh, Absent
  <2>3. Held' /\ CacheSafe'
    BY <2>1, <2>2 DEF IInv, Held, NoOrphanServer, CacheSafe, TypeOK
  <2>4. NormalSafe' /\ DeleteSafe'
    BY <1>1, <2>1, <2>2 DEF IInv, NormalSafe, DeleteSafe, TypeOK
  <2>5. QED BY <1>1, <2>1, <2>3, <2>4 DEF IInv, OneServerPerMachine
<1>3. ASSUME NEW m \in Machines, Delete(m) PROVE IInv'
  <2> DEFINE marked == [obj[m] EXCEPT !.life = "deleting"]
  <2>1. /\ obj'[m] = Collected(marked) /\ obj[m].life = "live"
        /\ \A n \in Machines : n # m => obj'[n] = obj[n]
        /\ UNCHANGED <<cache, owner, power>>
    BY <1>3 DEF Delete, TypeOK, cloud
  <2>2. marked.life = "deleting" /\ marked.fin = obj[m].fin
    BY DEF TypeOK, Object
  <2>3. Absent.life = "absent" /\ Absent.fin = FALSE
    BY DEF Absent
  <2>4. /\ obj'[m].fin = obj[m].fin
        /\ obj[m].fin => obj'[m].life = "deleting"
        /\ ~obj[m].fin => obj'[m].life = "absent"
    <3>1. obj[m].fin \in BOOLEAN
      BY DEF TypeOK, Object
    <3>2. QED BY <2>1, <2>2, <2>3, <3>1 DEF Collected
  <2>5. Held' /\ CacheSafe'
    BY <2>1, <2>4 DEF IInv, Held, NoOrphanServer, CacheSafe, TypeOK
  <2>6. NormalSafe' /\ DeleteSafe'
    BY <1>1, <2>1, <2>4 DEF IInv, NormalSafe, DeleteSafe, TypeOK
  <2>7. QED BY <1>1, <2>1, <2>5, <2>6 DEF IInv, OneServerPerMachine
<1>4. ASSUME NEW m \in Machines, Watch(m) PROVE IInv'
  <2>1. /\ cache'[m] = obj[m] /\ UNCHANGED <<obj, owner, power>>
        /\ \A n \in Machines : n # m => cache'[n] = cache[n]
    BY <1>4 DEF Watch, TypeOK, cloud
  <2>2. Held' /\ CacheSafe'
    BY <2>1 DEF IInv, Held, NoOrphanServer, CacheSafe
  <2>3. NormalSafe' /\ DeleteSafe'
    BY <1>1, <2>1 DEF IInv, NormalSafe, DeleteSafe
  <2>4. QED BY <1>1, <2>1, <2>2, <2>3 DEF IInv, OneServerPerMachine
<1>5. ASSUME NEW s \in Servers, LoseServer(s) PROVE IInv'
  <2>1. /\ owner' = [owner EXCEPT ![s] = NoMachine]
        /\ power' = [power EXCEPT ![s] = "absent"]
        /\ UNCHANGED <<obj, cache>>
    BY <1>5 DEF LoseServer, Remove
  <2>2. /\ \A t \in Servers : owner'[t] # NoMachine => owner'[t] = owner[t]
        /\ \A t \in Servers, m \in Machines : owner'[t] = m => owner[t] = m
        /\ \A t \in Servers : power'[t] # "requested"
    BY <2>1 DEF TypeOK, IInv
  <2>3. Held' /\ CacheSafe' /\ OneServerPerMachine'
    BY <2>1, <2>2 DEF IInv, Held, NoOrphanServer, CacheSafe, OneServerPerMachine
  <2>4. NormalSafe' /\ DeleteSafe'
    BY <1>1, <2>1, <2>2 DEF IInv, NormalSafe, DeleteSafe
  <2>5. QED BY <1>1, <2>2, <2>3, <2>4 DEF IInv
<1>6. ASSUME UNCHANGED <<obj, cache, owner>>,
             \A s \in Servers : power'[s] = power[s] \/ power'[s] # "requested"
      PROVE  IInv'
  BY <1>1, <1>6 DEF IInv, Held, NoOrphanServer, CacheSafe, OneServerPerMachine,
                    NormalSafe, DeleteSafe
<1>7. ASSUME NEW s \in Servers, Boot(s) \/ Serve(s) \/ PowerOff(s) PROVE IInv'
  BY <1>6, <1>7 DEF Boot, Serve, PowerOff, TypeOK
<1>8. ASSUME \/ \E m \in Machines : Resync(m) \/ AdvancePhase(m)
             \/ SetPaused \/ BuildImage \/ CreateVolume \/ JoinNetwork
             \/ RestoreLoadBalancer \/ BeginTeardown \/ LoseLoadBalancer
      PROVE  IInv'
  BY <1>6, <1>8 DEF Resync, AdvancePhase, SetPaused, BuildImage, CreateVolume,
                    JoinNetwork, RestoreLoadBalancer, BeginTeardown, LoseLoadBalancer, cloud
<1>9. QED
  BY <1>2, <1>3, <1>4, <1>5, <1>7, <1>8 DEF Environment

\* A step that leaves the objects and the cache alone, and takes no new
\* server, keeps what is said of them.
LEMMA ShrinkIInv ==
  ASSUME IInv, UNCHANGED <<obj, cache>>,
         \A s \in Servers : owner'[s] # NoMachine => owner'[s] = owner[s],
         \A s \in Servers : power'[s] = power[s] \/ power'[s] # "requested"
  PROVE  /\ Held' /\ CacheSafe' /\ OneServerPerMachine'
         /\ \A s \in Servers : power'[s] # "requested"
  BY DEF IInv, Held, NoOrphanServer, CacheSafe, OneServerPerMachine

LEMMA ReconcileIInv ==
  ASSUME TypeOK, IInv, NEW m \in Machines, Reconcile(m)
  PROVE  IInv'
<1>1. UNCHANGED <<obj, cache, owner, power>>
  BY DEF Reconcile, cloud
<1>2. Held' /\ CacheSafe' /\ OneServerPerMachine'
       /\ \A s \in Servers : power'[s] # "requested"
  BY <1>1, ShrinkIInv
<1>3. CASE UNCHANGED worker
  BY <1>1, <1>2, <1>3 DEF IInv, NormalSafe, DeleteSafe
<1>4. CASE /\ worker' = [Idle EXCEPT
                !.step = IF cache[m].life = "deleting" THEN "deleteFind"
                                                       ELSE "register",
                !.m = m, !.snap = cache[m], !.work = cache[m]]
           /\ cache[m].life # "absent"
  <2>1. /\ worker'.m = m /\ worker'.snap = cache[m] /\ worker'.work = cache[m]
        /\ worker'.step = IF cache[m].life = "deleting" THEN "deleteFind"
                                                        ELSE "register"
    BY <1>4 DEF Idle
  <2>2. cache[m].life \in {"live", "deleting"}
    BY <1>4 DEF TypeOK, Object, Lives
  <2>3. NormalSafe'
    BY <1>1, <2>1, <2>2 DEF IInv, CacheSafe, NormalSafe, NormalSteps
  <2>4. DeleteSafe'
    BY <1>1, <2>1, <2>2 DEF IInv, CacheSafe, DeleteSafe, DeleteSteps
  <2>5. QED BY <1>2, <2>1, <2>2, <2>3, <2>4 DEF IInv
<1>5. QED BY <1>3, <1>4 DEF Reconcile

\* The steps of reconcileNormal that leave the object alone.
LEMMA NormalIInv ==
  ASSUME TypeOK, IInv,
         Prepare \/ FindServer \/ AttachToLoadBalancer \/ CheckAddresses
  PROVE  IInv'
<1>1. UNCHANGED <<obj, cache, owner, power>>
  BY DEF Prepare, FindServer, AttachToLoadBalancer, CheckAddresses, cloud
<1>2. Held' /\ CacheSafe' /\ OneServerPerMachine'
       /\ \A s \in Servers : power'[s] # "requested"
  BY <1>1, ShrinkIInv
<1>3. worker.step \in {"prepare", "find", "attach", "health"}
  BY DEF Prepare, FindServer, AttachToLoadBalancer, CheckAddresses
<1>4. worker.snap.life = "live" /\ worker.m \in Machines
  BY <1>3 DEF IInv, NormalSafe, DeleteSafe, DeleteSteps
<1>5. /\ worker'.m = worker.m /\ worker'.snap = worker.snap
      /\ worker'.work.fin = worker.work.fin
      /\ worker'.step \in {"find", "create", "attach", "health", "panic", "close"}
      /\ worker'.step = "create" => ServersOf(worker.m) = {}
  <2>1. CASE Prepare
    BY <2>1, GotoFacts, LeaveFacts DEF Prepare, Steps
  <2>2. CASE FindServer
    BY <2>2, GotoFacts, LeaveFacts, GotoWithFacts, MarkReadyFacts
       DEF FindServer, Steps, ServersOf
  <2>3. CASE AttachToLoadBalancer
    BY <2>3, GotoFacts, GotoHealthFacts, LeaveFacts DEF AttachToLoadBalancer, Steps
  <2>4. CASE CheckAddresses
    <3>1. worker.server \in Servers
      BY <2>4 DEF CheckAddresses, TypeOK, WorkerOK
    <3>2. QED BY <2>4, <3>1, MarkReadyFacts, LeaveFacts DEF CheckAddresses
  <2>5. QED BY <2>1, <2>2, <2>3, <2>4
<1>6. worker'.step = "create" => \A s \in Servers : owner[s] # worker.m
  BY <1>5 DEF IInv, ServersOf
<1>7. NormalSafe' /\ DeleteSafe'
  BY <1>1, <1>3, <1>4, <1>5, <1>6 DEF IInv, NormalSafe, DeleteSafe, NormalSteps
<1>8. QED BY <1>2, <1>4, <1>5, <1>7 DEF IInv

LEMMA CreateServerIInv ==
  ASSUME TypeOK, IInv, CreateServer
  PROVE  IInv'
<1>1. UNCHANGED <<obj, cache>> /\ worker.step = "create"
  BY DEF CreateServer
<1>2. /\ worker.snap.life = "live" /\ worker.m \in Machines
      /\ obj[worker.m].fin
      /\ \A s \in Servers : owner[s] # worker.m
  BY <1>1 DEF IInv, NormalSafe, DeleteSafe, DeleteSteps
<1>3. /\ worker'.m = worker.m /\ worker'.snap = worker.snap
      /\ worker'.work = worker.work
      /\ worker'.step \in {"panic", "close"}
  BY GotoFacts, LeaveFacts DEF CreateServer, Steps
<1>4. \/ UNCHANGED <<owner, power>>
      \/ \E s \in Servers : /\ owner[s] = NoMachine
                            /\ owner' = [owner EXCEPT ![s] = worker.m]
                            /\ power' = [power EXCEPT ![s] = "starting"]
  BY DEF CreateServer, Unused
<1>5. /\ \A s \in Servers : owner'[s] # owner[s] => owner'[s] = worker.m
      /\ \A s, t \in Servers : owner'[s] = worker.m /\ owner'[t] = worker.m => s = t
      /\ \A s \in Servers : power'[s] # "requested"
  BY <1>2, <1>4 DEF TypeOK, IInv
<1>6. Held' /\ CacheSafe' /\ OneServerPerMachine'
  BY <1>1, <1>2, <1>5
     DEF IInv, Held, NoOrphanServer, CacheSafe, OneServerPerMachine
<1>7. NormalSafe' /\ DeleteSafe'
  BY <1>1, <1>2, <1>3 DEF IInv, NormalSafe, DeleteSafe, NormalSteps
<1>8. QED BY <1>2, <1>3, <1>5, <1>6, <1>7 DEF IInv

\* The steps of Service.Delete.
LEMMA DeleteIInv ==
  ASSUME TypeOK, IInv, DeleteFind \/ Detach \/ DeleteServer
  PROVE  IInv'
<1>1. /\ UNCHANGED <<obj, cache>>
      /\ worker.step \in {"deleteFind", "detach", "deleteServer"}
  BY DEF DeleteFind, Detach, DeleteServer
<1>2. /\ worker.snap.life = "deleting" /\ worker.m \in Machines
      /\ worker.work.fin => worker.snap.fin
      /\ worker.snap.fin => worker.work.fin
  BY <1>1 DEF IInv, NormalSafe, DeleteSafe, NormalSteps
<1>3. /\ \A s \in Servers : owner'[s] # NoMachine => owner'[s] = owner[s]
      /\ \A s \in Servers : power'[s] = power[s] \/ power'[s] # "requested"
  BY DEF DeleteFind, Detach, DeleteServer, Remove, cloud, TypeOK
<1>4. Held' /\ CacheSafe' /\ OneServerPerMachine'
       /\ \A s \in Servers : power'[s] # "requested"
  BY <1>1, <1>3, ShrinkIInv
<1>5. /\ worker'.m = worker.m /\ worker'.snap = worker.snap
      /\ worker'.step \in {"detach", "deleteServer", "close", "panic"}
      /\ worker'.work.fin => worker.work.fin
      /\ worker'.step # "close" => worker'.work.fin = worker.work.fin
      /\ worker'.step \in {"detach", "deleteServer"} =>
           \A s \in Servers : owner'[s] = worker.m => s = worker'.server
      /\ worker'.step = "close" /\ worker.work.fin /\ ~worker'.work.fin =>
           \A s \in Servers : owner'[s] # worker.m
  <2>1. CASE DeleteFind
    BY <2>1, <1>2, LeaveFacts, GotoWithFacts, LetGoFacts
       DEF DeleteFind, Steps, ServersOf, IInv, cloud
  <2>2. CASE Detach
    BY <2>2, <1>1, <1>2, GotoFacts, LeaveFacts DEF Detach, Steps, IInv, DeleteSafe
  <2>3. CASE DeleteServer
    <3>1. \A s \in Servers : owner[s] = worker.m => s = worker.server
      BY <2>3, <1>2 DEF DeleteServer, IInv, DeleteSafe
    <3>2. CASE Remove(worker.server) /\ LetGo
      <4>1. \A s \in Servers : owner'[s] # worker.m
        BY <3>1, <3>2, <1>2 DEF Remove, TypeOK
      <4>2. QED BY <3>2, <4>1, LetGoFacts
    <3>3. CASE Leave(TRUE)
      BY <3>3, LeaveFacts
    <3>4. QED BY <2>3, <3>2, <3>3 DEF DeleteServer
  <2>4. QED BY <2>1, <2>2, <2>3
<1>6. NormalSafe' /\ DeleteSafe'
  BY <1>1, <1>2, <1>3, <1>5 DEF IInv, NormalSafe, DeleteSafe, DeleteSteps
<1>7. QED BY <1>2, <1>4, <1>5, <1>6 DEF IInv

\* The steps that patch the object.
LEMMA PatchIInv ==
  ASSUME TypeOK, IInv, AddFinalizer \/ Close \/ Panic
  PROVE  IInv'
<1> DEFINE m == worker.m
           from == worker.snap
           to == IF worker.step = "register" THEN [worker.work EXCEPT !.fin = TRUE]
                                             ELSE worker.work
<1>1. worker.step \in {"register", "close", "panic"}
  BY DEF AddFinalizer, Close, Panic
<1>2. m \in Machines /\ from \in Object /\ worker.work \in Object /\ to \in Object
  BY <1>1 DEF TypeOK, WorkerOK, WorkerState, Object
<1>3. PatchDone(m, from, to) \/ PatchNotFound(m, from, to) \/ PatchFails(m, from, to)
  <2>1. CASE AddFinalizer
    <3>1. to = [worker.work EXCEPT !.fin = TRUE]
      BY <2>1 DEF AddFinalizer
    <3>2. QED BY <2>1, <3>1 DEF AddFinalizer
  <2>2. CASE Close
    <3>1. to = worker.work
      BY <2>2 DEF Close
    <3>2. QED BY <2>2, <3>1 DEF Close
  <2>3. CASE Panic
    <3>1. to = worker.work
      BY <2>3 DEF Panic
    <3>2. QED BY <2>3, <3>1 DEF Panic
  <2>4. QED BY <2>1, <2>2, <2>3
<1>4. UNCHANGED <<owner, power>>
  BY DEF AddFinalizer, Close, Panic, cloud
<1>5. /\ \A n \in Machines : n # m => obj'[n] = obj[n]
      /\ obj'[m].fin /\ ~obj[m].fin => to.fin /\ ~from.fin
      /\ obj[m].fin /\ ~obj'[m].fin => from.fin /\ ~to.fin
      /\ \/ obj'[m].life = obj[m].life
         \/ obj[m].life = "deleting" /\ obj'[m].life = "absent" /\ ~obj'[m].fin
      /\ Consistent(obj'[m])
  <2>1. Held
    BY DEF IInv
  <2> HIDE DEF m, from, to
  <2>2. QED BY <1>2, <1>3, <2>1, PatchFacts
<1>6. from.life \in {"live", "deleting"}
  BY <1>1 DEF IInv
<1>7. CASE from.life = "live"
  <2>1. /\ from.fin => to.fin /\ obj[m].fin
        /\ to.fin
        /\ cache[m].life = "deleting" => obj[m].life = "deleting"
    BY <1>1, <1>2, <1>7 DEF IInv, NormalSafe, Object
  <2>2. /\ obj[m].fin => obj'[m].fin
        /\ obj[m].fin => obj'[m].life = obj[m].life
    BY <1>5, <2>1
  <2>3. Held'
    BY <1>4, <1>5, <2>2 DEF IInv, Held, NoOrphanServer, Consistent, TypeOK
  <2>4. /\ cache[m].life = "deleting" => obj'[m].life = "deleting"
        /\ cache[m].life = "live" /\ cache[m].fin => obj'[m].fin
    BY <2>1, <2>2, <1>2 DEF IInv, CacheSafe, Held
  <2>5. \A n \in Machines :
          /\ cache[n].life = "live" /\ cache[n].fin => obj'[n].fin
          /\ cache[n].life = "deleting" => ~(obj'[n].life = "live" /\ obj'[n].fin)
    BY <1>5, <2>4 DEF IInv, CacheSafe
  <2>6. CASE worker' = Idle
    <3>1. CacheSafe'
      BY <2>5, <1>1 DEF AddFinalizer, Close, Panic, Restart, CacheSafe
    <3>2. QED
      BY <1>4, <2>3, <2>6, <3>1, IdleFacts
         DEF IInv, OneServerPerMachine, NormalSafe, DeleteSafe
  <2>7. CASE worker' # Idle
    <3>1. /\ AddFinalizer /\ UNCHANGED cache
          /\ worker.step = "register"
      BY <2>7 DEF AddFinalizer, Close, Panic, Restart
    <3>2. /\ worker'.m = m /\ worker'.snap = from /\ worker'.work = to
          /\ worker'.step \in {"prepare", "close"}
          /\ worker'.step = "prepare" => PatchDone(m, from, to)
      BY <3>1 DEF AddFinalizer, TypeOK, WorkerOK, WorkerState
    <3>3. worker'.step = "prepare" => obj'[m].fin
      BY <1>2, <2>1, <3>2, PatchHolds DEF IInv
    <3>4. NormalSafe' /\ DeleteSafe'
      BY <1>2, <1>7, <2>1, <2>2, <2>4, <3>1, <3>2, <3>3
         DEF NormalSafe, DeleteSafe, NormalSteps
    <3>5. QED
      BY <1>4, <1>7, <2>3, <2>5, <3>1, <3>2, <3>4
         DEF IInv, OneServerPerMachine, CacheSafe
  <2>8. QED BY <2>6, <2>7
<1>8. CASE from.life = "deleting"
  <2>1. /\ worker.step \in {"close", "panic"} /\ to = worker.work
        /\ to.fin => from.fin
        /\ ~(obj[m].life = "live" /\ obj[m].fin)
        /\ ~(cache[m].life = "live" /\ cache[m].fin)
        /\ from.fin /\ ~to.fin => \A s \in Servers : owner[s] # m
    BY <1>1, <1>8 DEF IInv, DeleteSafe, DeleteSteps
  <2>2. /\ obj'[m].fin => obj[m].fin
        /\ obj[m].fin /\ ~obj'[m].fin => \A s \in Servers : owner[s] # m
    BY <1>5, <2>1
  <2>3. worker' = Idle /\ (cache' = cache \/ cache' = obj')
    BY <2>1 DEF AddFinalizer, Close, Panic, Restart
  <2>4. Held'
    BY <1>4, <1>5, <2>2 DEF IInv, Held, NoOrphanServer, Consistent, TypeOK
  <2>5. CacheSafe'
    <3>1. CASE cache' = cache
      BY <1>5, <2>1, <2>2, <3>1 DEF IInv, CacheSafe
    <3>2. CASE cache' = obj'
      BY <3>2 DEF CacheSafe
    <3>3. QED BY <2>3, <3>1, <3>2
  <2>6. QED
    BY <1>4, <2>3, <2>4, <2>5, IdleFacts
       DEF IInv, OneServerPerMachine, NormalSafe, DeleteSafe
<1>9. QED BY <1>6, <1>7, <1>8

LEMMA CrashIInv ==
  ASSUME LateCreates = FALSE, TypeOK, IInv, Crash
  PROVE  IInv'
<1>1. UNCHANGED <<obj, owner, power>> /\ cache' = obj /\ worker' = Idle
  BY DEF Crash, Restart
<1>2. QED
  BY <1>1, IdleFacts DEF IInv, Held, NoOrphanServer, CacheSafe,
                         OneServerPerMachine, NormalSafe, DeleteSafe

LEMMA StepIInv ==
  ASSUME LateCreates = FALSE, TypeOK, IInv, [Next]_vars
  PROVE  IInv'
<1>1. CASE UNCHANGED vars
  BY <1>1 DEF vars, IInv, Held, NoOrphanServer, CacheSafe, OneServerPerMachine,
              NormalSafe, DeleteSafe
<1>2. CASE Next
  BY <1>2, EnvironmentIInv, ReconcileIInv, NormalIInv, CreateServerIInv, DeleteIInv,
     PatchIInv, CrashIInv DEF Next, WorkerStep
<1>3. QED BY <1>1, <1>2

\* While no create is executed late, no server is ever orphaned: a server of
\* the controller always has an object that carries the finalizer, through any
\* failures, lost answers, crashes and stale reads.
THEOREM NoOrphans ==
  ASSUME LateCreates = FALSE
  PROVE  Spec => []NoOrphanServer
<1>1. Init => IInv
  BY InitIInv
<1>2. TypeOK /\ IInv /\ [Next]_vars => IInv'
  BY StepIInv
<1>3. IInv => NoOrphanServer
  BY DEF IInv, Held
<1>4. QED BY <1>1, <1>2, <1>3, TypeCorrect, PTL DEF Spec

\* And a machine never has two.
THEOREM NoDuplicates ==
  ASSUME LateCreates = FALSE
  PROVE  Spec => []OneServerPerMachine
<1>1. Init => IInv
  BY InitIInv
<1>2. TypeOK /\ IInv /\ [Next]_vars => IInv'
  BY StepIInv
<1>3. IInv => OneServerPerMachine
  BY DEF IInv
<1>4. QED BY <1>1, <1>2, <1>3, TypeCorrect, PTL DEF Spec

-----------------------------------------------------------------------------
(* Where the id of a server is written down.                               *)

\* A patch writes the caller's provider id, leaves the one that is there, or
\* the object goes with it.
LEMMA PatchPid ==
  ASSUME TypeOK, NEW m \in Machines, NEW from \in Object, NEW to \in Object,
         PatchDone(m, from, to) \/ PatchNotFound(m, from, to)
                                \/ PatchFails(m, from, to)
  PROVE  /\ \A n \in Machines : n # m => obj'[n] = obj[n]
         /\ obj'[m].pid \in {obj[m].pid, to.pid, NoServer}
<1> DEFINE o == obj[m]
           sent == [o EXCEPT !.fin = IF from.fin = to.fin THEN o.fin ELSE to.fin,
                             !.pid = IF from.pid = to.pid THEN o.pid ELSE to.pid]
<1>1. o \in Object
  BY DEF TypeOK
<1>2. sent.pid \in {o.pid, to.pid}
  BY <1>1 DEF Object
<1>3. SpecPatched(o, from, to) \in {sent, Absent}
  BY DEF SpecPatched, Collected
<1>4. SpecPatched(o, from, to).pid \in {o.pid, to.pid, NoServer}
  <2> HIDE DEF sent
  <2>1. Absent.pid = NoServer
    BY DEF Absent
  <2>2. QED BY <1>2, <1>3, <2>1
<1>5. \A x \in Object : StatusPatched(x, from, to).pid = x.pid
  BY DEF StatusPatched, Object
<1>6. SpecPatched(o, from, to) \in Object
  BY <1>1, PatchedType
<1>7. \A p \in {o, SpecPatched(o, from, to),
                StatusPatched(o, from, to), Patched(o, from, to)} :
        p.pid \in {o.pid, to.pid, NoServer}
  BY <1>1, <1>4, <1>5, <1>6 DEF Patched
<1> HIDE DEF sent
<1>8. CASE obj' = obj
  BY <1>8
<1>9. CASE \E p \in {o, SpecPatched(o, from, to),
                     StatusPatched(o, from, to), Patched(o, from, to)} :
             obj' = [obj EXCEPT ![m] = p]
  <2>1. PICK p \in {o, SpecPatched(o, from, to),
                    StatusPatched(o, from, to), Patched(o, from, to)} :
          obj' = [obj EXCEPT ![m] = p]
    BY <1>9
  <2>2. obj'[m] = p /\ \A n \in Machines : n # m => obj'[n] = obj[n]
    BY <2>1 DEF TypeOK
  <2>3. QED BY <1>7, <2>2
<1>10. CASE PatchDone(m, from, to)
  <2>1. CASE from = to
    BY <1>8, <1>10, <2>1 DEF PatchDone, TypeOK
  <2>2. CASE from # to
    BY <1>9, <1>10, <2>2 DEF PatchDone
  <2>3. QED BY <2>1, <2>2
<1>11. CASE PatchNotFound(m, from, to)
  BY <1>8, <1>11 DEF PatchNotFound
<1>12. CASE PatchFails(m, from, to)
  BY <1>9, <1>12 DEF PatchFails
<1>13. QED BY <1>10, <1>11, <1>12

\* The reconcile in flight stays with its machine, and takes up no server id
\* but those of servers with that machine in their labels.
StaysWithItsServers ==
  LET known == {worker.snap.pid, worker.work.pid, worker.server}
                 \cup {s \in Servers : owner[s] = worker.m}
  IN /\ worker'.m = worker.m
     /\ worker'.snap.pid \in known
     /\ worker'.work.pid \in known
     /\ worker'.server \in known

\* Each way of moving on is such a step.
LEMMA MovesStay ==
  ASSUME TypeOK
  PROVE  /\ \A step \in Steps : Goto(step) => StaysWithItsServers
         /\ \A retry \in BOOLEAN : Leave(retry) => StaysWithItsServers
         /\ LetGo => StaysWithItsServers
         /\ GotoHealth => StaysWithItsServers
         /\ \A s \in Servers :
              owner[s] = worker.m \/ s = worker.server =>
                /\ \A step \in Steps : GotoWith(step, s) => StaysWithItsServers
                /\ MarkReady(s) => StaysWithItsServers
<1>1. worker \in WorkerState /\ worker.work \in Object
  BY DEF TypeOK, WorkerOK, WorkerState
<1>2. ASSUME NEW step \in Steps, Goto(step) PROVE StaysWithItsServers
  BY <1>1, <1>2 DEF Goto, WorkerState, StaysWithItsServers
<1>3. ASSUME NEW retry \in BOOLEAN, Leave(retry) PROVE StaysWithItsServers
  BY <1>1, <1>3 DEF Leave, WorkerState, StaysWithItsServers
<1>4. ASSUME LetGo PROVE StaysWithItsServers
  <2>1. worker' = [worker EXCEPT !.step = "close",
                     !.work = [worker.work EXCEPT !.fin = FALSE]]
    BY <1>1, <1>4 DEF LetGo, WorkerState, Object
  <2>2. /\ worker'.m = worker.m /\ worker'.snap = worker.snap
        /\ worker'.server = worker.server
        /\ worker'.work = [worker.work EXCEPT !.fin = FALSE]
    BY <1>1, <2>1 DEF WorkerState
  <2>3. worker'.work.pid = worker.work.pid
    BY <1>1, <2>2 DEF Object
  <2>4. QED BY <2>2, <2>3 DEF StaysWithItsServers
<1>0. GotoHealth => StaysWithItsServers
  BY GotoHealthFacts DEF StaysWithItsServers
<1>5. ASSUME NEW s \in Servers, owner[s] = worker.m \/ s = worker.server,
             NEW step \in Steps, GotoWith(step, s)
      PROVE  StaysWithItsServers
  <2>1. /\ worker'.m = worker.m /\ worker'.snap = worker.snap
        /\ worker'.work = worker.work /\ worker'.server = s
    BY <1>5, GotoWithFacts
  <2>2. QED BY <1>5, <2>1 DEF StaysWithItsServers
<1>6. ASSUME NEW s \in Servers, owner[s] = worker.m \/ s = worker.server, MarkReady(s)
      PROVE  StaysWithItsServers
  <2> DEFINE made == [[worker.work EXCEPT !.pid = s] EXCEPT !.ready = TRUE]
  <2>1. worker' = [worker EXCEPT !.step = "close", !.requeue = FALSE, !.work = made]
    BY <1>1, <1>6 DEF MarkReady, WorkerState, Object
  <2>2. made.pid = s
    BY <1>1 DEF Object
  <2> HIDE DEF made
  <2>3. /\ worker'.m = worker.m /\ worker'.snap = worker.snap
        /\ worker'.server = worker.server /\ worker'.work = made
    BY <1>1, <2>1 DEF WorkerState
  <2>4. QED BY <1>6, <2>2, <2>3 DEF StaysWithItsServers
<1>7. QED BY <1>0, <1>2, <1>3, <1>4, <1>5, <1>6

\* A step adds no name when no server is created.
AddsNoName == \A m \in Machines : \A s \in Servers : Names(m, s)' => Names(m, s)

\* The steps of the worker between two patches that create nothing.
LEMMA MoveNames ==
  ASSUME TypeOK, Prepare \/ FindServer \/ AttachToLoadBalancer \/ CheckAddresses
                   \/ DeleteFind \/ Detach \/ DeleteServer
  PROVE  AddsNoName
<1> USE DEF cluster, cloud
<1>1. /\ obj' = obj /\ cache' = cache
      /\ \A s \in Servers : owner'[s] = owner[s] \/ owner'[s] = NoMachine
  BY DEF Prepare, FindServer, AttachToLoadBalancer, CheckAddresses, DeleteFind,
         Detach, DeleteServer, Remove, TypeOK
<1>2. {"find", "close", "create", "attach", "health", "detach", "deleteServer",
       "panic"} \subseteq Steps
  BY DEF Steps
<1>3. StaysWithItsServers
  <2>1. worker.step \in {"attach", "health", "detach", "deleteServer"}
          => worker.server \in Servers
    BY DEF TypeOK, WorkerOK
  <2>2. CASE Prepare
    BY <1>2, <2>2, MovesStay DEF Prepare
  <2>3. CASE FindServer
    BY <1>2, <2>3, MovesStay DEF FindServer, ServersOf
  <2>4. CASE AttachToLoadBalancer
    BY <1>2, <2>4, MovesStay DEF AttachToLoadBalancer
  <2>5. CASE CheckAddresses
    BY <1>2, <2>1, <2>5, MovesStay DEF CheckAddresses
  <2>6. CASE DeleteFind
    BY <1>2, <2>6, MovesStay DEF DeleteFind, ServersOf
  <2>7. CASE Detach
    BY <1>2, <2>7, MovesStay DEF Detach
  <2>8. CASE DeleteServer
    BY <1>2, <2>8, MovesStay DEF DeleteServer
  <2>9. QED BY <2>2, <2>3, <2>4, <2>5, <2>6, <2>7, <2>8
<1>4. SUFFICES ASSUME NEW m \in Machines, NEW s \in Servers, Names(m, s)'
               PROVE  Names(m, s)
  BY DEF AddsNoName
<1>5. QED BY <1>1, <1>3, <1>4 DEF Names, StaysWithItsServers

\* A reconcile starts with what the cache shows, and its patches write down
\* what it has in memory.
LEMMA ReconcileNames ==
  ASSUME TypeOK, NEW m \in Machines, Reconcile(m)
  PROVE  AddsNoName
<1> USE DEF cluster, cloud
<1>1. obj' = obj /\ cache' = cache /\ owner' = owner
  BY DEF Reconcile
<1>2. CASE worker' = worker
  BY <1>1, <1>2 DEF AddsNoName, Names
<1>3. CASE /\ worker'.m = m /\ worker'.server = NoServer
           /\ worker'.snap = cache[m] /\ worker'.work = cache[m]
  BY <1>1, <1>3 DEF AddsNoName, Names
<1>4. worker' = worker \/ (/\ worker'.m = m /\ worker'.server = NoServer
                           /\ worker'.snap = cache[m] /\ worker'.work = cache[m])
  BY DEF Reconcile, Idle
<1>5. QED BY <1>2, <1>3, <1>4

LEMMA PatchNames ==
  ASSUME TypeOK, AddFinalizer \/ Close \/ Panic
  PROVE  AddsNoName
<1> USE DEF cluster, cloud
<1>1. worker.m \in Machines /\ worker.snap \in Object /\ worker.work \in Object
  BY DEF AddFinalizer, Close, Panic, TypeOK, WorkerOK, WorkerState
<1>2. owner' = owner
  BY DEF AddFinalizer, Close, Panic
<1>3. CASE AddFinalizer
  <2> DEFINE to == [worker.work EXCEPT !.fin = TRUE]
  <2>1. to \in Object /\ to.pid = worker.work.pid
    BY <1>1 DEF Object
  <2>2. \/ PatchDone(worker.m, worker.snap, to)
        \/ PatchNotFound(worker.m, worker.snap, to)
        \/ PatchFails(worker.m, worker.snap, to)
    BY <1>3 DEF AddFinalizer
  <2>3. /\ worker'.m = worker.m /\ worker'.snap = worker.snap
        /\ worker'.work = to /\ worker'.server = worker.server
    BY <1>3 DEF AddFinalizer, TypeOK, WorkerOK, WorkerState
  <2> HIDE DEF to
  <2>4. /\ \A n \in Machines : n # worker.m => obj'[n] = obj[n]
        /\ obj'[worker.m].pid \in {obj[worker.m].pid, worker.work.pid, NoServer}
    BY <1>1, <2>1, <2>2, PatchPid
  <2>5. cache' = cache
    BY <1>3 DEF AddFinalizer
  <2>6. QED BY <1>1, <1>2, <2>1, <2>3, <2>4, <2>5 DEF AddsNoName, Names
<1>4. CASE Close \/ Panic
  <2>1. \/ PatchDone(worker.m, worker.snap, worker.work)
        \/ PatchNotFound(worker.m, worker.snap, worker.work)
        \/ PatchFails(worker.m, worker.snap, worker.work)
    BY <1>4 DEF Close, Panic
  <2>2. /\ \A n \in Machines : n # worker.m => obj'[n] = obj[n]
        /\ obj'[worker.m].pid \in {obj[worker.m].pid, worker.work.pid, NoServer}
    BY <1>1, <2>1, PatchPid
  <2>3. cache' = cache \/ cache' = obj'
    BY <1>4 DEF Close, Panic, Restart
  <2>4. worker'.m = NoMachine
    BY <1>4 DEF Close, Panic, Restart, Idle
  <2>5. QED BY <1>1, <1>2, <2>2, <2>3, <2>4 DEF AddsNoName, Names
<1>5. QED BY <1>3, <1>4

LEMMA EnvironmentNames ==
  ASSUME TypeOK, Environment
  PROVE  AddsNoName
<1> USE DEF cluster, cloud
<1>1. worker' = worker
  BY DEF Environment, Create, Delete, Watch, Resync, AdvancePhase, SetPaused,
         BuildImage, CreateVolume, JoinNetwork,
         RestoreLoadBalancer, BeginTeardown, LoseLoadBalancer, Boot, Serve, PowerOff, LoseServer
<1>2. \A s \in Servers : owner'[s] = owner[s] \/ owner'[s] = NoMachine
  BY DEF Environment, Create, Delete, Watch, Resync, AdvancePhase, SetPaused,
         BuildImage, CreateVolume, JoinNetwork,
         RestoreLoadBalancer, BeginTeardown, LoseLoadBalancer, Boot, Serve, PowerOff, LoseServer,
         Remove, TypeOK
<1>3. \A m \in Machines : obj'[m].pid \in {obj[m].pid, NoServer}
  <2>1. CASE obj' = obj
    BY <2>1
  <2>2. ASSUME NEW m \in Machines, Create(m) \/ Delete(m)
        PROVE  \A n \in Machines : obj'[n].pid \in {obj[n].pid, NoServer}
    <3>1. Fresh.pid = NoServer /\ Absent.pid = NoServer
      BY DEF Fresh, Absent
    <3>2. Collected([obj[m] EXCEPT !.life = "deleting"]).pid \in {obj[m].pid, NoServer}
      BY <3>1 DEF Collected, TypeOK, Object
    <3>3. QED BY <2>2, <3>1, <3>2 DEF Create, Delete, TypeOK
  <2>3. QED
    BY <2>1, <2>2 DEF Environment, Watch, Resync, AdvancePhase, SetPaused,
       BuildImage, CreateVolume, JoinNetwork,
         RestoreLoadBalancer, BeginTeardown, LoseLoadBalancer, Boot, Serve, PowerOff, LoseServer
<1>4. \A m \in Machines : cache'[m] = cache[m] \/ cache'[m] = obj[m]
  <2>1. CASE cache' = cache
    BY <2>1
  <2>2. ASSUME NEW m \in Machines, Watch(m)
        PROVE  \A n \in Machines : cache'[n] = cache[n] \/ cache'[n] = obj[n]
    BY <2>2 DEF Watch, TypeOK
  <2>3. QED
    BY <2>1, <2>2 DEF Environment, Create, Delete, Resync, AdvancePhase, SetPaused,
       BuildImage, CreateVolume, JoinNetwork,
         RestoreLoadBalancer, BeginTeardown, LoseLoadBalancer, Boot, Serve, PowerOff, LoseServer
<1>5. QED BY <1>1, <1>2, <1>3, <1>4 DEF AddsNoName, Names

\* A create adds one name: the worker's machine to a server no object has.
LEMMA CreateNames ==
  ASSUME TypeOK, CreateServer \/ Crash, NEW m \in Machines, NEW s \in Servers,
         Names(m, s)'
  PROVE  Names(m, s) \/ (m = worker.m /\ Unused(s))
<1> USE DEF cluster, cloud
<1>1. owner'[s] = owner[s] \/ (owner'[s] = worker.m /\ Unused(s))
  BY DEF CreateServer, Crash, TypeOK
<1>2. obj' = obj
  BY DEF CreateServer, Crash
<1>3. CASE CreateServer
  <2>1. {"panic", "close"} \subseteq Steps
    BY DEF Steps
  <2>2. StaysWithItsServers
    BY <1>3, <2>1, MovesStay DEF CreateServer
  <2>3. cache' = cache
    BY <1>3 DEF CreateServer
  <2>4. QED BY <1>1, <1>2, <2>2, <2>3 DEF Names, StaysWithItsServers
<1>4. CASE Crash
  <2>1. worker'.m = NoMachine
    BY <1>4 DEF Crash, Restart, Idle
  <2>2. cache' = obj
    BY <1>2, <1>4 DEF Crash, Restart
  <2>3. QED BY <1>1, <1>2, <2>1, <2>2 DEF Names
<1>5. QED BY <1>3, <1>4

LEMMA StepNamedOnce == TypeOK /\ NamedOnce /\ [Next]_vars => NamedOnce'
<1> SUFFICES ASSUME TypeOK, NamedOnce, [Next]_vars,
                    NEW m \in Machines, NEW n \in Machines, NEW s \in Servers,
                    Names(m, s)', Names(n, s)'
             PROVE  m = n
  BY DEF NamedOnce
<1>1. CASE AddsNoName
  BY <1>1 DEF AddsNoName, NamedOnce
<1>2. CASE CreateServer \/ Crash
  <2>1. /\ Names(m, s) \/ (m = worker.m /\ Unused(s))
        /\ Names(n, s) \/ (n = worker.m /\ Unused(s))
    BY <1>2, CreateNames
  <2>2. \A x \in Machines : Names(x, s) /\ Unused(s) => x = worker.m
    BY DEF Names, Unused
  <2>3. QED BY <2>1, <2>2 DEF NamedOnce
<1>3. CASE UNCHANGED vars
  BY <1>1, <1>3 DEF vars, AddsNoName, Names
<1>4. CASE Next
  BY <1>1, <1>2, <1>4, MoveNames, ReconcileNames, PatchNames, EnvironmentNames
     DEF Next, WorkerStep
<1>5. QED BY <1>3, <1>4

\* No two machines ever have the same provider id, even while creates are
\* executed late: whatever patch a reconcile still has in memory, it carries an
\* id that only its own machine's labels, object and cache have ever named.
THEOREM DistinctProviderIDs == Spec => []ProviderIDsDistinct
<1>1. Init => NamedOnce
  BY DEF Init, NamedOnce, Names, Absent, Idle
<1>2. TypeOK /\ NamedOnce => ProviderIDsDistinct
  BY DEF NamedOnce, Names, ProviderIDsDistinct, TypeOK, Object
<1>3. QED BY <1>1, <1>2, StepNamedOnce, TypeCorrect, PTL DEF Spec

-----------------------------------------------------------------------------
(* What a reconcile may do to a server.                                    *)

\* The steps that touch neither a server nor a target, and do not end before
\* the deletion of a server.
LEMMA QuietDrained ==
  ASSUME TypeOK, Drained, UNCHANGED <<owner, power, targets>>,
         worker' = worker \/ worker'.step # "deleteServer"
  PROVE  Drained'
  BY DEF Drained

LEMMA ServersDrained ==
  ASSUME TypeOK, Drained,
         NEW s \in Servers, Boot(s) \/ Serve(s) \/ PowerOff(s) \/ LoseServer(s)
  PROVE  Drained'
<1> USE DEF cluster, cloud
<1>1. worker' = worker
  BY DEF Boot, Serve, PowerOff, LoseServer
<1>2. CASE Boot(s) \/ Serve(s) \/ PowerOff(s)
  <2>1. /\ owner' = owner /\ targets' = targets /\ power[s] # "absent"
        /\ power'[s] # "absent"
        /\ \A t \in Servers : t # s => power'[t] = power[t]
    BY <1>2 DEF Boot, Serve, PowerOff, TypeOK, Running
  <2>2. QED BY <1>1, <2>1 DEF Drained, TypeOK
<1>3. CASE LoseServer(s)
  BY <1>1, <1>3 DEF LoseServer, Remove, Drained, TypeOK
<1>4. QED BY <1>2, <1>3

LEMMA WorkerDrained ==
  ASSUME TypeOK, Drained, CreateServer \/ AttachToLoadBalancer \/ Detach
                            \/ DeleteServer \/ Crash
  PROVE  Drained'
<1> USE DEF cluster, cloud
<1>1. {"panic", "close", "health", "deleteServer"} \subseteq Steps
  BY DEF Steps
<1>2. CASE CreateServer \/ Crash
  <2>1. worker'.step # "deleteServer" /\ targets' = targets
    BY <1>1, <1>2, GotoFacts, LeaveFacts, IdleFacts DEF CreateServer, Crash, Restart
  <2>2. worker.m \in Machines \/ (owner' = owner /\ power' = power)
    BY <1>2 DEF CreateServer, Crash, TypeOK, WorkerOK
  <2>3. CASE owner' = owner /\ power' = power
    BY <2>1, <2>3, QuietDrained
  <2>4. ASSUME NEW s \in Servers, worker.m \in Machines,
               owner' = [owner EXCEPT ![s] = worker.m],
               \E p \in {"starting", "requested"} : power' = [power EXCEPT ![s] = p]
        PROVE  Drained'
    BY <2>1, <2>4 DEF Drained, TypeOK
  <2>5. QED BY <1>2, <2>2, <2>3, <2>4 DEF CreateServer, Crash
<1>3. CASE AttachToLoadBalancer
  <2>1. worker'.step # "deleteServer"
    BY <1>1, <1>3, GotoFacts, GotoHealthFacts, LeaveFacts DEF AttachToLoadBalancer
  <2>2. /\ owner' = owner /\ power' = power
        /\ \A s \in targets' : s \in targets \/ power[s] # "absent"
    BY <1>3 DEF AttachToLoadBalancer
  <2>3. QED BY <2>1, <2>2 DEF Drained, TypeOK
<1>4. CASE Detach
  <2>1. /\ owner' = owner /\ power' = power /\ targets' \subseteq targets
    BY <1>4 DEF Detach
  <2>2. worker'.step = "deleteServer" => worker'.server \notin targets'
    <3>1. CASE Goto("deleteServer") /\ worker.server \notin targets'
      BY <1>1, <3>1, GotoFacts
    <3>2. CASE Leave(TRUE) \/ Goto("panic")
      BY <1>1, <3>2, GotoFacts, LeaveFacts
    <3>3. QED BY <1>4, <3>1, <3>2 DEF Detach
  <2>3. QED BY <2>1, <2>2 DEF Drained, TypeOK
<1>5. CASE DeleteServer
  <2>1. worker'.step # "deleteServer"
    BY <1>5, LeaveFacts, LetGoFacts DEF DeleteServer
  <2>2. worker.server \in Servers
    BY <1>5 DEF DeleteServer, TypeOK, WorkerOK
  <2>3. CASE UNCHANGED cloud
    BY <2>1, <2>3, QuietDrained
  <2>4. CASE Remove(worker.server)
    BY <2>1, <2>2, <2>4 DEF Remove, Drained, TypeOK
  <2>5. CASE /\ power[worker.server] \in Running
             /\ power' = [power EXCEPT ![worker.server] = "stopping"]
             /\ UNCHANGED <<owner, targets>>
    BY <2>1, <2>2, <2>5 DEF Running, Drained, TypeOK
  <2>6. QED BY <1>5, <2>3, <2>4, <2>5 DEF DeleteServer
<1>6. QED BY <1>2, <1>3, <1>4, <1>5

LEMMA StepDrained == TypeOK /\ Drained /\ [Next]_vars => Drained'
<1> SUFFICES ASSUME TypeOK, Drained, [Next]_vars PROVE Drained'
  OBVIOUS
<1> USE DEF cluster, cloud
<1>1. {"prepare", "find", "close", "create", "attach", "detach"} \subseteq Steps
  BY DEF Steps
<1>2. ASSUME NEW m \in Machines, Reconcile(m) PROVE Drained'
  BY <1>2, QuietDrained DEF Reconcile, Idle
<1>3. CASE AddFinalizer
  <2>1. worker'.step # "deleteServer" /\ UNCHANGED <<owner, power, targets>>
    BY <1>3 DEF AddFinalizer, TypeOK, WorkerOK, WorkerState
  <2>2. QED BY <2>1, QuietDrained
<1>4. CASE Prepare
  BY <1>1, <1>4, QuietDrained, GotoFacts, LeaveFacts DEF Prepare
<1>5. CASE FindServer
  BY <1>1, <1>5, QuietDrained, GotoFacts, LeaveFacts, MarkReadyFacts, GotoWithFacts
     DEF FindServer, ServersOf
<1>6. CASE CheckAddresses
  <2>1. worker.server \in Servers
    BY <1>6 DEF CheckAddresses, TypeOK, WorkerOK
  <2>2. QED BY <1>6, <2>1, QuietDrained, LeaveFacts, MarkReadyFacts DEF CheckAddresses
<1>7. CASE DeleteFind
  BY <1>1, <1>7, QuietDrained, LeaveFacts, LetGoFacts, GotoWithFacts
     DEF DeleteFind, ServersOf
<1>8. CASE Close \/ Panic
  BY <1>8, QuietDrained, IdleFacts DEF Close, Panic, Restart
<1>9. CASE Environment
  <2>1. CASE UNCHANGED <<worker, owner, power, targets>>
    BY <2>1, QuietDrained
  <2>2. CASE LoseLoadBalancer
    BY <2>2 DEF LoseLoadBalancer, Drained
  <2>3. QED
    BY <1>9, <2>1, <2>2, ServersDrained DEF Environment, Create, Delete, Watch, Resync,
       AdvancePhase, SetPaused, BuildImage, CreateVolume, JoinNetwork,
         RestoreLoadBalancer, BeginTeardown
<1>10. CASE UNCHANGED vars
  BY <1>10, QuietDrained DEF vars
<1>11. QED
  BY <1>2, <1>3, <1>4, <1>5, <1>6, <1>7, <1>8, <1>9, <1>10, WorkerDrained
     DEF Next, WorkerStep

\* How a step of the worker may change what a server does, or take it off the
\* load balancer: it creates one for its machine, or acts on the one it found.
LEMMA WorkerTouches ==
  ASSUME TypeOK, Drained, [Next]_vars, worker' # worker, NEW s \in Servers
  PROVE  /\ power'[s] # power[s] =>
              \/ owner'[s] = worker.m /\ power'[s] \in {"starting", "requested"}
              \/ worker.step = "deleteServer" /\ s = worker.server /\ power[s] # "absent"
         /\ s \in targets \ targets' =>
              worker.step \in {"detach", "deleteServer"} /\ s = worker.server
<1> USE DEF cluster, cloud
<1>1. ~Environment /\ ~UNCHANGED vars
  BY DEF vars, Environment, Create, Delete, Watch, Resync, AdvancePhase, SetPaused,
         BuildImage, CreateVolume, JoinNetwork,
         RestoreLoadBalancer, BeginTeardown, LoseLoadBalancer, Boot, Serve, PowerOff, LoseServer
<1>2. CASE CreateServer \/ Crash
  BY <1>2 DEF CreateServer, Crash, TypeOK
<1>3. CASE DeleteServer
  <2>1. CASE UNCHANGED cloud
    BY <2>1
  <2>2. CASE Remove(worker.server)
    <3>1. power[s] # "absent" \/ power'[s] = power[s]
      BY <2>2 DEF Remove, TypeOK
    <3>2. s = worker.server \/ power'[s] = power[s]
      BY <2>2 DEF Remove, TypeOK
    <3>3. s \in targets \ targets' => s = worker.server
      BY <2>2 DEF Remove
    <3>4. worker.step = "deleteServer"
      BY <1>3 DEF DeleteServer
    <3>5. QED BY <3>1, <3>2, <3>3, <3>4
  <2>3. CASE /\ power[worker.server] \in Running
             /\ power' = [power EXCEPT ![worker.server] = "stopping"]
             /\ UNCHANGED <<owner, targets>>
    BY <1>3, <2>3 DEF DeleteServer, Running, TypeOK
  <2>4. QED BY <1>3, <2>1, <2>2, <2>3 DEF DeleteServer
<1>4. CASE Detach \/ AttachToLoadBalancer
  BY <1>4 DEF Detach, AttachToLoadBalancer
<1>5. CASE UNCHANGED cloud
  BY <1>5
<1>6. QED
  BY <1>1, <1>2, <1>3, <1>4, <1>5 DEF Next, WorkerStep, Reconcile, AddFinalizer,
     Prepare, FindServer, CheckAddresses, DeleteFind, Close, Panic

\* The controller never stops or deletes a server that is a target of the load
\* balancer, in whatever order its retries come.
THEOREM DrainedFirst == Spec => DrainBeforeStop
<1>1. Init => Drained
  BY DEF Init, Drained, Idle
<1>2. TypeOK /\ Drained /\ [Next]_vars =>
        [\A s \in Servers :
           /\ worker' # worker
           /\ power'[s] # power[s] /\ power'[s] \in {"stopping", "absent"}
           => s \notin targets]_vars
  BY WorkerTouches DEF Drained
<1>3. QED BY <1>1, <1>2, StepDrained, TypeCorrect, PTL DEF Spec, DrainBeforeStop

\* No reconcile creates, stops, deletes or detaches a server of another machine
\* than its own.
THEOREM OwnServersOnly == Spec => TouchesOwnServerOnly
<1>1. Init => Drained /\ NamedOnce
  BY DEF Init, Drained, NamedOnce, Names, Absent, Idle
<1>2. ASSUME TypeOK, Drained, NamedOnce, [Next]_vars, worker' # worker,
             NEW s \in Servers, power'[s] # power[s] \/ targets \ targets' = {s}
      PROVE  worker.m \in {owner[s], owner'[s]}
  <2>1. CASE owner'[s] = worker.m
    BY <2>1
  <2>2. CASE /\ worker.step \in {"detach", "deleteServer"} /\ s = worker.server
             /\ power[s] # "absent"
    <3>1. owner[s] \in Machines
      BY <1>2, <2>2 DEF Drained, TypeOK
    <3>2. Names(owner[s], s) /\ Names(worker.m, s)
      BY <2>2 DEF Names
    <3>3. worker.m \in Machines
      BY <1>2, <2>2 DEF TypeOK, WorkerOK
    <3>4. QED BY <1>2, <3>1, <3>2, <3>3 DEF NamedOnce
  <2>3. s \in targets => power[s] # "absent"
    BY <1>2 DEF Drained
  <2>4. power'[s] # power[s] \/ s \in targets \ targets'
    BY <1>2
  <2>5. QED BY <1>2, <2>1, <2>2, <2>3, <2>4, WorkerTouches
<1>3. TypeOK /\ Drained /\ NamedOnce /\ [Next]_vars =>
        [\A s \in Servers :
           /\ worker' # worker
           /\ power'[s] # power[s] \/ targets \ targets' = {s}
           => worker.m \in {owner[s], owner'[s]}]_vars
  BY <1>2
<1>4. QED
  BY <1>1, <1>3, StepDrained, StepNamedOnce, TypeCorrect, PTL
     DEF Spec, TouchesOwnServerOnly

-----------------------------------------------------------------------------
(* What a patch does to the rest of the object.                            *)

\* A patch sets Ready only if the caller did, writes the caller's provider id
\* only where the caller has changed it, and takes the id with the object.
PatchOf(o, from, to, p) ==
  /\ p.ready /\ ~o.ready => to.ready /\ ~from.ready
  /\ \/ p.pid = o.pid
     \/ p.pid = to.pid /\ to.pid # from.pid
     \/ p.life = "absent" /\ p.pid = NoServer
  /\ p.life = "absent" => p.pid = NoServer

LEMMA PatchedOf ==
  ASSUME NEW o \in Object, NEW from \in Object, NEW to \in Object,
         o.life # "absent",
         NEW p \in {o, SpecPatched(o, from, to),
                    StatusPatched(o, from, to), Patched(o, from, to)}
  PROVE  PatchOf(o, from, to, p)
<1> DEFINE sent == [o EXCEPT !.fin = IF from.fin = to.fin THEN o.fin ELSE to.fin,
                             !.pid = IF from.pid = to.pid THEN o.pid ELSE to.pid]
<1>1. /\ sent \in Object /\ sent.ready = o.ready /\ sent.life = o.life
      /\ sent.pid = o.pid \/ (sent.pid = to.pid /\ to.pid # from.pid)
  BY DEF Object
<1>2. /\ Absent \in Object /\ Absent.life = "absent"
      /\ Absent.pid = NoServer /\ Absent.ready = FALSE
  BY DEF Absent, Object, Lives
<1>3. SpecPatched(o, from, to) \in {sent, Absent}
  BY DEF SpecPatched, Collected
<1> HIDE DEF sent
<1>4. PatchOf(o, from, to, o)
  BY DEF PatchOf
<1>5. PatchOf(o, from, to, sent) /\ PatchOf(o, from, to, Absent)
  BY <1>1, <1>2 DEF PatchOf
<1>6. ASSUME NEW x \in Object, PatchOf(o, from, to, x)
      PROVE  PatchOf(o, from, to, StatusPatched(x, from, to))
  <2>1. CASE x.life = "absent" \/ from.ready = to.ready
    BY <1>6, <2>1 DEF StatusPatched
  <2>2. CASE x.life # "absent" /\ from.ready # to.ready
    <3>1. StatusPatched(x, from, to) = [x EXCEPT !.ready = to.ready]
      BY <2>2 DEF StatusPatched
    <3>2. /\ StatusPatched(x, from, to).ready = to.ready
          /\ StatusPatched(x, from, to).pid = x.pid
          /\ StatusPatched(x, from, to).life = x.life
      BY <1>6, <3>1 DEF Object
    <3>3. to.ready => ~from.ready
      BY <2>2 DEF Object
    <3>4. QED BY <1>6, <3>2, <3>3 DEF PatchOf
  <2>3. QED BY <2>1, <2>2
<1>7. QED BY <1>1, <1>2, <1>3, <1>4, <1>5, <1>6 DEF Patched

LEMMA PatchEffect ==
  ASSUME TypeOK, NEW m \in Machines, NEW from \in Object, NEW to \in Object,
         PatchDone(m, from, to) \/ PatchNotFound(m, from, to)
                                \/ PatchFails(m, from, to)
  PROVE  /\ \A n \in Machines : n # m => obj'[n] = obj[n]
         /\ obj'[m] = obj[m] \/ PatchOf(obj[m], from, to, obj'[m])
<1>1. obj[m] \in Object
  BY DEF TypeOK
<1>2. CASE obj' = obj
  BY <1>2
<1>3. CASE obj[m].life # "absent" /\
           \E p \in {obj[m], SpecPatched(obj[m], from, to),
                     StatusPatched(obj[m], from, to), Patched(obj[m], from, to)} :
             obj' = [obj EXCEPT ![m] = p]
  <2>1. PICK p \in {obj[m], SpecPatched(obj[m], from, to),
                    StatusPatched(obj[m], from, to), Patched(obj[m], from, to)} :
          obj' = [obj EXCEPT ![m] = p]
    BY <1>3
  <2>2. obj'[m] = p /\ \A n \in Machines : n # m => obj'[n] = obj[n]
    BY <2>1 DEF TypeOK
  <2>3. PatchOf(obj[m], from, to, p)
    BY <1>1, <1>3, PatchedOf
  <2>4. QED BY <2>2, <2>3
<1>4. CASE PatchDone(m, from, to)
  <2>1. CASE from = to
    BY <1>2, <1>4, <2>1 DEF PatchDone, TypeOK
  <2>2. CASE from # to
    BY <1>3, <1>4, <2>2 DEF PatchDone
  <2>3. QED BY <2>1, <2>2
<1>5. CASE PatchNotFound(m, from, to)
  BY <1>2, <1>5 DEF PatchNotFound
<1>6. CASE PatchFails(m, from, to)
  BY <1>3, <1>6 DEF PatchFails
<1>7. QED BY <1>4, <1>5, <1>6

\* The three steps that patch, in these terms.  Only the end of a reconcile
\* sends a Ready or a provider id that the reconcile has changed.
LEMMA WorkerPatches ==
  ASSUME TypeOK, AddFinalizer \/ Close \/ Panic
  PROVE  /\ worker.m \in Machines
         /\ \A n \in Machines : n # worker.m => obj'[n] = obj[n]
         /\ \/ obj'[worker.m] = obj[worker.m]
            \/ \E to \in Object :
                 /\ to.pid = worker.work.pid /\ to.ready = worker.work.ready
                 /\ PatchOf(obj[worker.m], worker.snap, to, obj'[worker.m])
<1>1. worker.m \in Machines /\ worker.snap \in Object /\ worker.work \in Object
  BY DEF AddFinalizer, Close, Panic, TypeOK, WorkerOK, WorkerState
<1>2. CASE AddFinalizer
  <2> DEFINE to == [worker.work EXCEPT !.fin = TRUE]
  <2>1. to \in Object /\ to.pid = worker.work.pid /\ to.ready = worker.work.ready
    BY <1>1 DEF Object
  <2>2. \/ PatchDone(worker.m, worker.snap, to)
        \/ PatchNotFound(worker.m, worker.snap, to)
        \/ PatchFails(worker.m, worker.snap, to)
    BY <1>2 DEF AddFinalizer
  <2> HIDE DEF to
  <2>3. QED BY <1>1, <2>1, <2>2, PatchEffect
<1>3. CASE Close \/ Panic
  <2>1. \/ PatchDone(worker.m, worker.snap, worker.work)
        \/ PatchNotFound(worker.m, worker.snap, worker.work)
        \/ PatchFails(worker.m, worker.snap, worker.work)
    BY <1>3 DEF Close, Panic
  <2>2. QED BY <1>1, <2>1, PatchEffect
<1>4. QED BY <1>2, <1>3

\* Users create an object afresh, and delete one whole or mark it.
LEMMA UserFacts ==
  ASSUME TypeOK, NEW m \in Machines, Create(m) \/ Delete(m)
  PROVE  /\ \A n \in Machines : n # m => obj'[n] = obj[n]
         /\ obj'[m].ready \in {obj[m].ready, FALSE}
         /\ obj'[m].pid \in {obj[m].pid, NoServer}
         /\ obj[m].life = "absent" \/ obj'[m].life = "absent"
              \/ obj'[m].pid = obj[m].pid
         /\ obj'[m].life = "absent" => obj'[m].pid = NoServer
<1> DEFINE marked == [obj[m] EXCEPT !.life = "deleting"]
<1>1. marked.life = "deleting" /\ marked.ready = obj[m].ready /\ marked.pid = obj[m].pid
  BY DEF TypeOK, Object
<1>2. Collected(marked) \in {marked, Absent}
  BY DEF Collected
<1> HIDE DEF marked
<1>3. /\ Absent.life = "absent" /\ Absent.ready = FALSE /\ Absent.pid = NoServer
      /\ Fresh.life = "live" /\ Fresh.ready = FALSE /\ Fresh.pid = NoServer
  BY DEF Absent, Fresh
<1>4. /\ \A n \in Machines : n # m => obj'[n] = obj[n]
      /\ \/ obj'[m] = Fresh /\ obj[m].life = "absent"
         \/ obj'[m] = Collected(marked)
  BY DEF Create, Delete, TypeOK, marked
<1>5. QED BY <1>1, <1>2, <1>3, <1>4

-----------------------------------------------------------------------------
(* A control plane that becomes ready is a target.                         *)

\* Which load balancer a reconcile remembers, and how many were lost.
LEMMA StepRemembered ==
  ASSUME TypeOK, [Next]_vars
  PROVE  /\ lb' = lb \/ (lb'.id = lb.id /\ worker' = worker)
                     \/ LoseLoadBalancer
         /\ lb.id \in Nat /\ lb'.id \in Nat /\ worker.lb.id \in Nat
         /\ Remembered => Remembered'
<1> USE DEF cluster, cloud
<1>1. lb \in LoadBalancer /\ worker \in WorkerState /\ worker.lb \in LoadBalancer
  BY DEF TypeOK, WorkerOK, WorkerState
<1>2. lb' \in LoadBalancer
  BY StepType DEF TypeOK
<1>3. CASE LoseLoadBalancer
  BY <1>1, <1>2, <1>3 DEF LoseLoadBalancer, LoadBalancer, Remembered
<1>4. CASE JoinNetwork \/ RestoreLoadBalancer
  BY <1>1, <1>2, <1>4 DEF JoinNetwork, RestoreLoadBalancer, LoadBalancer, Remembered
<1>5. ASSUME lb' = lb, worker'.lb \in {worker.lb, lb, NoLoadBalancer}
      PROVE  Remembered => Remembered'
  BY <1>1, <1>5 DEF LoadBalancer, Remembered, NoLoadBalancer
<1>6. CASE Environment /\ ~LoseLoadBalancer /\ ~JoinNetwork /\ ~RestoreLoadBalancer
  <2>1. lb' = lb /\ worker' = worker
    BY <1>6 DEF Environment, Create, Delete, Watch, Resync, AdvancePhase, SetPaused,
       BuildImage, CreateVolume, BeginTeardown, Boot, Serve, PowerOff, LoseServer
  <2>2. QED BY <1>1, <1>2, <1>5, <2>1 DEF LoadBalancer
<1>7. CASE ~Environment
  <2>1. lb' = lb
    BY <1>7 DEF Next, vars, WorkerStep, Reconcile, AddFinalizer, Prepare, FindServer,
       CreateServer, AttachToLoadBalancer, CheckAddresses, DeleteFind, Detach,
       DeleteServer, Close, Panic, Crash
  <2>2. worker'.lb \in {worker.lb, lb, NoLoadBalancer}
    <3>1. ASSUME NEW step, Goto(step) PROVE worker'.lb = worker.lb
      BY <1>1, <3>1 DEF Goto, WorkerState
    <3>2. ASSUME NEW retry, Leave(retry) PROVE worker'.lb = worker.lb
      BY <1>1, <3>2 DEF Leave, WorkerState
    <3>3. ASSUME NEW step, NEW s, GotoWith(step, s) PROVE worker'.lb = worker.lb
      BY <1>1, <3>3 DEF GotoWith, WorkerState
    <3>4. ASSUME NEW s, MarkReady(s) PROVE worker'.lb = worker.lb
      BY <1>1, <3>4 DEF MarkReady, WorkerState
    <3>5. LetGo => worker'.lb = worker.lb
      BY <1>1 DEF LetGo, WorkerState
    <3>6. GotoHealth => worker'.lb = lb
      BY <1>1 DEF GotoHealth, WorkerState
    <3>7. ASSUME NEW m \in Machines, Reconcile(m) PROVE worker'.lb \in {worker.lb, NoLoadBalancer}
      BY <3>7 DEF Reconcile, Idle
    <3>8. AddFinalizer => worker'.lb = worker.lb
      BY <1>1 DEF AddFinalizer, WorkerState
    <3>9. Close \/ Panic \/ Crash => worker'.lb = NoLoadBalancer
      BY DEF Close, Panic, Crash, Restart, Idle
    <3>10. CASE Next /\ ~(\E m \in Machines : Reconcile(m)) /\ ~AddFinalizer
                /\ ~Close /\ ~Panic /\ ~Crash
      BY <1>7, <3>1, <3>2, <3>3, <3>4, <3>5, <3>6, <3>10
         DEF Next, WorkerStep, Prepare, FindServer, CreateServer,
             AttachToLoadBalancer, CheckAddresses, DeleteFind, Detach, DeleteServer
    <3>11. CASE UNCHANGED vars
      BY <3>11 DEF vars
    <3>12. QED BY <3>7, <3>8, <3>9, <3>10, <3>11
  <2>3. QED BY <1>1, <1>2, <1>5, <2>1, <2>2 DEF LoadBalancer
<1>8. QED BY <1>3, <1>4, <1>6, <1>7

\* A server that is served stays so, unless the worker detaches it.
LEMMA TargetsStay ==
  ASSUME TypeOK, Drained, Remembered, [Next]_vars, NEW s \in Servers, Served(s),
         worker.step \in {"health", "close", "attach"}, worker'.step # "idle",
         worker'.lb = worker.lb
  PROVE  Served(s)'
<1> USE DEF cluster, cloud
<1>1. lb.id \in Nat /\ lb'.id \in Nat /\ worker.lb.id \in Nat
  BY StepRemembered
<1>2. CASE LoseLoadBalancer
  <2>1. lb'.id = lb.id + 1
    BY <1>2 DEF LoseLoadBalancer
  <2>2. worker'.lb.id # lb'.id
    BY <1>1, <2>1 DEF Remembered
  <2>3. QED BY <2>2 DEF Served
<1>3. CASE ~LoseLoadBalancer
  <2>1. Unreachable(worker'.lb) = Unreachable(worker.lb) /\ lb'.id = lb.id
    BY <1>3, StepRemembered DEF Unreachable
  <2> SUFFICES ASSUME s \in targets \/ power[s] = "absent"
               PROVE  s \in targets' \/ power'[s] = "absent"
    BY <2>1 DEF Served
  <2>2. CASE AttachToLoadBalancer
    BY <2>2 DEF AttachToLoadBalancer
  <2>3. CASE UNCHANGED <<power, targets>>
    BY <2>3
  <2>4. ASSUME NEW t \in Servers, Boot(t) \/ Serve(t) \/ PowerOff(t) \/ LoseServer(t)
        PROVE  s \in targets' \/ power'[s] = "absent"
    BY <2>4 DEF Boot, Serve, PowerOff, LoseServer, Remove, Running, TypeOK
  <2>5. CASE Environment
    BY <1>3, <2>3, <2>4, <2>5 DEF Environment, Create, Delete, Watch, Resync,
       AdvancePhase, SetPaused, BuildImage, CreateVolume, JoinNetwork,
       RestoreLoadBalancer, BeginTeardown
  <2>6. ~CreateServer /\ ~Detach /\ ~DeleteServer /\ ~Crash
    BY IdleFacts DEF CreateServer, Detach, DeleteServer, Crash, Restart
  <2>7. CASE UNCHANGED vars
    BY <2>3, <2>7 DEF vars
  <2>8. CASE Next /\ ~Environment /\ ~AttachToLoadBalancer
    BY <2>3, <2>6, <2>8 DEF Next, WorkerStep, Reconcile, AddFinalizer, Prepare,
       FindServer, CheckAddresses, DeleteFind, Close, Panic
  <2>9. QED BY <2>2, <2>5, <2>7, <2>8
<1>4. QED BY <1>2, <1>3

\* A reconcile in flight that ends without becoming ready.
LEMMA QuietAttached ==
  ASSUME worker'.step \notin {"health", "close"},
         worker'.step # "idle" => worker'.work.ready = worker'.snap.ready
  PROVE  Attached'
  BY DEF Attached

LEMMA ClosesAttached ==
  ASSUME worker'.step = "close", worker'.work.ready => worker'.snap.ready
  PROVE  Attached'
  BY DEF Attached

LEMMA StepAttached ==
  ASSUME TypeOK, Drained, Attached, Remembered, [Next]_vars
  PROVE  Attached'
<1> USE DEF cluster, cloud
<1>1. worker \in WorkerState /\ worker.work \in Object /\ worker.snap \in Object
  BY DEF TypeOK, WorkerOK, WorkerState
<1>2. worker.step \notin {"idle", "close"} => worker.work.ready = worker.snap.ready
  BY DEF Attached
<1>3. {"find", "close", "create", "attach", "health", "detach", "deleteServer",
       "panic"} \subseteq Steps
  BY DEF Steps
<1>4. worker.step \in {"attach", "health"} => worker.server \in Servers
  BY DEF TypeOK, WorkerOK
<1>5. ASSUME NEW m \in Machines, Reconcile(m) PROVE Attached'
  <2>1. CASE UNCHANGED worker
    <3>1. worker.step = "idle"
      BY <1>5 DEF Reconcile
    <3>2. QED BY <2>1, <3>1 DEF Attached
  <2>2. CASE ~UNCHANGED worker
    <3>1. worker'.step \in {"deleteFind", "register"} /\ worker'.work = worker'.snap
      BY <1>5, <2>2 DEF Reconcile, Idle
    <3>2. QED BY <3>1, QuietAttached
  <2>3. QED BY <2>1, <2>2
<1>6. ASSUME AddFinalizer PROVE Attached'
  <2>1. /\ worker'.step \in {"prepare", "close"} /\ worker'.snap = worker.snap
        /\ worker'.work = [worker.work EXCEPT !.fin = TRUE]
    BY <1>1, <1>6 DEF AddFinalizer, WorkerState
  <2>2. worker'.work.ready = worker.work.ready
    BY <1>1, <2>1 DEF Object
  <2>3. worker'.work.ready = worker'.snap.ready
    BY <1>2, <1>6, <2>1, <2>2 DEF AddFinalizer
  <2>4. QED BY <2>1, <2>3, QuietAttached, ClosesAttached
<1>7. ASSUME Prepare \/ CreateServer \/ Detach \/ DeleteFind \/ DeleteServer
      PROVE  Attached'
  <2>1. worker.step \notin {"idle", "close"}
    BY <1>7 DEF Prepare, CreateServer, Detach, DeleteFind, DeleteServer
  <2>2. /\ worker'.step \in {"find", "panic", "deleteServer", "detach", "close"}
        /\ worker'.snap = worker.snap /\ worker'.work.ready = worker.work.ready
    BY <1>3, <1>7, GotoFacts, LeaveFacts, LetGoFacts, GotoWithFacts
       DEF Prepare, CreateServer, Detach, DeleteFind, DeleteServer, ServersOf
  <2>3. QED BY <1>2, <2>1, <2>2, QuietAttached, ClosesAttached
<1>8. ASSUME FindServer PROVE Attached'
  <2>1. worker.work.ready = worker.snap.ready
    BY <1>2, <1>8 DEF FindServer
  <2>2. CASE Leave(TRUE)
    BY <2>1, <2>2, LeaveFacts, ClosesAttached
  <2>3. CASE Goto("create")
    BY <1>3, <2>1, <2>3, GotoFacts, QuietAttached
  <2>4. ASSUME NEW s \in Servers, GotoWith("attach", s) PROVE Attached'
    BY <1>3, <2>1, <2>4, GotoWithFacts, QuietAttached
  <2>5. ASSUME NEW s \in Servers, MarkReady(s), worker.m \notin ControlPlanes
        PROVE  Attached'
    BY <2>5, MarkReadyFacts DEF Attached
  <2>6. QED BY <1>8, <2>2, <2>3, <2>4, <2>5 DEF FindServer, ServersOf
<1>9. ASSUME AttachToLoadBalancer PROVE Attached'
  <2>1. worker.work.ready = worker.snap.ready
    BY <1>2, <1>9 DEF AttachToLoadBalancer
  <2>2. CASE Leave(TRUE)
    BY <2>1, <2>2, LeaveFacts, ClosesAttached
  <2>3. CASE Goto("panic")
    BY <1>3, <2>1, <2>3, GotoFacts, QuietAttached
  <2>4. CASE GotoHealth /\ (Unreachable(lb) \/ worker.server \in targets')
    <3>1. worker'.step = "health" /\ worker'.lb = lb /\ worker'.server = worker.server
          /\ worker'.work = worker.work /\ worker'.snap = worker.snap
      BY <2>4, GotoHealthFacts
    <3>2. Served(worker.server)'
      BY <2>4, <3>1 DEF Served, Unreachable
    <3>3. QED BY <2>1, <3>1, <3>2 DEF Attached, Served
  <2>5. QED BY <1>9, <2>2, <2>3, <2>4 DEF AttachToLoadBalancer
<1>10. ASSUME CheckAddresses PROVE Attached'
  <2>1. worker.step = "health" /\ UNCHANGED <<power, targets>>
    BY <1>10 DEF CheckAddresses
  <2>2. CASE Leave(TRUE)
    BY <1>2, <2>1, <2>2, LeaveFacts, ClosesAttached
  <2>3. CASE MarkReady(worker.server)
    <3>1. Served(worker.server)
      BY <2>1 DEF Attached
    <3>2. worker'.step = "close" /\ worker'.work.pid = worker.server
      BY <1>1, <1>4, <2>1, <2>3, MarkReadyFacts
    <3>3. worker'.lb = worker.lb
      BY <1>1, <2>3 DEF MarkReady, WorkerState
    <3>4. lb' = lb
      BY <1>10 DEF CheckAddresses
    <3>5. \A s \in Servers : Served(s) => Served(s)'
      BY <2>1, <3>3, <3>4 DEF Served, Unreachable
    <3>6. QED BY <1>4, <2>1, <3>1, <3>2, <3>5 DEF Attached, Served
  <2>4. QED BY <1>10, <2>2, <2>3 DEF CheckAddresses
<1>11. ASSUME Close \/ Panic \/ Crash PROVE Attached'
  BY <1>11, IdleFacts, QuietAttached DEF Close, Panic, Crash, Restart
<1>12. ASSUME Environment \/ UNCHANGED vars PROVE Attached'
  <2>1. worker' = worker
    BY <1>12 DEF vars, Environment, Create, Delete, Watch, Resync, AdvancePhase,
       SetPaused, BuildImage, CreateVolume, JoinNetwork,
         RestoreLoadBalancer, BeginTeardown, LoseLoadBalancer, Boot, Serve, PowerOff,
       LoseServer
  <2>2. CASE worker.step \notin {"health", "close"}
    BY <1>2, <2>1, <2>2, QuietAttached
  <2>3. CASE worker.step = "health"
    <3>1. Served(worker.server)
      BY <2>3 DEF Attached
    <3>2. ASSUME NEW s \in Servers, Served(s) PROVE Served(s)'
      BY <2>1, <2>3, <3>2, TargetsStay
    <3>3. \A s \in Servers : Served(s) => Served(s)'
      BY <3>2
    <3>4. QED BY <1>2, <1>4, <2>1, <2>3, <3>1, <3>3 DEF Attached, Served
  <2>4. CASE worker.step = "close"
    <3>1. \A s \in Servers : Served(s) => Served(s)'
      BY <2>1, <2>4, TargetsStay
    <3>2. QED BY <2>1, <2>4, <3>1 DEF Attached, Served
  <2>5. QED BY <2>2, <2>3, <2>4
<1>13. QED
  BY <1>5, <1>6, <1>7, <1>8, <1>9, <1>10, <1>11, <1>12 DEF Next, WorkerStep

\* A control plane that becomes ready is a target of the load balancer that was
\* found for it, or its server is gone, or that load balancer was outside the
\* private network or is lost: no failure, retry, crash or stale read gets a
\* reconcile from findServer to Ready round the attachment.
THEOREM ReadyMeansTarget == Spec => ReadyMeansAttached
<1>1. Init => Drained /\ Attached /\ Remembered
  BY DEF Init, Drained, Attached, Remembered, Idle, NoLoadBalancer
<1>2. /\ TypeOK /\ Drained /\ Attached /\ Remembered /\ [Next]_vars => Attached'
      /\ TypeOK /\ Remembered /\ [Next]_vars => Remembered'
  BY StepAttached, StepRemembered
<1>3. ASSUME TypeOK, Attached, [Next]_vars, NEW m \in ControlPlanes,
             ~obj[m].ready, obj'[m].ready
      PROVE  Served(worker.work.pid)
  <2>1. CASE AddFinalizer \/ Close \/ Panic
    <3>1. /\ m = worker.m
          /\ worker.work.ready /\ ~worker.snap.ready
      BY <1>3, <2>1, WorkerPatches DEF PatchOf
    <3>2. worker.step = "close"
      BY <1>3, <2>1, <3>1 DEF Attached, AddFinalizer, Close, Panic
    <3>3. QED BY <1>3, <3>1, <3>2 DEF Attached
  <2>2. CASE obj' = obj
    BY <1>3, <2>2
  <2>3. ASSUME NEW n \in Machines, Create(n) \/ Delete(n) PROVE FALSE
    <3>1. obj'[n].ready \in {obj[n].ready, FALSE}
      BY <1>3, <2>3, UserFacts
    <3>2. \A k \in Machines : k # n => obj'[k] = obj[k]
      BY <1>3, <2>3, UserFacts
    <3>3. QED BY <1>3, <2>3, <3>1, <3>2
  <2>4. QED
    BY <1>3, <2>1, <2>2, <2>3 DEF Next, WorkerStep, vars, Reconcile, Prepare,
       FindServer, CreateServer, AttachToLoadBalancer, CheckAddresses, DeleteFind,
       Detach, DeleteServer, Crash, Environment, Watch, Resync, AdvancePhase,
       SetPaused, BuildImage, CreateVolume, JoinNetwork,
         RestoreLoadBalancer, BeginTeardown, LoseLoadBalancer, Boot, Serve, PowerOff,
       LoseServer
<1>4. TypeOK /\ Attached /\ [Next]_vars =>
        [\A m \in ControlPlanes :
           ~obj[m].ready /\ obj'[m].ready
           => Served(worker.work.pid)]_vars
  BY <1>3
<1>5. QED
  BY <1>1, <1>2, <1>4, StepDrained, TypeCorrect, PTL
     DEF Spec, ReadyMeansAttached

-----------------------------------------------------------------------------
(* A provider id stays with its server.                                    *)

\* How a step changes the labels and the requested creates: a server comes to a
\* machine, or its create stays on its way, only for an id that is not in use.
LEMMA ServersIdentified ==
  ASSUME TypeOK, [Next]_vars, NEW s \in Servers
  PROVE  /\ owner'[s] \in {owner[s], NoMachine} \/ Unused(s)
         /\ power'[s] = "requested" => power[s] = "requested" \/ Unused(s)
         /\ ~CreateServer /\ ~Crash =>
              /\ owner'[s] \in {owner[s], NoMachine}
              /\ power'[s] = "requested" => power[s] = "requested"
<1> USE DEF cluster, cloud
<1>1. CASE CreateServer \/ Crash
  BY <1>1 DEF CreateServer, Crash, TypeOK
<1>2. CASE DeleteServer
  BY <1>2 DEF DeleteServer, Remove, TypeOK
<1>3. CASE UNCHANGED <<owner, power>>
  BY <1>3
<1>4. ASSUME NEW t \in Servers, Boot(t) \/ Serve(t) \/ PowerOff(t) \/ LoseServer(t)
      PROVE  /\ owner'[s] \in {owner[s], NoMachine}
             /\ power'[s] = "requested" => power[s] = "requested"
  BY <1>4 DEF Boot, Serve, PowerOff, LoseServer, Remove, TypeOK
<1>5. CASE Environment
  BY <1>3, <1>4, <1>5 DEF Environment, Create, Delete, Watch, Resync,
     AdvancePhase, SetPaused, BuildImage, CreateVolume, JoinNetwork,
         RestoreLoadBalancer, BeginTeardown, LoseLoadBalancer
<1>6. CASE UNCHANGED vars
  BY <1>3, <1>6 DEF vars
<1>7. CASE Next /\ ~Environment /\ ~CreateServer /\ ~Crash /\ ~DeleteServer
  BY <1>3, <1>7 DEF Next, WorkerStep, Reconcile, AddFinalizer, Prepare, FindServer,
     AttachToLoadBalancer, CheckAddresses, DeleteFind, Detach, Close, Panic
<1>8. QED BY <1>1, <1>2, <1>5, <1>6, <1>7

\* How a step changes an object's provider id: the end of a reconcile writes
\* the one it has found, users and the last finalizer take it with the object.
LEMMA PidSteps ==
  ASSUME TypeOK, Identified, [Next]_vars, NEW m \in Machines
  PROVE  /\ \/ obj'[m].pid = obj[m].pid
            \/ obj'[m].pid = NoServer /\ (obj'[m].life = "absent" \/ obj[m].life = "absent")
            \/ /\ Close /\ m = worker.m /\ obj'[m].pid = worker.work.pid
               /\ worker.work.pid # worker.snap.pid
         /\ obj'[m].life = "absent" => obj'[m].pid = NoServer
<1>1. obj[m].life = "absent" => obj[m].pid = NoServer
  BY DEF Identified
<1>2. CASE AddFinalizer \/ Close \/ Panic
  <2>1. CASE obj'[m] = obj[m]
    BY <1>1, <2>1
  <2>2. CASE obj'[m] # obj[m]
    <3>1. m = worker.m
      BY <1>2, <2>2, WorkerPatches
    <3>2. PICK to \in Object : /\ to.pid = worker.work.pid
                               /\ PatchOf(obj[m], worker.snap, to, obj'[m])
      BY <1>2, <2>2, <3>1, WorkerPatches
    <3>3. ~Close => worker.work.pid = worker.snap.pid
      BY <1>2 DEF Identified, AddFinalizer, Panic
    <3>4. QED BY <3>1, <3>2, <3>3 DEF PatchOf
  <2>3. QED BY <2>1, <2>2
<1>3. CASE obj' = obj
  BY <1>1, <1>3
<1>4. ASSUME NEW n \in Machines, Create(n) \/ Delete(n)
      PROVE  /\ \/ obj'[m].pid = obj[m].pid
                \/ obj'[m].pid = NoServer /\ (obj'[m].life = "absent" \/ obj[m].life = "absent")
             /\ obj'[m].life = "absent" => obj'[m].pid = NoServer
  <2>1. CASE n = m
    BY <1>4, <2>1, UserFacts
  <2>2. CASE n # m
    <3>1. obj'[m] = obj[m]
      BY <1>4, <2>2, UserFacts
    <3>2. QED BY <1>1, <3>1
  <2>3. QED BY <2>1, <2>2
<1>5. QED
  BY <1>2, <1>3, <1>4 DEF Next, WorkerStep, vars, Reconcile, Prepare,
     FindServer, CreateServer, AttachToLoadBalancer, CheckAddresses, DeleteFind,
     Detach, DeleteServer, Crash, Environment, Watch, Resync, AdvancePhase,
     SetPaused, BuildImage, CreateVolume, JoinNetwork,
         RestoreLoadBalancer, BeginTeardown, LoseLoadBalancer, Boot, Serve, PowerOff,
     LoseServer

\* The first part of the invariant: what an object names is listed.
LEMMA ObjectsIdentified ==
  ASSUME TypeOK, Identified, [Next]_vars,
         NEW m \in Machines, NEW s \in Servers, obj'[m].pid = s, owner'[s] = m
  PROVE  power'[s] # "requested"
<1>0. m # NoMachine /\ s # NoServer
  OBVIOUS
<1>1. CASE obj[m].pid = s
  <2>1. owner[s] = m => power[s] # "requested"
    BY <1>1 DEF Identified
  <2>2. ~Unused(s)
    BY <1>1 DEF Unused
  <2>3. QED BY <1>0, <2>1, <2>2, ServersIdentified
<1>2. CASE obj[m].pid # s
  <2>1. /\ Close /\ m = worker.m /\ s = worker.work.pid
        /\ worker.work.pid # worker.snap.pid
    BY <1>0, <1>2, PidSteps
  <2>2. UNCHANGED <<owner, power>>
    BY <2>1 DEF Close, cloud
  <2>3. ToWrite(s)
    BY <2>1 DEF ToWrite, Close
  <2>4. QED BY <2>1, <2>2, <2>3 DEF Identified
<1>3. QED BY <1>1, <1>2

\* A step after which the reconcile in flight is not about to write an id.
WritesNothing == \A s \in Servers : ~ToWrite(s)'

\* In memory, nothing but its end changes the provider id.
KeepsPid ==
  /\ worker'.step \notin {"idle", "close"} => worker'.work.pid = worker'.snap.pid
  /\ worker'.step = "close" => worker'.work.pid \in Servers \cup {worker'.snap.pid}

LEMMA QuietIdentified ==
  ASSUME \/ worker'.step \notin {"attach", "health", "close"}
         \/ worker'.step = "close" /\ worker'.work.pid = worker'.snap.pid
  PROVE  WritesNothing
  BY DEF WritesNothing, ToWrite

\* What a reconcile in flight is about to write stays listed, and the only id.
LEMMA WritesSame ==
  ASSUME TypeOK, Identified, [Next]_vars, ~CreateServer, ~Crash, ~Close,
         worker'.m = worker.m, worker.m \in Machines,
         \A s \in Servers : ToWrite(s)' => ToWrite(s)
  PROVE  \A s, t \in Servers :
           /\ ToWrite(s)' /\ owner'[s] = worker'.m => power'[s] # "requested"
           /\ ToWrite(s)' /\ obj'[worker'.m].pid = t /\ owner'[t] = worker'.m => s = t
<1>1. \A t \in Servers : obj'[worker.m].pid = t => obj[worker.m].pid = t
  BY PidSteps
<1>2. \A s \in Servers : /\ owner'[s] = worker.m => owner[s] = worker.m
                         /\ power'[s] = "requested" => power[s] = "requested"
  BY ServersIdentified
<1>3. QED BY <1>1, <1>2 DEF Identified

\* The worker takes up the server that findServer lists.
LEMMA FindIdentified ==
  ASSUME TypeOK, Identified, FindServer
  PROVE  /\ KeepsPid
         /\ \A s, t \in Servers :
              /\ ToWrite(s)' /\ owner'[s] = worker'.m => power'[s] # "requested"
              /\ ToWrite(s)' /\ obj'[worker'.m].pid = t /\ owner'[t] = worker'.m => s = t
<1>1. {"create", "attach"} \subseteq Steps /\ worker.m \in Machines
  BY DEF Steps, FindServer, TypeOK, WorkerOK
<1>2. worker.work.pid = worker.snap.pid /\ UNCHANGED <<obj, owner, power>>
  BY DEF FindServer, Identified, cloud
<1>3. CASE Leave(TRUE)
  BY <1>2, <1>3, LeaveFacts, QuietIdentified DEF KeepsPid, WritesNothing
<1>4. CASE Goto("create")
  BY <1>1, <1>2, <1>4, GotoFacts, QuietIdentified DEF KeepsPid, WritesNothing
<1>5. ASSUME NEW s \in Servers, ServersOf(worker.m) = {s},
             GotoWith("attach", s) \/ MarkReady(s)
      PROVE  /\ KeepsPid
             /\ \A x, t \in Servers :
                  /\ ToWrite(x)' /\ owner'[x] = worker'.m => power'[x] # "requested"
                  /\ ToWrite(x)' /\ obj'[worker'.m].pid = t /\ owner'[t] = worker'.m => x = t
  <2>1. worker'.m = worker.m /\ KeepsPid /\ \A x \in Servers : ToWrite(x)' => x = s
    <3>1. CASE GotoWith("attach", s)
      BY <1>1, <1>2, <1>5, <3>1, GotoWithFacts DEF KeepsPid, ToWrite
    <3>2. CASE MarkReady(s)
      BY <1>5, <3>2, MarkReadyFacts DEF KeepsPid, ToWrite
    <3>3. QED BY <1>5, <3>1, <3>2
  <2>2. power[s] # "requested"
    BY <1>5 DEF ServersOf
  <2>3. ASSUME NEW t \in Servers, obj[worker.m].pid = t, owner[t] = worker.m
        PROVE  t = s
    <3>1. power[t] # "requested"
      BY <1>1, <2>3 DEF Identified
    <3>2. t \in ServersOf(worker.m)
      BY <2>3, <3>1 DEF ServersOf
    <3>3. QED BY <1>5, <3>2
  <2>4. QED BY <1>2, <2>1, <2>2, <2>3
<1>6. QED BY <1>3, <1>4, <1>5 DEF FindServer, ServersOf

LEMMA WorkerIdentified ==
  ASSUME TypeOK, Identified, [Next]_vars
  PROVE  /\ KeepsPid
         /\ \A s, t \in Servers :
              /\ ToWrite(s)' /\ owner'[s] = worker'.m => power'[s] # "requested"
              /\ ToWrite(s)' /\ obj'[worker'.m].pid = t /\ owner'[t] = worker'.m => s = t
<1> USE DEF cluster, cloud
<1>1. worker \in WorkerState /\ worker.work \in Object
  BY DEF TypeOK, WorkerOK, WorkerState
<1>2. /\ worker.step \notin {"idle", "close"} => worker.work.pid = worker.snap.pid
      /\ worker.step = "close" => worker.work.pid \in Servers \cup {worker.snap.pid}
  BY DEF Identified
<1>3. {"find", "close", "health", "detach", "deleteServer", "panic"} \subseteq Steps
  BY DEF Steps
<1>4. ASSUME KeepsPid, WritesNothing
      PROVE  /\ KeepsPid
             /\ \A s, t \in Servers :
                  /\ ToWrite(s)' /\ owner'[s] = worker'.m => power'[s] # "requested"
                  /\ ToWrite(s)' /\ obj'[worker'.m].pid = t /\ owner'[t] = worker'.m => s = t
  BY <1>4 DEF WritesNothing
<1>5. ASSUME NEW m \in Machines, Reconcile(m) PROVE KeepsPid /\ WritesNothing
  BY <1>5, QuietIdentified DEF Reconcile, Idle, KeepsPid
<1>6. ASSUME AddFinalizer PROVE KeepsPid /\ WritesNothing
  <2>1. /\ worker'.step \in {"prepare", "close"} /\ worker'.snap = worker.snap
        /\ worker'.work = [worker.work EXCEPT !.fin = TRUE]
    BY <1>1, <1>6 DEF AddFinalizer, WorkerState
  <2>2. worker'.work.pid = worker.work.pid
    BY <1>1, <2>1 DEF Object
  <2>3. worker'.work.pid = worker'.snap.pid
    BY <1>2, <1>6, <2>1, <2>2 DEF AddFinalizer
  <2>4. QED BY <2>1, <2>3, QuietIdentified DEF KeepsPid
<1>7. ASSUME Prepare \/ CreateServer \/ Detach \/ DeleteFind \/ DeleteServer
      PROVE  KeepsPid /\ WritesNothing
  <2>1. worker.step \notin {"idle", "close"}
    BY <1>7 DEF Prepare, CreateServer, Detach, DeleteFind, DeleteServer
  <2>2. /\ worker'.step \in {"find", "panic", "deleteServer", "detach", "close"}
        /\ worker'.snap = worker.snap /\ worker'.work.pid = worker.work.pid
    BY <1>3, <1>7, GotoFacts, LeaveFacts, LetGoFacts, GotoWithFacts
       DEF Prepare, CreateServer, Detach, DeleteFind, DeleteServer, ServersOf
  <2>3. QED BY <1>2, <2>1, <2>2, QuietIdentified DEF KeepsPid
<1>8. ASSUME Close \/ Panic \/ Crash PROVE KeepsPid /\ WritesNothing
  BY <1>8, IdleFacts, QuietIdentified DEF Close, Panic, Crash, Restart, KeepsPid
<1>9. CASE AttachToLoadBalancer \/ CheckAddresses
  <2>1. worker.step \in {"attach", "health"} /\ worker.server \in Servers
         /\ worker.m \in Machines
    BY <1>9 DEF AttachToLoadBalancer, CheckAddresses, TypeOK, WorkerOK
  <2>2. \/ Leave(TRUE) \/ Goto("panic") \/ GotoHealth \/ MarkReady(worker.server)
    BY <1>9 DEF AttachToLoadBalancer, CheckAddresses
  <2>3. /\ worker'.m = worker.m /\ KeepsPid
        /\ \A s \in Servers : ToWrite(s)' => ToWrite(s)
    <3>1. CASE Leave(TRUE)
      BY <1>2, <2>1, <3>1, LeaveFacts DEF KeepsPid, ToWrite
    <3>2. CASE Goto("panic") \/ GotoHealth
      BY <1>2, <1>3, <2>1, <3>2, GotoFacts, GotoHealthFacts DEF KeepsPid, ToWrite
    <3>3. CASE MarkReady(worker.server)
      BY <2>1, <3>3, MarkReadyFacts DEF KeepsPid, ToWrite
    <3>4. QED BY <2>2, <3>1, <3>2, <3>3
  <2>4. ~CreateServer /\ ~Crash /\ ~Close
    BY <2>1, <2>2, <1>3, IdleFacts, LeaveFacts, GotoFacts, GotoHealthFacts,
       MarkReadyFacts DEF CreateServer, Crash, Close, Restart
  <2>5. QED BY <2>1, <2>3, <2>4, WritesSame
<1>10. CASE Environment \/ UNCHANGED vars
  <2>1. worker' = worker
    BY <1>10 DEF vars, Environment, Create, Delete, Watch, Resync, AdvancePhase,
       SetPaused, BuildImage, CreateVolume, JoinNetwork,
         RestoreLoadBalancer, BeginTeardown, LoseLoadBalancer, Boot, Serve, PowerOff,
       LoseServer
  <2>2. CASE worker.step \notin {"attach", "health", "close"}
    BY <1>2, <1>4, <2>1, <2>2, QuietIdentified DEF KeepsPid
  <2>3. CASE worker.step \in {"attach", "health", "close"}
    <3>1. worker.m \in Machines
      BY <2>3 DEF TypeOK, WorkerOK
    <3>2. ~CreateServer /\ ~Crash /\ ~Close
      BY <2>1, <2>3, IdleFacts DEF CreateServer, Crash, Close, Restart
    <3>3. KeepsPid /\ \A s \in Servers : ToWrite(s)' => ToWrite(s)
      BY <1>2, <2>1 DEF KeepsPid, ToWrite
    <3>4. QED BY <2>1, <3>1, <3>2, <3>3, WritesSame
  <2>4. QED BY <2>2, <2>3
<1>11. QED
  BY <1>4, <1>5, <1>6, <1>7, <1>8, <1>9, <1>10, FindIdentified DEF Next, WorkerStep

LEMMA StepIdentified ==
  ASSUME TypeOK, Identified, [Next]_vars
  PROVE  Identified'
<1>1. \A m \in Machines : obj'[m].life = "absent" => obj'[m].pid = NoServer
  BY PidSteps
<1>2. \A m \in Machines : \A s \in Servers :
        obj'[m].pid = s /\ owner'[s] = m => power'[s] # "requested"
  BY ObjectsIdentified
<1>3. QED BY <1>1, <1>2, WorkerIdentified DEF Identified, KeepsPid

\* A provider id is never moved to another server while the first one is there,
\* even when a create that is executed late gives the machine a second server.
THEOREM ProviderIDStays == Spec => ProviderIDKept
<1>1. Init => Identified
  <2>1. Absent.pid = NoServer
    BY DEF Absent
  <2>2. Idle.step = "idle"
    BY DEF Idle
  <2>3. QED BY <2>1, <2>2 DEF Init, Identified, ToWrite
<1>2. TypeOK /\ Identified /\ [Next]_vars => Identified'
  BY StepIdentified
<1>3. ASSUME TypeOK, Identified, [Next]_vars, NEW m \in Machines,
             obj[m].pid # NoServer, obj'[m].life # "absent",
             obj'[m].pid # obj[m].pid
      PROVE  owner[obj[m].pid] # m
  <2>1. obj[m].pid \in Servers /\ obj[m].life # "absent"
    BY <1>3 DEF TypeOK, Object, Identified
  <2>2. /\ Close /\ m = worker.m /\ obj'[m].pid = worker.work.pid
        /\ worker.work.pid # worker.snap.pid
    BY <1>3, <2>1, PidSteps
  <2>3. worker.work.pid \in Servers
    BY <1>3, <2>2 DEF Identified, Close
  <2>4. ToWrite(worker.work.pid)
    BY <2>2 DEF ToWrite, Close
  <2>5. QED BY <1>3, <2>1, <2>2, <2>3, <2>4 DEF Identified
<1>4. TypeOK /\ Identified /\ [Next]_vars =>
        [\A m \in Machines :
           /\ obj[m].pid # NoServer /\ obj'[m].life # "absent"
           /\ obj'[m].pid # obj[m].pid
           => owner[obj[m].pid] # m]_vars
  BY <1>3
<1>5. QED BY <1>1, <1>2, <1>4, TypeCorrect, PTL DEF Spec, ProviderIDKept

-----------------------------------------------------------------------------
(* The controller implements OwnedResource.                                *)

\* While no create is on its way, the machines with a resource are those whose
\* name is in the labels of a server.
LEMMA ServedFacts ==
  ASSUME IInv, [Next]_vars, IInv'
  PROVE  /\ served = {m \in Machines : \E s \in Servers : owner[s] = m}
         /\ served' = {m \in Machines : \E s \in Servers : owner'[s] = m}
<1>1. /\ \A s \in Servers : power[s] # "requested"
      /\ \A s \in Servers : power'[s] # "requested"
  BY DEF IInv
<1>2. served' = {m \in Machines : {s \in Servers : owner'[s] = m /\ power'[s] # "requested"} # {}}
  BY DEF served, ServersOf
<1>3. QED BY <1>1, <1>2 DEF served, ServersOf

\* A step that changes no object's life or finalizer, and no labels, is none
\* of OwnedResource.
LEMMA Stutters ==
  ASSUME IInv, [Next]_vars, IInv',
         \A m \in Machines : obj'[m].life = obj[m].life /\ obj'[m].fin = obj[m].fin,
         owner' = owner
  PROVE  UNCHANGED Abstract!vars
<1>1. lifeOf' = lifeOf /\ held' = held
  BY DEF lifeOf, held
<1>2. served' = served
  BY ServedFacts
<1>3. QED BY <1>1, <1>2 DEF Abstract!vars

\* One object's life or finalizer changes.
LEMMA OneObject ==
  ASSUME TypeOK, NEW m \in Machines,
         \A n \in Machines : n # m => obj'[n] = obj[n]
  PROVE  /\ lifeOf' = [lifeOf EXCEPT ![m] = obj'[m].life]
         /\ obj'[m].fin => held' = held \cup {m}
         /\ ~obj'[m].fin => held' = held \ {m}
  BY DEF lifeOf, held

\* The end of a server is Release.
LEMMA RemoveReleases ==
  ASSUME TypeOK, IInv, [Next]_vars, IInv', obj' = obj,
         NEW s \in Servers, owner' = [owner EXCEPT ![s] = NoMachine]
  PROVE  [Abstract!Next]_(Abstract!vars)
<1>1. lifeOf' = lifeOf /\ held' = held
  BY DEF lifeOf, held
<1>2. CASE owner[s] = NoMachine
  <2>1. owner' = owner
    BY <1>2 DEF TypeOK
  <2>2. QED BY <2>1, Stutters
<1>3. CASE owner[s] # NoMachine
  <2>1. owner[s] \in Machines
    BY <1>3 DEF TypeOK
  <2>2. /\ \A t \in Servers : owner[t] = owner[s] => t = s
        /\ \A t \in Servers : owner'[t] = IF t = s THEN NoMachine ELSE owner[t]
    BY <1>3 DEF IInv, OneServerPerMachine, TypeOK
  <2>3. served' = served \ {owner[s]}
    BY <2>1, <2>2, ServedFacts
  <2>4. Abstract!Release(owner[s])
    BY <1>1, <2>3 DEF Abstract!Release
  <2>5. QED BY <2>1, <2>4 DEF Abstract!Next
<1>4. QED BY <1>2, <1>3

\* A patch takes hold of the object, lets it go, or changes neither.
LEMMA PatchMaps ==
  ASSUME TypeOK, IInv, [Next]_vars, IInv', AddFinalizer \/ Close \/ Panic
  PROVE  [Abstract!Next]_(Abstract!vars)
<1> DEFINE m == worker.m
           from == worker.snap
           to == IF worker.step = "register" THEN [worker.work EXCEPT !.fin = TRUE]
                                             ELSE worker.work
<1>1. worker.step \in {"register", "close", "panic"}
  BY DEF AddFinalizer, Close, Panic
<1>2. m \in Machines /\ from \in Object /\ worker.work \in Object /\ to \in Object
  BY <1>1 DEF TypeOK, WorkerOK, WorkerState, Object
<1>3. PatchDone(m, from, to) \/ PatchNotFound(m, from, to) \/ PatchFails(m, from, to)
  <2>1. CASE AddFinalizer
    <3>1. to = [worker.work EXCEPT !.fin = TRUE]
      BY <2>1 DEF AddFinalizer
    <3>2. QED BY <2>1, <3>1 DEF AddFinalizer
  <2>2. CASE Close
    <3>1. to = worker.work
      BY <2>2 DEF Close
    <3>2. QED BY <2>2, <3>1 DEF Close
  <2>3. CASE Panic
    <3>1. to = worker.work
      BY <2>3 DEF Panic
    <3>2. QED BY <2>3, <3>1 DEF Panic
  <2>4. QED BY <2>1, <2>2, <2>3
<1>4. UNCHANGED <<owner, power>>
  BY DEF AddFinalizer, Close, Panic, cloud
<1>5. /\ \A n \in Machines : n # m => obj'[n] = obj[n]
      /\ obj[m].fin /\ ~obj'[m].fin => from.fin /\ ~to.fin
      /\ \/ obj'[m].life = obj[m].life
         \/ obj[m].life = "deleting" /\ obj'[m].life = "absent" /\ ~obj'[m].fin
      /\ Consistent(obj'[m])
  <2>1. Held
    BY DEF IInv
  <2> HIDE DEF m, from, to
  <2>2. QED BY <1>2, <1>3, <2>1, PatchFacts
<1>6. Consistent(obj[m]) /\ obj[m] \in Object /\ obj' \in [Machines -> Object]
  <2>1. Consistent(obj[m]) /\ obj[m] \in Object
    BY <1>2 DEF IInv, Held, Consistent, TypeOK
  <2> HIDE DEF m, from, to
  <2>2. QED BY <1>2, <1>3, <2>1, PatchType
<1>7. from.fin /\ ~to.fin => \A s \in Servers : owner[s] # m
  <2>1. from.life \in {"live", "deleting"}
    BY <1>1 DEF IInv
  <2>2. CASE from.life = "live"
    BY <1>1, <1>2, <2>2 DEF IInv, NormalSafe, Object
  <2>3. CASE from.life = "deleting"
    BY <1>1, <2>3 DEF IInv, DeleteSafe, DeleteSteps
  <2>4. QED BY <2>1, <2>2, <2>3
<1>8. from.fin /\ ~to.fin => ~(obj[m].life = "live" /\ obj[m].fin)
  <2>1. from.life \in {"live", "deleting"}
    BY <1>1 DEF IInv
  <2>2. CASE from.life = "live"
    BY <1>1, <1>2, <2>2 DEF IInv, NormalSafe, Object
  <2>3. CASE from.life = "deleting"
    BY <1>1, <2>3 DEF IInv, DeleteSafe, DeleteSteps
  <2>4. QED BY <2>1, <2>2, <2>3
<1> HIDE DEF m, from, to
<1>9. /\ lifeOf' = [lifeOf EXCEPT ![m] = obj'[m].life]
      /\ obj'[m].fin => held' = held \cup {m}
      /\ ~obj'[m].fin => held' = held \ {m}
  BY <1>2, <1>5, OneObject
<1>10. served' = served
  BY <1>4, ServedFacts
<1>11. obj[m].fin \in BOOLEAN /\ obj'[m].fin \in BOOLEAN /\ obj[m].life \in Lives
  BY <1>2, <1>6 DEF Object
<1>12. CASE obj[m].fin = obj'[m].fin
  <2>1. obj'[m].life = obj[m].life
    BY <1>5, <1>6, <1>11, <1>12 DEF Consistent
  <2>2. QED BY <1>4, <1>5, <1>12, <2>1, Stutters
<1>13. CASE ~obj[m].fin /\ obj'[m].fin
  <2>1. obj'[m].life = obj[m].life /\ obj[m].life # "absent"
    BY <1>5, <1>13 DEF Consistent
  <2>2. lifeOf' = lifeOf /\ lifeOf[m] # "absent"
    BY <1>2, <1>9, <2>1 DEF lifeOf
  <2>3. Abstract!Hold(m)
    BY <1>9, <1>10, <1>13, <2>2 DEF Abstract!Hold
  <2>4. QED BY <1>2, <2>3 DEF Abstract!Next
<1>14. CASE obj[m].fin /\ ~obj'[m].fin
  <2>1. obj[m].life = "deleting"
    BY <1>5, <1>6, <1>8, <1>11, <1>14 DEF Consistent, Lives
  <2>2. obj'[m].life = "absent"
    BY <1>5, <1>14, <2>1 DEF Consistent
  <2>3. m \notin served
    BY <1>5, <1>7, <1>14, ServedFacts
  <2>4. lifeOf[m] = "deleting"
    BY <1>2, <2>1 DEF lifeOf
  <2>5. Abstract!LetGo(m)
    BY <1>9, <1>10, <1>14, <2>2, <2>3, <2>4 DEF Abstract!LetGo
  <2>6. QED BY <1>2, <2>5 DEF Abstract!Next
<1>15. QED BY <1>11, <1>12, <1>13, <1>14

\* Users' steps are theirs.
LEMMA UserMaps ==
  ASSUME TypeOK, IInv, [Next]_vars, IInv',
         NEW m \in Machines, Create(m) \/ Delete(m)
  PROVE  [Abstract!Next]_(Abstract!vars)
<1>1. served' = served
  <2>1. owner' = owner
    BY DEF Create, Delete, cloud
  <2>2. QED BY <2>1, ServedFacts
<1>2. /\ lifeOf' = [lifeOf EXCEPT ![m] = obj'[m].life]
      /\ obj'[m].fin => held' = held \cup {m}
      /\ ~obj'[m].fin => held' = held \ {m}
  BY UserFacts, OneObject
<1>3. lifeOf[m] = obj[m].life /\ (m \in held <=> obj[m].fin)
  BY DEF lifeOf, held
<1>4. CASE Create(m)
  <2>1. obj[m].life = "absent" /\ obj'[m].life = "live" /\ ~obj'[m].fin /\ ~obj[m].fin
    BY <1>4 DEF Create, TypeOK, Fresh, Absent, IInv, Held
  <2>2. held' = held
    BY <1>2, <1>3, <2>1
  <2>3. Abstract!Create(m)
    BY <1>1, <1>2, <1>3, <2>1, <2>2 DEF Abstract!Create
  <2>4. QED BY <2>3 DEF Abstract!Next
<1>5. CASE Delete(m)
  <2> DEFINE marked == [obj[m] EXCEPT !.life = "deleting"]
  <2>1. /\ marked.life = "deleting" /\ marked.fin = obj[m].fin
        /\ obj[m].fin \in BOOLEAN /\ obj'[m] = Collected(marked) /\ obj[m].life = "live"
    BY <1>5 DEF Delete, TypeOK, Object
  <2> HIDE DEF marked
  <2>2. Absent.life = "absent" /\ Absent.fin = FALSE
    BY DEF Absent
  <2>3. /\ obj[m].fin => obj'[m].life = "deleting" /\ obj'[m].fin
        /\ ~obj[m].fin => obj'[m].life = "absent" /\ ~obj'[m].fin
    BY <2>1, <2>2 DEF Collected
  <2>4. held' = held
    BY <1>2, <1>3, <2>1, <2>3
  <2>5. obj'[m].life = IF m \in held THEN "deleting" ELSE "absent"
    BY <1>3, <2>1, <2>3
  <2>6. Abstract!Delete(m)
    BY <1>1, <1>2, <1>3, <2>1, <2>4, <2>5 DEF Abstract!Delete
  <2>7. QED BY <2>6 DEF Abstract!Next
<1>6. QED BY <1>4, <1>5

\* createServer acquires.
LEMMA CreateServerMaps ==
  ASSUME TypeOK, IInv, [Next]_vars, IInv', CreateServer
  PROVE  [Abstract!Next]_(Abstract!vars)
<1>1. /\ worker.m \in Machines /\ obj[worker.m].fin
      /\ \A s \in Servers : owner[s] # worker.m
  <2>1. worker.step = "create"
    BY DEF CreateServer
  <2>2. QED BY <2>1 DEF IInv, NormalSafe, DeleteSafe, DeleteSteps
<1>2. obj' = obj
  BY DEF CreateServer
<1>3. CASE owner' = owner
  BY <1>2, <1>3, Stutters
<1>4. ASSUME NEW s \in Servers, owner[s] = NoMachine,
             owner' = [owner EXCEPT ![s] = worker.m]
      PROVE  [Abstract!Next]_(Abstract!vars)
  <2>1. lifeOf' = lifeOf /\ held' = held /\ worker.m \in held
    BY <1>1, <1>2 DEF lifeOf, held
  <2>2. \A t \in Servers : owner'[t] = IF t = s THEN worker.m ELSE owner[t]
    BY <1>4 DEF TypeOK
  <2>3. worker.m \notin served
    BY <1>1, ServedFacts
  <2>4. served' = served \cup {worker.m}
    BY <1>1, <1>4, <2>2, ServedFacts
  <2>5. Abstract!Acquire(worker.m)
    BY <2>1, <2>3, <2>4 DEF Abstract!Acquire
  <2>6. QED BY <1>1, <2>5 DEF Abstract!Next
<1>5. QED BY <1>3, <1>4 DEF CreateServer, Unused

LEMMA StepMaps ==
  ASSUME LateCreates = FALSE, TypeOK, IInv, [Next]_vars, IInv'
  PROVE  [Abstract!Next]_(Abstract!vars)
<1> USE DEF cluster, cloud
<1>1. CASE obj' = obj /\ owner' = owner
  BY <1>1, Stutters
<1>2. CASE DeleteServer
  <2>1. worker.server \in Servers /\ obj' = obj
    BY <1>2 DEF DeleteServer, TypeOK, WorkerOK
  <2>2. CASE Remove(worker.server)
    BY <2>1, <2>2, RemoveReleases DEF Remove
  <2>3. QED BY <1>1, <1>2, <2>1, <2>2 DEF DeleteServer
<1>3. ASSUME NEW s \in Servers, LoseServer(s)
      PROVE  [Abstract!Next]_(Abstract!vars)
  BY <1>3, RemoveReleases DEF LoseServer, Remove
<1>4. CASE Environment
  BY <1>1, <1>3, <1>4, UserMaps DEF Environment, Watch, Resync, AdvancePhase,
     SetPaused, BuildImage, CreateVolume, JoinNetwork,
         RestoreLoadBalancer, BeginTeardown, LoseLoadBalancer, Boot, Serve, PowerOff
<1>5. CASE Crash
  BY <1>1, <1>5 DEF Crash
<1>6. CASE UNCHANGED vars
  BY <1>1, <1>6 DEF vars
<1>7. QED
  BY <1>1, <1>2, <1>4, <1>5, <1>6, PatchMaps, CreateServerMaps DEF Next, WorkerStep,
     Reconcile, Prepare, FindServer, AttachToLoadBalancer, CheckAddresses,
     DeleteFind, Detach

\* While no create is executed late, the machine controller, with all its calls,
\* retries, crashes and stale reads, does what OwnedResource says: it creates,
\* holds, acquires, releases and lets go, in that order.
THEOREM Implements ==
  ASSUME LateCreates = FALSE
  PROVE  Spec => KeepsPromise
<1>1. Init => Abstract!Init
  <2> SUFFICES ASSUME Init PROVE Abstract!Init
    OBVIOUS
  <2>1. \A m \in Machines : obj[m].life = "absent" /\ obj[m].fin = FALSE
    BY DEF Init, Absent
  <2>2. \A m \in Machines : ServersOf(m) = {}
    BY DEF Init, ServersOf
  <2>3. QED BY <2>1, <2>2 DEF Abstract!Init, lifeOf, held, served
<1>2. Init => IInv
  BY InitIInv
<1>3. TypeOK /\ IInv /\ [Next]_vars => IInv'
  BY StepIInv
<1>4. TypeOK /\ IInv /\ [Next]_vars => [Abstract!Next]_(Abstract!vars)
  BY <1>3, StepMaps
<1>5. QED
  BY <1>1, <1>2, <1>3, <1>4, TypeCorrect, PTL DEF Spec, KeepsPromise, Abstract!Spec

=============================================================================
