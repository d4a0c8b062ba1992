--------------------- MODULE TargetClusterManagersProofs ---------------------
(***************************************************************************)
(* What holds of the map of target cluster managers for any clusters,      *)
(* managers, faults and re-creations: a registered channel is open, and a  *)
(* registered manager is there.                                            *)
(***************************************************************************)
EXTENDS TargetClusterManagers, TLAPS

LEMMA FaultsType ==
  ASSUME faults \in 0 .. MaxFaults, Fault \/ NoFault
  PROVE  faults' \in 0 .. MaxFaults
  BY MaxFaultsAssumption DEF Fault, NoFault

LEMMA RestartType ==
  ASSUME TypeOK, Restart, faults' \in 0 .. MaxFaults
  PROVE  TypeOK'
  BY DEF TypeOK, Restart, Idle, WorkerState, WorkerSteps, NoManager, ManagerState, States

LEMMA InitType == Init => TypeOK
  BY MaxFaultsAssumption
     DEF Init, TypeOK, Idle, WorkerState, WorkerSteps, NoManager, ManagerState, States, Lives

\* The type needs the inductive invariant: what StopManager closes is a channel
\* because the key it looked up cannot be deleted while it has the lock.
LEMMA StepType ==
  ASSUME TypeOK, IInv, [Next]_vars
  PROVE  TypeOK'
<1>1. faults \in 0 .. MaxFaults
  BY DEF TypeOK
<1>2. ASSUME NEW k \in Clusters, Reconcile(k) \/ CreateCluster(k) \/ DeleteCluster(k)
      PROVE  TypeOK'
  <2>1. faults' \in 0 .. MaxFaults
    BY <1>1, <1>2, FaultsType
       DEF Reconcile, CreateCluster, DeleteCluster, NoFault
  <2>2. CASE Reconcile(k)
    <3>1. PICK step \in {"enter", "close"} :
            worker' = [step |-> step, k |-> k, deleted |-> cluster[k] = "deleting"]
      BY <2>2 DEF Reconcile
    <3>2. QED
      BY <2>1, <2>2, <3>1 DEF TypeOK, Reconcile, WorkerState, WorkerSteps
  <2>3. CASE CreateCluster(k) \/ DeleteCluster(k)
    BY <2>1, <2>3 DEF TypeOK, CreateCluster, DeleteCluster, Lives
  <2>4. QED BY <1>2, <2>2, <2>3
<1>3. CASE Enter
  BY <1>3 DEF TypeOK, Enter, WorkerState, WorkerSteps
<1>4. CASE CreateManager
  <2>1. faults' \in 0 .. MaxFaults
    BY <1>1, <1>4, FaultsType DEF CreateManager
  <2>2. QED
    BY <1>4, <2>1 DEF TypeOK, CreateManager, WorkerState, WorkerSteps,
                      ManagerState, States
<1>5. CASE StopManager
  <2>1. worker.k \in Clusters
    BY <1>5 DEF StopManager, TypeOK
  <2>2. worker' \in WorkerState /\ worker'.k \in Clusters
    BY <1>5, <2>1 DEF TypeOK, StopManager, WorkerState, WorkerSteps
  <2>3. closed' \subseteq Managers
    BY <1>5, <2>1 DEF TypeOK, IInv, StopManager
  <2>4. QED
    BY <1>5, <2>2, <2>3 DEF TypeOK, StopManager
<1>6. CASE Close
  <2>1. faults' \in 0 .. MaxFaults
    BY <1>1, <1>6, FaultsType DEF Close
  <2>2. QED
    BY <1>6, <2>1 DEF TypeOK, Close, Idle, WorkerState, WorkerSteps, Lives
<1>7. ASSUME NEW i \in Managers, ReadChannel(i)
      PROVE  TypeOK'
  <2>1. faults' \in 0 .. MaxFaults
    BY <1>1, <1>7, FaultsType DEF ReadChannel
  <2>2. CASE Restart
    BY <2>1, <2>2, RestartType
  <2>3. CASE ~Restart
    BY <1>7, <2>1, <2>3 DEF TypeOK, ReadChannel, ManagerState, States
  <2>4. QED BY <2>2, <2>3
<1>8. ASSUME NEW i \in Managers, Return(i) \/ Lock(i) \/ CleanUp(i)
      PROVE  TypeOK'
  <2>1. faults' \in 0 .. MaxFaults
    BY <1>1, <1>8, FaultsType DEF Return, Lock, CleanUp, NoFault
  <2>2. NoManager \in ManagerState
    BY DEF NoManager, ManagerState, States
  <2>3. CASE Return(i) \/ Lock(i)
    BY <2>1, <2>3 DEF TypeOK, Return, Lock, ManagerState, States
  <2>4. CASE CleanUp(i)
    <3>1. manager' \in [Managers -> ManagerState] /\ manager'[i].state = "none"
      BY <2>2, <2>4 DEF TypeOK, CleanUp, NoManager
    <3>2. \A j \in Managers \ {i} : manager'[j] = manager[j]
      BY <2>4 DEF TypeOK, CleanUp
    <3>3. QED BY <2>1, <2>4, <3>1, <3>2 DEF TypeOK, CleanUp
  <2>5. QED BY <1>8, <2>3, <2>4
<1>9. CASE Crash
  BY <1>1, <1>9, FaultsType, RestartType DEF Crash
<1>10. CASE UNCHANGED vars
  BY <1>10 DEF TypeOK, vars
<1>11. QED
  BY <1>2, <1>3, <1>4, <1>5, <1>6, <1>7, <1>8, <1>9, <1>10
     DEF Next, WorkerStep, GoroutineStep

LEMMA InitIInv == Init => IInv
  BY NamesAssumption
     DEF Init, IInv, RegisteredChannelOpen, RegisteredManagerLives, LockHeld,
         Idle, NoManager

LEMMA RestartIInv ==
  ASSUME Restart
  PROVE  IInv'
  BY NamesAssumption
     DEF Restart, IInv, RegisteredChannelOpen, RegisteredManagerLives, LockHeld,
         Idle, NoManager

\* The steps of the worker, one critical section after the other.
LEMMA WorkerIInv ==
  ASSUME TypeOK, IInv, WorkerStep
  PROVE  IInv'
<1> USE NamesAssumption
<1>1. CASE Enter
  BY <1>1 DEF Enter, TypeOK, WorkerState, IInv, RegisteredChannelOpen,
              RegisteredManagerLives, LockHeld
<1>2. CASE CreateManager
  <2>1. /\ worker.k \in Clusters /\ lock = Worker
        /\ worker' = [worker EXCEPT !.step = "close"] /\ lock' = Free
        /\ worker'.step = "close"
    BY <1>2 DEF CreateManager, TypeOK, WorkerState, IInv, LockHeld
  <2>2. CASE UNCHANGED <<stopCh, closed, manager>>
    BY <2>1, <2>2 DEF IInv, RegisteredChannelOpen, RegisteredManagerLives, LockHeld
  <2>3. CASE ~UNCHANGED <<stopCh, closed, manager>>
    <3>1. PICK i \in Managers, csr \in BOOLEAN :
            /\ Unused(i)
            /\ stopCh' = [stopCh EXCEPT ![worker.k] = i]
            /\ closed' = closed \ {i}
            /\ manager' = [manager EXCEPT ![i] =
                 [state |-> "spawned", k |-> worker.k, ch |-> None, csr |-> csr]]
      BY <1>2, <2>3 DEF CreateManager
    <3>2. \A k \in Clusters : stopCh'[k] = IF k = worker.k THEN i ELSE stopCh[k]
      BY <2>1, <3>1 DEF TypeOK
    <3>3. \A j \in Managers :
            /\ j = i => manager'[j].state = "spawned" /\ manager'[j].k = worker.k
            /\ j # i => manager'[j] = manager[j]
      BY <3>1 DEF TypeOK
    <3>4. RegisteredChannelOpen'
      BY <3>1, <3>2 DEF IInv, RegisteredChannelOpen
    <3>5. RegisteredManagerLives'
      BY <3>1, <3>2, <3>3 DEF IInv, RegisteredManagerLives, Unused, TypeOK
    <3>6. LockHeld'
      BY <2>1, <3>1, <3>3 DEF IInv, LockHeld, Unused
    <3>7. QED BY <2>1, <3>4, <3>5, <3>6 DEF IInv
  <2>4. QED BY <2>2, <2>3
<1>3. CASE StopManager
  <2>1. /\ worker.k \in Clusters /\ worker'.step = "close"
        /\ stopCh[worker.k] # None /\ lock' = Free /\ lock = Worker
    BY <1>3 DEF StopManager, TypeOK, WorkerState, IInv, LockHeld
  <2>2. /\ stopCh' = [stopCh EXCEPT ![worker.k] = None]
        /\ closed' = closed \cup {stopCh[worker.k]}
        /\ UNCHANGED manager
    BY <1>3 DEF StopManager
  <2>3. RegisteredManagerLives'
    BY <2>1, <2>2 DEF IInv, RegisteredManagerLives, TypeOK
  <2>4. \A k \in Clusters \ {worker.k} : stopCh[k] # stopCh[worker.k] \/ stopCh[k] = None
    BY <2>1 DEF IInv, RegisteredManagerLives
  <2>5. RegisteredChannelOpen'
    BY <2>1, <2>2, <2>4 DEF IInv, RegisteredChannelOpen, TypeOK
  <2>6. LockHeld'
    BY <2>1, <2>2 DEF IInv, LockHeld
  <2>7. QED BY <2>1, <2>3, <2>5, <2>6 DEF IInv
<1>4. CASE Close
  BY <1>4 DEF Close, Idle, TypeOK, IInv, RegisteredChannelOpen,
              RegisteredManagerLives, LockHeld
<1>5. QED BY <1>1, <1>2, <1>3, <1>4 DEF WorkerStep

\* The steps of a goroutine.
LEMMA GoroutineIInv ==
  ASSUME TypeOK, IInv, NEW i \in Managers, GoroutineStep(i) \/ Return(i)
  PROVE  IInv'
<1> USE NamesAssumption
<1>1. CASE Restart
  BY <1>1, RestartIInv
<1>2. CASE (ReadChannel(i) /\ ~Restart) \/ Return(i)
  <2>1. /\ UNCHANGED <<worker, lock, stopCh, closed>>
        /\ manager[i].state \in {"spawned", "running"}
    BY <1>2 DEF ReadChannel, Return
  <2>2. \A j \in Managers :
          /\ manager'[j].k = manager[j].k
          /\ j # i => manager'[j] = manager[j]
          /\ j = i => manager'[j].state \in {"running", "exiting"}
    BY <1>2 DEF ReadChannel, Return, TypeOK, ManagerState
  <2>3. QED
    BY <2>1, <2>2 DEF IInv, RegisteredChannelOpen, RegisteredManagerLives, LockHeld,
                      TypeOK
<1>3. CASE Lock(i)
  <2>1. /\ UNCHANGED <<worker, stopCh, closed>>
        /\ lock = Free /\ lock' = i /\ manager[i].state = "exiting"
    BY <1>3 DEF Lock
  <2>2. \A j \in Managers :
          /\ manager'[j].k = manager[j].k
          /\ j # i => manager'[j] = manager[j]
          /\ j = i => manager'[j].state = "cleaning"
    BY <1>3 DEF Lock, TypeOK, ManagerState
  <2>3. LockHeld'
    BY <2>1, <2>2 DEF IInv, LockHeld
  <2>4. QED
    BY <2>1, <2>2, <2>3 DEF IInv, RegisteredChannelOpen, RegisteredManagerLives, TypeOK
<1>4. CASE CleanUp(i)
  <2>1. /\ UNCHANGED <<worker, closed>>
        /\ lock = i /\ lock' = Free /\ manager[i].k \in Clusters
        /\ stopCh' = [stopCh EXCEPT ![manager[i].k] = None]
        /\ manager' = [manager EXCEPT ![i] = NoManager]
        /\ worker.step \notin {"create", "stop"}
    BY <1>4 DEF CleanUp, TypeOK, IInv, LockHeld
  <2>2. LockHeld'
    BY <2>1 DEF IInv, LockHeld, NoManager, TypeOK
  <2>3. RegisteredChannelOpen'
    BY <2>1 DEF IInv, RegisteredChannelOpen, TypeOK
  <2>4. RegisteredManagerLives'
    BY <2>1 DEF IInv, RegisteredManagerLives, TypeOK
  <2>5. QED BY <2>1, <2>2, <2>3, <2>4 DEF IInv
<1>5. QED BY <1>1, <1>2, <1>3, <1>4 DEF GoroutineStep

LEMMA StepIInv ==
  ASSUME TypeOK, IInv, [Next]_vars
  PROVE  IInv'
<1>1. ASSUME NEW k \in Clusters, Reconcile(k) \/ CreateCluster(k) \/ DeleteCluster(k)
      PROVE  IInv'
  BY <1>1 DEF Reconcile, CreateCluster, DeleteCluster, IInv, RegisteredChannelOpen,
              RegisteredManagerLives, LockHeld
<1>2. CASE UNCHANGED vars
  BY <1>2 DEF vars, IInv, RegisteredChannelOpen, RegisteredManagerLives, LockHeld
<1>3. QED
  BY <1>1, <1>2, WorkerIInv, GoroutineIInv, RestartIInv DEF Next, Crash

LEMMA Invariance == Spec => [](TypeOK /\ IInv)
  BY InitType, InitIInv, StepType, StepIInv, PTL DEF Spec

\* Every variable keeps its type, and a reconcile and a goroutine in flight
\* have their cluster.
THEOREM TypeCorrect == Spec => []TypeOK
  BY Invariance, PTL

\* close() is never called on a closed channel, which would panic: not for any
\* number of clusters, and not when a name is used again and a goroutine of its
\* former bearer deletes the new bearer's key.
THEOREM NoDoubleClose == Spec => []RegisteredChannelOpen
<1>1. IInv => RegisteredChannelOpen
  BY DEF IInv
<1>2. QED BY <1>1, Invariance, PTL

\* No entry of the map outlives its goroutine.
THEOREM NoStaleEntry == Spec => []RegisteredManagerLives
<1>1. IInv => RegisteredManagerLives
  BY DEF IInv
<1>2. QED BY <1>1, Invariance, PTL

-----------------------------------------------------------------------------
(* One manager per cluster.                                                *)

LEMMA InitOneInv == Init => OneInv
  BY DEF Init, OneInv, Registered, Idle, NoManager

LEMMA RestartOneInv ==
  ASSUME Restart
  PROVE  OneInv'
  BY DEF Restart, OneInv, Registered, Idle, NoManager

\* Users, and a reconcile that begins.
LEMMA ClusterOneInv ==
  ASSUME TypeOK, OneInv, NEW k \in Clusters,
         Reconcile(k) \/ CreateCluster(k) \/ DeleteCluster(k)
  PROVE  OneInv'
<1>1. CASE Reconcile(k)
  <2>1. PICK step \in {"enter", "close"} :
          /\ worker' = [step |-> step, k |-> k, deleted |-> cluster[k] = "deleting"]
          /\ cluster[k] # "absent" /\ UNCHANGED <<cluster, stopCh, closed, manager>>
    BY <1>1 DEF Reconcile
  <2>2. \A c \in Clusters : Ending(c) => Ending(c)'
    BY <2>1 DEF Ending
  <2>3. Registered'
    BY <2>1, <2>2 DEF OneInv, Registered, TypeOK
  <2>4. QED
    BY <2>1, <2>3 DEF OneInv
<1>2. CASE CreateCluster(k) \/ DeleteCluster(k)
  <2>1. UNCHANGED <<worker, stopCh, closed, manager>>
    BY <1>2 DEF CreateCluster, DeleteCluster
  <2>2. \A c \in Clusters \ Recreate :
          cluster[c] \in {"deleting", "absent"} => cluster'[c] \in {"deleting", "absent"}
    BY <1>2 DEF CreateCluster, DeleteCluster, TypeOK
  <2>3. \A c \in Clusters \ Recreate : Ending(c) => Ending(c)'
    BY <2>1, <2>2 DEF Ending
  <2>4. Registered'
    BY <2>1, <2>3 DEF OneInv, Registered, TypeOK
  <2>5. QED
    BY <2>1, <2>2, <2>4 DEF OneInv, TypeOK
<1>3. QED BY <1>1, <1>2

\* A step that leaves the worker's name and the clusters alone ends no ending.
LEMMA EndingStays ==
  ASSUME NEW k \in Clusters, Ending(k), UNCHANGED cluster,
         worker'.step = "idle"
           \/ (worker.step # "idle" /\ worker'.k = worker.k /\ worker'.deleted = worker.deleted)
  PROVE  Ending(k)'
  BY DEF Ending

LEMMA WorkerOneInv ==
  ASSUME TypeOK, IInv, OneInv, WorkerStep
  PROVE  OneInv'
<1> USE NamesAssumption
<1>1. CASE Enter
  <2>1. /\ worker.step = "enter"
        /\ worker'.k = worker.k /\ worker'.deleted = worker.deleted
        /\ UNCHANGED <<cluster, stopCh, closed, manager>>
        /\ worker'.step = "create" => ~worker.deleted
        /\ worker'.step = "stop" => worker.deleted
    BY <1>1 DEF Enter, TypeOK, WorkerState
  <2>2. \A k \in Clusters : Ending(k) => Ending(k)'
    BY <2>1, EndingStays
  <2>3. Registered'
    BY <2>1, <2>2 DEF OneInv, Registered, TypeOK
  <2>4. QED
    BY <2>1, <2>3 DEF OneInv
<1>2. CASE CreateManager
  <2>1. /\ worker.step = "create" /\ worker.k \in Clusters
        /\ ~worker.deleted /\ stopCh[worker.k] = None
        /\ worker'.k = worker.k /\ worker'.deleted = worker.deleted
        /\ worker'.step = "close" /\ UNCHANGED cluster
    BY <1>2 DEF CreateManager, TypeOK, WorkerState, IInv, OneInv
  <2>2. \A k \in Clusters : Ending(k) => Ending(k)'
    BY <2>1, EndingStays
  <2>3. CASE UNCHANGED <<stopCh, closed, manager>>
    <3>1. Registered'
      BY <2>2, <2>3 DEF OneInv, Registered, TypeOK
    <3>2. QED
      BY <2>1, <3>1 DEF OneInv
  <2>4. CASE ~UNCHANGED <<stopCh, closed, manager>>
    <3>1. PICK i \in Managers, csr \in BOOLEAN :
            /\ Unused(i)
            /\ stopCh' = [stopCh EXCEPT ![worker.k] = i]
            /\ closed' = closed \ {i}
            /\ manager' = [manager EXCEPT ![i] =
                 [state |-> "spawned", k |-> worker.k, ch |-> None, csr |-> csr]]
      BY <1>2, <2>4 DEF CreateManager
    <3>2. \A k \in Clusters : stopCh'[k] = IF k = worker.k THEN i ELSE stopCh[k]
      BY <2>1, <3>1 DEF TypeOK
    <3>3. \A j \in Managers :
            /\ j = i => manager'[j].k = worker.k
            /\ j # i => manager'[j] = manager[j]
      BY <3>1 DEF TypeOK
    <3>4. ~Ending(worker.k)
      BY <2>1 DEF Ending
    <3>5. ASSUME NEW j \in Managers \ {i},
                 manager[j].state # "none", manager[j].k \notin Recreate
          PROVE  manager[j].k \in Clusters /\ manager[j].k # worker.k
      BY <2>1, <3>4, <3>5 DEF OneInv, Registered, TypeOK
    <3>6. Registered'
      BY <2>1, <2>2, <3>1, <3>2, <3>3, <3>5 DEF OneInv, Registered
    <3>7. QED
      BY <2>1, <3>6 DEF OneInv
  <2>5. QED BY <2>3, <2>4
<1>3. CASE StopManager
  <2>1. /\ worker.step = "stop" /\ worker.k \in Clusters /\ worker.deleted
        /\ stopCh[worker.k] # None
        /\ worker'.k = worker.k /\ worker'.deleted = worker.deleted
        /\ worker'.step = "close" /\ UNCHANGED <<cluster, manager>>
        /\ closed' = closed \cup {stopCh[worker.k]}
    BY <1>3 DEF StopManager, TypeOK, WorkerState, IInv, OneInv
  <2>2. \A k \in Clusters : stopCh'[k] = IF k = worker.k THEN None ELSE stopCh[k]
    BY <1>3, <2>1 DEF StopManager, TypeOK
  <2>3. \A k \in Clusters : Ending(k) => Ending(k)'
    BY <2>1, EndingStays
  <2>4. worker.k \notin Recreate => Ending(worker.k)
    BY <2>1 DEF Ending, OneInv
  <2>5. Registered'
    BY <2>1, <2>2, <2>3, <2>4 DEF OneInv, Registered, TypeOK
  <2>6. QED
    BY <2>1, <2>5 DEF OneInv
<1>4. CASE Close
  <2>1. /\ worker.step = "close" /\ worker.k \in Clusters
        /\ worker'.step = "idle" /\ UNCHANGED <<stopCh, closed, manager>>
    BY <1>4 DEF Close, Idle, TypeOK
  <2>2. \A k \in Clusters :
          cluster[k] \in {"deleting", "absent"} => cluster'[k] \in {"deleting", "absent"}
    BY <1>4, <2>1 DEF Close, TypeOK
  <2>3. \A k \in Clusters : Ending(k) => Ending(k)'
    BY <2>1, <2>2 DEF Ending
  <2>4. Registered'
    BY <2>1, <2>3 DEF OneInv, Registered, TypeOK
  <2>5. QED
    BY <2>1, <2>4 DEF OneInv
<1>5. QED BY <1>1, <1>2, <1>3, <1>4 DEF WorkerStep

\* A goroutine deletes its own entry or none: whoever else has its key has no
\* entry either.
LEMMA GoroutineOneInv ==
  ASSUME TypeOK, OneInv, NEW i \in Managers, GoroutineStep(i) \/ Return(i)
  PROVE  OneInv'
<1> USE NamesAssumption
<1>1. CASE Restart
  BY <1>1, RestartOneInv
<1>2. CASE (ReadChannel(i) /\ ~Restart) \/ Return(i) \/ Lock(i)
  <2>1. /\ UNCHANGED <<cluster, worker, stopCh, closed>>
        /\ manager[i].state # "none"
    BY <1>2 DEF ReadChannel, Return, Lock
  <2>2. \A j \in Managers :
          /\ manager'[j].k = manager[j].k
          /\ j # i => manager'[j] = manager[j]
    BY <1>2 DEF ReadChannel, Return, Lock, TypeOK, ManagerState
  <2>3. Registered'
    BY <2>1, <2>2 DEF OneInv, Registered, Ending
  <2>4. QED
    BY <2>1, <2>3 DEF OneInv
<1>3. CASE CleanUp(i)
  <2>1. /\ UNCHANGED <<cluster, worker, closed>>
        /\ manager[i].state # "none" /\ manager[i].k \in Clusters
        /\ manager' = [manager EXCEPT ![i] = NoManager]
    BY <1>3 DEF CleanUp, TypeOK
  <2>2. \A k \in Clusters : stopCh'[k] = IF k = manager[i].k THEN None ELSE stopCh[k]
    BY <1>3, <2>1 DEF CleanUp, TypeOK
  <2>3. ASSUME NEW j \in Managers \ {i}, manager[j].state # "none",
               manager[j].k \notin Recreate
        PROVE  /\ manager[j].k \in Clusters
               /\ manager[j].k = manager[i].k => stopCh[manager[j].k] # j
    BY <2>1, <2>3 DEF OneInv, Registered, TypeOK
  <2>4. Registered'
    BY <2>1, <2>2, <2>3 DEF OneInv, Registered, Ending, NoManager, TypeOK
  <2>5. QED
    BY <2>1, <2>4 DEF OneInv
<1>4. QED BY <1>1, <1>2, <1>3 DEF GoroutineStep

LEMMA StepOneInv ==
  ASSUME TypeOK, IInv, OneInv, [Next]_vars
  PROVE  OneInv'
<1>1. CASE UNCHANGED vars
  BY <1>1 DEF vars, OneInv, Registered, Ending
<1>2. QED
  BY <1>1, ClusterOneInv, WorkerOneInv, GoroutineOneInv, RestartOneInv DEF Next, Crash

\* For any clusters, managers, failures and crashes, two goroutines that nobody
\* has told to stop never serve the same cluster, unless its name is used again.
THEOREM OneManager == Spec => []OneManagerPerCluster
<1>1. OneInv /\ TypeOK => OneManagerPerCluster
  BY NamesAssumption DEF OneInv, Registered, OneManagerPerCluster, TypeOK
<1>2. QED
  BY <1>1, Invariance, InitOneInv, StepOneInv, PTL DEF Spec
=============================================================================
