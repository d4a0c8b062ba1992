------------------------ MODULE TargetClusterManagers ------------------------
(***************************************************************************)
(* The target cluster managers of the HcloudCluster controller             *)
(* (controllers/hcloudcluster_controller.go): for every HcloudCluster a    *)
(* goroutine runs a second controller manager against the API of the       *)
(* target cluster.  A map, behind a lock, has the channel that stops each. *)
(*                                                                         *)
(* The worker of the controller and the goroutines share the map.  The     *)
(* goroutine reads its channel out of the map after the worker has let go  *)
(* of the lock, and without taking it.                                     *)
(***************************************************************************)
EXTENDS Naturals

CONSTANTS
  Clusters,     \* the keys: namespaced names of HcloudClusters
  Managers,     \* managers, and the channel made for each: at most so many live at once
  Recreate,     \* the names that are used again once their cluster is gone
  MaxFaults,    \* bound on failures, crashes and re-creations together
  None,         \* no entry in the map, and the nil channel
  Free, Worker  \* nobody, or the worker, holds the lock

ASSUME RecreateAssumption == Recreate \subseteq Clusters
ASSUME MaxFaultsAssumption == MaxFaults \in Nat
ASSUME NamesAssumption == /\ {None, Free, Worker} \cap Managers = {}
                          /\ Free # Worker

VARIABLES
  cluster,  \* cluster[k]: what is in the API under the name k
  worker,   \* the reconcile in flight
  lock,     \* who holds targetClusterManagersLock
  stopCh,   \* targetClusterManagersStopCh
  closed,   \* the channels that are closed
  manager,  \* manager[i]: the goroutine of manager i
  faults

vars == <<cluster, worker, lock, stopCh, closed, manager, faults>>

\* "new" has no finalizer yet, "held" has it, "deleting" has it and a
\* deletionTimestamp.
Lives == {"absent", "new", "held", "deleting"}

WorkerSteps == {"idle", "enter", "create", "stop", "close"}
WorkerState == [step : WorkerSteps, k : Clusters \cup {None}, deleted : BOOLEAN]
Idle == [step |-> "idle", k |-> None, deleted |-> FALSE]

\* spawned: the goroutine has been started and has not read the map;
\* exiting: Start has returned; cleaning: it holds the lock to delete the key.
States == {"none", "spawned", "running", "exiting", "cleaning"}
\* csr: the GuestCSR controller has been added to it.
ManagerState == [state : States, k : Clusters \cup {None},
                 ch : Managers \cup {None}, csr : BOOLEAN]
NoManager == [state |-> "none", k |-> None, ch |-> None, csr |-> FALSE]

Init ==
  /\ cluster = [k \in Clusters |-> "new"]
  /\ worker = Idle
  /\ lock = Free
  /\ stopCh = [k \in Clusters |-> None]
  /\ closed = {}
  /\ manager = [i \in Managers |-> NoManager]
  /\ faults = 0

Fault == faults < MaxFaults /\ faults' = faults + 1
NoFault == UNCHANGED faults

TypeOK ==
  /\ cluster \in [Clusters -> Lives]
  /\ worker \in WorkerState /\ (worker.step # "idle" => worker.k \in Clusters)
  /\ lock \in {Free, Worker} \cup Managers
  /\ stopCh \in [Clusters -> Managers \cup {None}]
  /\ closed \subseteq Managers
  /\ manager \in [Managers -> ManagerState]
  /\ \A i \in Managers : manager[i].state # "none" => manager[i].k \in Clusters
  /\ faults \in 0 .. MaxFaults

-----------------------------------------------------------------------------
(* The worker.                                                             *)

\* A reconcile has read the object.  It comes to reconcileTargetClusterManager
\* first thing in reconcileDelete and last in reconcileNormal, which may return
\* before: with an error of the location, the network, the load balancer or the
\* manifests, or for want of a ready API server.  (Without an owner, or paused,
\* a reconcile returns before it has a scope to close, and does nothing.)
Reconcile(k) ==
  /\ worker.step = "idle" /\ cluster[k] # "absent"
  /\ \E step \in {"enter"} \cup (IF cluster[k] = "deleting" THEN {} ELSE {"close"}) :
       worker' = [step |-> step, k |-> k, deleted |-> cluster[k] = "deleting"]
  /\ UNCHANGED <<cluster, lock, stopCh, closed, manager, faults>>

\* Take the lock and look the key up; with nothing to do, let go of it again.
Enter ==
  /\ worker.step = "enter" /\ lock = Free
  /\ \/ /\ stopCh[worker.k] = None /\ ~worker.deleted
        /\ lock' = Worker /\ worker' = [worker EXCEPT !.step = "create"]
     \/ /\ stopCh[worker.k] # None /\ worker.deleted
        /\ lock' = Worker /\ worker' = [worker EXCEPT !.step = "stop"]
     \/ /\ (stopCh[worker.k] = None) = worker.deleted
        /\ worker' = [worker EXCEPT !.step = "close"] /\ UNCHANGED lock
  /\ UNCHANGED <<cluster, stopCh, closed, manager, faults>>

\* A manager, and a channel, that nothing refers to.
Unused(i) ==
  /\ manager[i].state = "none"
  /\ \A k \in Clusters : stopCh[k] # i
  /\ \A j \in Managers : manager[j].ch # i

\* Mutant: the channel is not put into the map.
CreateUnregistered ==
  /\ worker.step = "create"
  /\ lock' = Free /\ worker' = [worker EXCEPT !.step = "close"]
  /\ \E i \in Managers :
       /\ Unused(i) /\ NoFault
       /\ manager' = [manager EXCEPT ![i] = [NoManager EXCEPT !.state = "spawned", !.k = worker.k]]
       /\ closed' = closed \ {i}
  /\ UNCHANGED <<cluster, stopCh>>

\* newTargetClusterManager fails, or the channel is put into the map and the
\* goroutine started.  When the set-up of the controller fails, the error is
\* dropped and the manager is started without it.
CreateManager ==
  /\ worker.step = "create"
  /\ lock' = Free /\ worker' = [worker EXCEPT !.step = "close"]
  /\ \/ Fault /\ UNCHANGED <<stopCh, closed, manager>>
     \/ /\ \A i \in Managers : ~Unused(i)
        /\ NoFault /\ UNCHANGED <<stopCh, closed, manager>>
     \/ \E i \in Managers, csr \in BOOLEAN :
          /\ Unused(i) /\ IF csr THEN NoFault ELSE Fault
          /\ stopCh' = [stopCh EXCEPT ![worker.k] = i]
          /\ closed' = closed \ {i}
          /\ manager' = [manager EXCEPT ![i] =
               [state |-> "spawned", k |-> worker.k, ch |-> None, csr |-> csr]]
  /\ UNCHANGED cluster

\* Mutant: the closed channel stays in the map.
StopKeepingEntry ==
  /\ worker.step = "stop"
  /\ closed' = closed \cup {stopCh[worker.k]}
  /\ lock' = Free /\ worker' = [worker EXCEPT !.step = "close"]
  /\ UNCHANGED <<cluster, stopCh, manager, faults>>

StopManager ==
  /\ worker.step = "stop"
  /\ closed' = closed \cup {stopCh[worker.k]}
  /\ stopCh' = [stopCh EXCEPT ![worker.k] = None]
  /\ lock' = Free /\ worker' = [worker EXCEPT !.step = "close"]
  /\ UNCHANGED <<cluster, manager, faults>>

\* The scope is closed: reconcileNormal's finalizer is persisted only here;
\* reconcileDelete gives it up once the rest of the teardown is done.
Close ==
  /\ worker.step = "close" /\ worker' = Idle
  /\ \/ /\ ~worker.deleted /\ cluster[worker.k] = "new"
        /\ cluster' = [cluster EXCEPT ![worker.k] = "held"] /\ NoFault
     \/ /\ worker.deleted /\ cluster[worker.k] = "deleting"
        /\ cluster' = [cluster EXCEPT ![worker.k] = "absent"] /\ NoFault
     \/ /\ cluster[worker.k] # "new" \/ worker.deleted
        /\ NoFault /\ UNCHANGED cluster
     \/ Fault /\ UNCHANGED cluster
  /\ UNCHANGED <<lock, stopCh, closed, manager>>

WorkerStep == Enter \/ CreateManager \/ StopManager \/ Close

-----------------------------------------------------------------------------
(* The goroutines.                                                         *)

\* The process ends and starts again: nothing it kept in memory survives.
Restart ==
  /\ worker' = Idle /\ lock' = Free
  /\ stopCh' = [k \in Clusters |-> None] /\ closed' = {}
  /\ manager' = [i \in Managers |-> NoManager]
  /\ UNCHANGED cluster

\* Start is called with whatever the map has for the key by now; a missing key
\* gives the nil channel.  The read is not under the lock: when it meets a write
\* of the map, the Go runtime may end the process.
ReadChannel(i) ==
  /\ manager[i].state = "spawned"
  /\ \/ /\ manager' = [manager EXCEPT ![i].state = "running",
                                      ![i].ch = stopCh[manager[i].k]]
        /\ NoFault /\ UNCHANGED <<cluster, worker, lock, stopCh, closed>>
     \/ /\ lock # Free
        /\ Fault /\ Restart

\* Start returns when its channel is closed (a nil channel never is), or with
\* an error.
Return(i) ==
  /\ manager[i].state = "running"
  /\ \/ manager[i].ch \in closed /\ NoFault
     \/ Fault
  /\ manager' = [manager EXCEPT ![i].state = "exiting"]
  /\ UNCHANGED <<cluster, worker, lock, stopCh, closed>>

Lock(i) ==
  /\ manager[i].state = "exiting" /\ lock = Free
  /\ lock' = i
  /\ manager' = [manager EXCEPT ![i].state = "cleaning"]
  /\ UNCHANGED <<cluster, worker, stopCh, closed, faults>>

\* Mutant: a goroutine that ended by itself leaves its key in the map.
CleanUpNothing(i) ==
  /\ manager[i].state = "cleaning"
  /\ lock' = Free
  /\ manager' = [manager EXCEPT ![i] = NoManager]
  /\ UNCHANGED <<cluster, worker, stopCh, closed, faults>>

\* The goroutine deletes the key it was started for, whosever entry that is.
CleanUp(i) ==
  /\ manager[i].state = "cleaning"
  /\ stopCh' = [stopCh EXCEPT ![manager[i].k] = None]
  /\ lock' = Free
  /\ manager' = [manager EXCEPT ![i] = NoManager]
  /\ UNCHANGED <<cluster, worker, closed, faults>>

GoroutineStep(i) == ReadChannel(i) \/ Lock(i) \/ CleanUp(i)

-----------------------------------------------------------------------------
(* Users and crashes.                                                      *)

CreateCluster(k) ==
  /\ k \in Recreate /\ cluster[k] = "absent" /\ Fault
  /\ cluster' = [cluster EXCEPT ![k] = "new"]
  /\ UNCHANGED <<worker, lock, stopCh, closed, manager>>

DeleteCluster(k) ==
  /\ cluster[k] \in {"new", "held"}
  /\ cluster' = [cluster EXCEPT ![k] = IF @ = "held" THEN "deleting" ELSE "absent"]
  /\ UNCHANGED <<worker, lock, stopCh, closed, manager, faults>>

Crash == Fault /\ Restart

Next ==
  \/ \E k \in Clusters : Reconcile(k) \/ CreateCluster(k) \/ DeleteCluster(k)
  \/ WorkerStep
  \/ \E i \in Managers : GoroutineStep(i) \/ Return(i)
  \/ Crash

Spec == Init /\ [][Next]_vars

\* Goroutines are scheduled, a mutex is handed on to whoever waits for it, and a
\* closed channel is noticed.  That reconciles come to the managers at all is
\* not assumed here: what needs it says so.
Fairness ==
  /\ WF_vars(CreateManager) /\ WF_vars(StopManager) /\ WF_vars(Close)
  /\ SF_vars(Enter)
  /\ \A i \in Managers :
       /\ WF_vars(ReadChannel(i)) /\ WF_vars(CleanUp(i)) /\ SF_vars(Lock(i))
       /\ WF_vars(Return(i) /\ manager[i].ch \in closed)

FairSpec == Spec /\ Fairness

-----------------------------------------------------------------------------
(* Properties.                                                             *)

\* close(stopCh) never meets a closed channel, which would panic: a channel in
\* the map is open, whoever deletes keys and whenever a name is used again.
RegisteredChannelOpen ==
  \A k \in Clusters : stopCh[k] \notin closed

\* The map speaks of goroutines that are there: an entry left by one that ended
\* would keep the cluster without a manager for good.
RegisteredManagerLives ==
  \A k \in Clusters : stopCh[k] # None =>
    manager[stopCh[k]].state # "none" /\ manager[stopCh[k]].k = k

\* One of two parties holds the lock, and only while it is about to write.
LockHeld ==
  /\ lock = Worker <=> worker.step \in {"create", "stop"}
  /\ \A i \in Managers : lock = i <=> manager[i].state = "cleaning"

\* Of a name that is not used again, the goroutines that have not been told to
\* stop are at most one: two would answer the same requests.
OneManagerPerCluster ==
  \A i, j \in Managers :
    /\ manager[i].state \in {"spawned", "running"} /\ i \notin closed
    /\ manager[j].state \in {"spawned", "running"} /\ j \notin closed
    /\ manager[i].k = manager[j].k /\ manager[i].k \notin Recreate
    => i = j

\* A manager that runs can be stopped: "stop targetClusterManager"
\* (hcloudcluster_controller.go:144) is what the deletion starts with.
RunningManagerCanBeStopped ==
  \A i \in Managers : manager[i].state = "running" => manager[i].ch # None

\* A reconcile of the cluster has come as far as its manager.
Reached(k) == worker.step = "enter" /\ worker.k = k /\ ~worker.deleted

\* A cluster that stays has its manager running in the end, whatever ended the
\* managers before; if, that is, its reconciles come to it again and again, as
\* those of a paused cluster or of one without a ready API server do not.
LiveClusterManaged ==
  \A k \in Clusters :
    []<>Reached(k) =>
      (cluster[k] = "held" ~>
         \/ cluster[k] # "held"
         \/ \E i \in Managers : stopCh[k] = i /\ manager[i].state = "running")

\* The inductive invariant: what the map holds, who holds the lock, and what a
\* worker in its critical section has seen.
IInv ==
  /\ RegisteredChannelOpen /\ RegisteredManagerLives /\ LockHeld
  /\ worker.step = "create" => stopCh[worker.k] = None
  /\ worker.step = "stop" => stopCh[worker.k] # None

\* Why there is one manager: a name that is not used again has no manager but
\* the registered one until it is deleted, and from then on none is made for it.
Ending(k) ==
  /\ cluster[k] \in {"deleting", "absent"}
  /\ worker.step # "idle" /\ worker.k = k => worker.deleted

Registered ==
  \A i \in Managers :
    manager[i].state # "none" /\ manager[i].k \notin Recreate =>
      \/ stopCh[manager[i].k] = i
      \/ stopCh[manager[i].k] = None /\ Ending(manager[i].k) /\ i \in closed

OneInv ==
  /\ Registered
  /\ worker.step = "create" => ~worker.deleted
  /\ worker.step = "stop" => worker.deleted
  /\ worker.step # "idle" /\ worker.deleted /\ worker.k \notin Recreate =>
       cluster[worker.k] \in {"deleting", "absent"}
=============================================================================
