------------------------------ MODULE HcloudVolume ------------------------------
(***************************************************************************)
(* The HcloudVolume controller (controllers/hcloudvolume_controller.go)    *)
(* and the volume service it calls (pkg/cloud/resources/volume/volume.go): *)
(* an object stands for a Hetzner volume, which is found by the labels of  *)
(* the cluster and the name of the object, made when there is none, and    *)
(* removed with the object if the reclaim policy is Delete.                *)
(*                                                                         *)
(* Unlike a machine's, the finalizer of a volume is only set in memory and *)
(* written, with everything else, by the Close that ends the reconcile.    *)
(***************************************************************************)
EXTENDS Naturals

CONSTANTS
  Volumes,     \* the names of HcloudVolume objects
  Ids,         \* volume ids: the volumes the project's quota allows at a time
  Asked,       \* Asked[v]: the size in the spec, in halves of a Gi; 0: none
  EarlyDelete, \* users delete an object before the finalizer is in the API
  MaxFaults,   \* bound on failed calls, crashes and interventions together
  NoVolume, NoId

ASSUME AskedAssumption == Asked \in [Volumes -> Nat]
ASSUME EarlyDeleteAssumption == EarlyDelete \in BOOLEAN
ASSUME MaxFaultsAssumption == MaxFaults \in Nat
ASSUME NoVolumeAssumption == NoVolume \notin Volumes
ASSUME NoIdAssumption == NoId \notin Ids

VARIABLES
  obj,     \* obj[v]: the object in the API server
  cache,   \* cache[v]: the object in the manager's informer cache
  terms,   \* terms[v]: the policies it has had since its deletion was requested
  queue,   \* the names waiting in the controller's work queue
  cluster, \* the Cluster and HcloudCluster the objects belong to
  owner,   \* owner[i]: the object in the name of volume i
  worker,  \* the reconcile in flight
  faults

vars == <<obj, cache, terms, queue, cluster, owner, worker, faults>>

-----------------------------------------------------------------------------
(* The data.                                                               *)

Policies == {"none", "Retain", "Delete"}

\* located: Hetzner has the location of the spec; vid: Status.VolumeID.
Object == [life : {"absent", "live", "deleting"}, fin : BOOLEAN, located : BOOLEAN,
           policy : Policies, vid : Ids \cup {NoId}]

Absent == [life |-> "absent", fin |-> FALSE, located |-> FALSE,
           policy |-> "none", vid |-> NoId]

\* snap is what the patch helper kept, work the object the code changes.
WorkerState == [step : {"idle", "locate", "list", "create", "deleteFind", "delete", "close"},
                v : Volumes \cup {NoVolume}, snap : Object, work : Object,
                id : Ids \cup {NoId}, requeue : BOOLEAN]

Idle == [step |-> "idle", v |-> NoVolume, snap |-> Absent, work |-> Absent,
         id |-> NoId, requeue |-> FALSE]

WorkerOK ==
  /\ worker \in WorkerState
  /\ worker.step # "idle" => worker.v \in Volumes /\ worker.snap.life # "absent"
  /\ worker.step = "delete" => worker.id \in Ids

TypeOK ==
  /\ obj \in [Volumes -> Object] /\ cache \in [Volumes -> Object]
  /\ terms \in [Volumes -> SUBSET Policies]
  /\ queue \subseteq Volumes
  /\ cluster \in {"coming", "there", "gone"}
  /\ owner \in [Ids -> Volumes \cup {NoVolume}]
  /\ WorkerOK
  /\ faults \in 0 .. MaxFaults

Init ==
  /\ obj = [v \in Volumes |-> Absent] /\ cache = obj
  /\ terms = [v \in Volumes |-> {}]
  /\ queue = {}
  /\ cluster = "coming"
  /\ owner = [i \in Ids |-> NoVolume]
  /\ worker = Idle
  /\ faults = 0

Fault == faults < MaxFaults /\ faults' = faults + 1
NoFault == UNCHANGED faults

\* Hetzner does not use an id twice; the model may, when nothing names it.
Unused(i) ==
  owner[i] = NoVolume /\ \A v \in Volumes : obj[v].vid # i /\ cache[v].vid # i

\* actualStatus: those with the cluster's label, and of those the first one
\* with the name.
VolumesOf(v) == {i \in Ids : owner[i] = v}

\* The size of the volume that is made: at least 10 Gi, then cut to whole Gi.
SizeOf(v) == (IF Asked[v] <= 20 THEN 20 ELSE Asked[v]) \div 2

-----------------------------------------------------------------------------
(* The API server, and the patch helper that writes to it.                 *)

Collected(o) == IF o.life = "deleting" /\ ~o.fin THEN Absent ELSE o

\* Metadata and spec go in one call, status in a second one; of each only what
\* differs between from and to.
SpecPatched(o, from, to) ==
  Collected([o EXCEPT !.fin = IF from.fin = to.fin THEN @ ELSE to.fin,
                      !.policy = IF from.policy = to.policy THEN @ ELSE to.policy])

StatusPatched(o, from, to) ==
  IF o.life = "absent" \/ from.vid = to.vid THEN o ELSE [o EXCEPT !.vid = to.vid]

Patched(o, from, to) == StatusPatched(SpecPatched(o, from, to), from, to)

PatchDone(v, from, to) ==
  /\ from = to \/ obj[v].life # "absent"
  /\ obj' = [obj EXCEPT ![v] = IF from = to THEN @ ELSE Patched(@, from, to)]
  /\ NoFault

PatchNotFound(v, from, to) ==
  /\ from # to /\ obj[v].life = "absent"
  /\ NoFault /\ UNCHANGED obj

PatchFails(v, from, to) ==
  /\ obj[v].life # "absent" /\ Fault
  /\ \E o \in {obj[v], SpecPatched(obj[v], from, to),
               StatusPatched(obj[v], from, to), Patched(obj[v], from, to)} :
       obj' = [obj EXCEPT ![v] = o]

\* What the API server has seen of the policy during a deletion; kept when the
\* object is gone, until the next one of the name is deleted.
Recorded(v) ==
  terms' = [terms EXCEPT ![v] =
    IF obj'[v].life # "deleting" THEN @
    ELSE (IF obj[v].life = "deleting" THEN @ ELSE {}) \cup {obj'[v].policy}]

-----------------------------------------------------------------------------
(* The worker.                                                             *)

Goto(step) == worker' = [worker EXCEPT !.step = step]
Leave(retry) == worker' = [worker EXCEPT !.step = "close", !.requeue = retry]
LetGo == worker' = [worker EXCEPT !.step = "close", !.work.fin = FALSE]
Found(i) == worker' = [worker EXCEPT !.step = "close", !.work.vid = i]

\* Without a cluster the name is dropped, also when the object is being
\* deleted: the controller watches nothing that would bring it back.
Reconcile(v) ==
  /\ worker.step = "idle" /\ v \in queue
  /\ \/ /\ cache[v].life = "absent" \/ cluster # "there"
        /\ queue' = queue \ {v}
        /\ NoFault /\ UNCHANGED worker
     \/ /\ cache[v].life # "absent"
        /\ Fault /\ UNCHANGED <<queue, worker>>
     \/ /\ cache[v].life # "absent" /\ cluster = "there"
        /\ queue' = queue \ {v}
        /\ worker' = [Idle EXCEPT
             !.step = IF cache[v].life = "deleting" THEN "deleteFind" ELSE "locate",
             !.v = v, !.snap = cache[v], !.work = cache[v]]
        /\ NoFault
  /\ UNCHANGED <<obj, cache, terms, cluster, owner>>

\* The finalizer, in memory, and the location.
Locate ==
  /\ worker.step = "locate"
  /\ LET work == [worker.work EXCEPT !.fin = TRUE] IN
       \/ /\ worker.work.located /\ NoFault
          /\ worker' = [worker EXCEPT !.step = "list", !.work = work]
       \/ /\ ~worker.work.located /\ NoFault
          /\ worker' = [worker EXCEPT !.step = "close", !.work = work, !.requeue = TRUE]
       \/ /\ Fault
          /\ worker' = [worker EXCEPT !.step = "close", !.work = work, !.requeue = TRUE]
  /\ UNCHANGED <<obj, cache, terms, queue, cluster, owner>>

\* Mutant: the volume is made without a look at those there are.
ReconcileVolumeByStatus ==
  /\ worker.step = "list" /\ NoFault
  /\ IF worker.work.vid = NoId THEN Goto("create") ELSE Leave(FALSE)
  /\ UNCHANGED <<obj, cache, terms, queue, cluster, owner>>

\* Mutant: the status is that of the answer to the create only.
ReconcileVolumeNoStatus ==
  /\ worker.step = "list" /\ NoFault
  /\ IF VolumesOf(worker.v) = {} THEN Goto("create") ELSE Leave(FALSE)
  /\ UNCHANGED <<obj, cache, terms, queue, cluster, owner>>

\* Reconcile of the service: the default policy, then the volume.
ReconcileVolume ==
  /\ worker.step = "list"
  /\ LET work == [worker.work EXCEPT !.policy = IF @ = "none" THEN "Retain" ELSE @]
         S == VolumesOf(worker.v)
     IN \/ /\ S = {} /\ NoFault
           /\ worker' = [worker EXCEPT !.step = "create", !.work = work]
        \/ /\ NoFault
           /\ \E i \in S :
                worker' = [worker EXCEPT !.step = "close", !.work = work, !.work.vid = i]
        \/ /\ Fault
           /\ worker' = [worker EXCEPT !.step = "close", !.work = work, !.requeue = TRUE]
  /\ UNCHANGED <<obj, cache, terms, queue, cluster, owner>>

\* The call can fail, or be executed and lose its answer.
CreateVolume ==
  /\ worker.step = "create"
  /\ \/ \E i \in Ids :
          /\ Unused(i) /\ owner' = [owner EXCEPT ![i] = worker.v]
          /\ \/ Found(i) /\ NoFault
             \/ Leave(TRUE) /\ Fault
     \/ Leave(TRUE) /\ Fault /\ UNCHANGED owner
     \/ (\A i \in Ids : ~Unused(i)) /\ Leave(TRUE) /\ NoFault /\ UNCHANGED owner
  /\ UNCHANGED <<obj, cache, terms, queue, cluster>>

\* Mutant: only an explicit Retain keeps the volume, and the object waits for
\* nothing else.
DeleteFindUnlessRetained ==
  /\ worker.step = "deleteFind" /\ NoFault
  /\ LET S == VolumesOf(worker.v) IN
       \/ S = {} /\ LetGo
       \/ S # {} /\ worker.work.policy = "Retain" /\ LetGo
       \/ /\ worker.work.policy # "Retain"
          /\ \E i \in S : worker' = [worker EXCEPT !.step = "delete", !.id = i]
  /\ UNCHANGED <<obj, cache, terms, queue, cluster, owner>>

\* Mutant: an object with a volume is not let go before the volume is gone.
DeleteFindHolding ==
  /\ worker.step = "deleteFind" /\ NoFault
  /\ LET S == VolumesOf(worker.v) IN
       \/ S = {} /\ LetGo
       \/ S # {} /\ worker.work.policy # "Delete" /\ Leave(TRUE)
       \/ /\ worker.work.policy = "Delete"
          /\ \E i \in S : worker' = [worker EXCEPT !.step = "delete", !.id = i]
  /\ UNCHANGED <<obj, cache, terms, queue, cluster, owner>>

\* Mutant: a failed list is taken for an empty one.
DeleteFindIgnoringErrors ==
  /\ worker.step = "deleteFind"
  /\ LET S == VolumesOf(worker.v) IN
       \/ S = {} /\ LetGo /\ NoFault
       \/ S # {} /\ worker.work.policy # "Delete" /\ LetGo /\ NoFault
       \/ /\ worker.work.policy = "Delete" /\ NoFault
          /\ \E i \in S : worker' = [worker EXCEPT !.step = "delete", !.id = i]
       \/ LetGo /\ Fault
  /\ UNCHANGED <<obj, cache, terms, queue, cluster, owner>>

\* reconcileDelete: without a volume, or with another policy than Delete, the
\* object is let go.
DeleteFind ==
  /\ worker.step = "deleteFind"
  /\ LET S == VolumesOf(worker.v) IN
       \/ S = {} /\ LetGo /\ NoFault
       \/ S # {} /\ worker.work.policy # "Delete" /\ LetGo /\ NoFault
       \/ /\ worker.work.policy = "Delete" /\ NoFault
          /\ \E i \in S : worker' = [worker EXCEPT !.step = "delete", !.id = i]
       \/ Leave(TRUE) /\ Fault
  /\ UNCHANGED <<obj, cache, terms, queue, cluster, owner>>

\* A volume that is gone is an error, and not found by the next reconcile.
DeleteVolume ==
  /\ worker.step = "delete"
  /\ \/ /\ owner[worker.id] # NoVolume
        /\ owner' = [owner EXCEPT ![worker.id] = NoVolume]
        /\ \/ LetGo /\ NoFault
           \/ Leave(TRUE) /\ Fault
     \/ owner[worker.id] = NoVolume /\ Leave(TRUE) /\ NoFault /\ UNCHANGED owner
     \/ Leave(TRUE) /\ Fault /\ UNCHANGED owner
  /\ UNCHANGED <<obj, cache, terms, queue, cluster>>

\* The deferred Close.
Close ==
  /\ worker.step = "close"
  /\ LET v == worker.v IN
       \/ /\ PatchDone(v, worker.snap, worker.work)
          /\ queue' = IF worker.requeue THEN queue \cup {v} ELSE queue
       \/ /\ PatchNotFound(v, worker.snap, worker.work)
             \/ PatchFails(v, worker.snap, worker.work)
          /\ queue' = queue \cup {v}
  /\ Recorded(worker.v)
  /\ worker' = Idle
  /\ UNCHANGED <<cache, cluster, owner>>

WorkerStep ==
  Locate \/ ReconcileVolume \/ CreateVolume \/ DeleteFind \/ DeleteVolume \/ Close

\* The manager dies and another takes over.
Crash ==
  /\ Fault
  /\ worker' = Idle /\ cache' = obj
  /\ queue' = {v \in Volumes : obj[v].life # "absent"}
  /\ UNCHANGED <<obj, terms, cluster, owner>>

-----------------------------------------------------------------------------
(* Users, the informer, the cluster, and Hetzner.                          *)

Create(v) ==
  /\ obj[v].life = "absent"
  /\ \E located \in BOOLEAN, p \in Policies :
       obj' = [obj EXCEPT ![v] = [Absent EXCEPT !.life = "live", !.located = located,
                                                !.policy = p]]
  /\ UNCHANGED <<cache, terms, queue, cluster, owner, worker, faults>>

\* No webhook guards the spec of a volume, nor does a deletion that has been
\* requested.
Edit(v) ==
  /\ obj[v].life # "absent"
  /\ \E p \in {"Retain", "Delete"} :
       obj' = [obj EXCEPT ![v].located = TRUE, ![v].policy = p]
  /\ Recorded(v)
  /\ UNCHANGED <<cache, queue, cluster, owner, worker, faults>>

Delete(v) ==
  /\ obj[v].life = "live" /\ (EarlyDelete \/ obj[v].fin)
  /\ obj' = [obj EXCEPT ![v] = Collected([@ EXCEPT !.life = "deleting"])]
  /\ Recorded(v)
  /\ UNCHANGED <<cache, queue, cluster, owner, worker, faults>>

Watch(v) ==
  /\ cache[v] # obj[v]
  /\ cache' = [cache EXCEPT ![v] = obj[v]]
  /\ queue' = queue \cup {v}
  /\ UNCHANGED <<obj, terms, cluster, owner, worker, faults>>

Resync(v) ==
  /\ cache[v].life # "absent" /\ v \notin queue
  /\ queue' = queue \cup {v}
  /\ UNCHANGED <<obj, cache, terms, cluster, owner, worker, faults>>

ClusterComes ==
  /\ cluster = "coming" /\ cluster' = "there"
  /\ UNCHANGED <<obj, cache, terms, queue, owner, worker, faults>>

\* The deletion of a cluster does not wait for its volumes.
ClusterGoes ==
  /\ cluster = "there" /\ cluster' = "gone"
  /\ UNCHANGED <<obj, cache, terms, queue, owner, worker, faults>>

\* Somebody removes a volume in the provider's console.
LoseVolume(i) ==
  /\ owner[i] # NoVolume /\ Fault
  /\ owner' = [owner EXCEPT ![i] = NoVolume]
  /\ UNCHANGED <<obj, cache, terms, queue, cluster, worker>>

Environment ==
  \/ \E v \in Volumes : Create(v) \/ Edit(v) \/ Delete(v) \/ Watch(v) \/ Resync(v)
  \/ ClusterComes \/ ClusterGoes
  \/ \E i \in Ids : LoseVolume(i)

Next ==
  \/ \E v \in Volumes : Reconcile(v)
  \/ WorkerStep \/ Crash \/ Environment

Spec == Init /\ [][Next]_vars

\* As for machines: one worker that goes on, a first-in first-out queue, an
\* informer that delivers and resyncs, and a cluster that comes.
Fairness ==
  /\ WF_vars(WorkerStep) /\ WF_vars(ClusterComes)
  /\ \A v \in Volumes : SF_vars(Reconcile(v)) /\ WF_vars(Watch(v)) /\ WF_vars(Resync(v))

FairSpec == Spec /\ Fairness

-----------------------------------------------------------------------------
(* Safety.                                                                 *)

\* An object has at most one volume: one whose create lost its answer, or that
\* was retained from an earlier object of the name, is found by its name before
\* another is made (volume.go:144).
OneVolumePerObject ==
  \A i, j \in Ids : owner[i] = owner[j] /\ owner[i] # NoVolume => i = j

\* The controller, not somebody else, removes volume i.
Removes(i) == owner[i] # NoVolume /\ owner'[i] = NoVolume /\ worker' # worker

\* "the volume will be left in its current phase ... The default policy is
\* Retain" (hcloudvolume_types.go:40): the controller removes the data of an
\* object only if Delete has been its policy while it was being deleted, however
\* old the object is that the controller works from; and, if the policy was not
\* changed meanwhile, only while it is being deleted.
DataKept ==
  [][\A i \in Ids : Removes(i) =>
       /\ "Delete" \in terms[owner[i]]
       /\ terms[owner[i]] = {"Delete"} => obj[owner[i]].life = "deleting"]_vars

\* What one would rather have: the data is removed only of an object that is
\* being deleted and has the policy Delete.  The policy that decides
\* (volume.go:101) is that of the cache when the reconcile began: one who says
\* Retain during the deletion may be too late, and the data of an object made
\* anew with Retain goes too.
LastWordKept ==
  [][\A i \in Ids : Removes(i) =>
       obj[owner[i]].life = "deleting" /\ obj[owner[i]].policy = "Delete"]_vars

\* "clean up Hcloud resources associated with HcloudVolume before removing it
\* from the apiserver" (hcloudvolume_types.go:24): an object that had the policy
\* Delete throughout its deletion goes after its volume, whatever calls failed or
\* lost their answer.
DeleteLeavesNothing ==
  [][\A v \in Volumes :
       /\ obj[v].life # "absent" /\ obj'[v].life = "absent" /\ obj[v].policy = "Delete"
       /\ obj[v].life = "deleting" => terms[v] = {"Delete"}
       => VolumesOf(v) = {}]_vars

\* "ensure retain policy is by default to retain" (volume.go:68): a default is
\* for an object without a policy, not for one that its user gave one meanwhile.
PolicyKept ==
  [][\A v \in Volumes :
       obj[v].policy # "none" /\ obj'[v].life # "absent" /\ worker' # worker
       => obj'[v].policy = obj[v].policy]_vars

\* "the minimum requested size of the volume" (hcloudvolume_types.go:50).
SizeIsMinimum ==
  \A i \in Ids : owner[i] # NoVolume => 2 * SizeOf(owner[i]) >= Asked[owner[i]]

\* The inductive invariant.  What is seen of a deletion, in the cache or by the
\* reconcile in flight, has a policy of that deletion.  It may be of an earlier
\* object of the name, but then the new object, if there is one, has no finalizer
\* yet, and there is no volume if the policy was Delete throughout.
Seen(o, now, policies, volumes) ==
  o.life = "deleting" =>
    /\ o.fin
    /\ now.life = "live" => ~now.fin
    /\ o.policy \in policies
    /\ policies = {"Delete"} => volumes = {} \/ now.life = "deleting"

View(v, o) == Seen(o, obj[v], terms[v], VolumesOf(v))

ObjectInv(v) ==
  /\ obj[v].life = "deleting" => obj[v].fin /\ obj[v].policy \in terms[v]
  /\ View(v, cache[v])

\* A reconcile of an object that lives adds the finalizer; meanwhile nobody else
\* can end a deletion.
NormalInv ==
  /\ worker.step \in {"locate", "list", "create", "close"}
  /\ cache[worker.v].life = "deleting" => obj[worker.v].life = "deleting"
  /\ worker.step # "locate" => worker.work.fin
  /\ worker.step = "create" => VolumesOf(worker.v) = {}

\* A reconcile of an object that is being deleted removes what the policy it has
\* read names, before the finalizer.
DeleteInv ==
  /\ worker.step \in {"deleteFind", "delete", "close"}
  /\ View(worker.v, worker.snap)
  /\ worker.work.policy = worker.snap.policy
  /\ worker.step # "close" => worker.work.fin
  /\ ~worker.work.fin /\ worker.snap.policy = "Delete" => VolumesOf(worker.v) = {}
  /\ worker.step = "delete" =>
       worker.snap.policy = "Delete" /\ owner[worker.id] \in {worker.v, NoVolume}

WorkerInv ==
  worker.step # "idle" =>
    /\ worker.snap.life = "live" => NormalInv
    /\ worker.snap.life = "deleting" => DeleteInv

IInv ==
  /\ OneVolumePerObject /\ WorkerInv
  /\ \A v \in Volumes : ObjectInv(v)

-----------------------------------------------------------------------------
(* Liveness, under FairSpec.                                               *)

Blocked == cluster = "gone"

\* A volume that is asked for comes, and its id is written to the object for
\* the machines that wait for it (server.go:173), unless the location does not
\* exist, the cluster goes, or the project's quota is used up.
VolumeComes ==
  \A v \in Volumes :
    obj[v].life = "live" ~>
      \/ obj[v].life # "live" \/ ~obj[v].located \/ Blocked
      \/ obj[v].vid # NoId /\ owner[obj[v].vid] = v
      \/ VolumesOf(v) = {} /\ \A i \in Ids : ~Unused(i)

\* An object whose deletion was requested goes, unless its cluster is gone:
\* the reconcile then returns before it comes to the finalizer.
DeletedVolumeGoes ==
  \A v \in Volumes : obj[v].life = "deleting" ~> obj[v].life = "absent" \/ Blocked
=============================================================================
