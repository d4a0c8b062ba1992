-------------------------- MODULE HcloudVolumeProofs --------------------------
(***************************************************************************)
(* What holds of volumes for any objects, ids, sizes and faults: one       *)
(* volume per object, data that is removed by request only, and, for users *)
(* who wait for the finalizer, nothing left behind.                        *)
(***************************************************************************)
EXTENDS HcloudVolume, TLAPS

LEMMA FaultsType ==
  ASSUME faults \in 0 .. MaxFaults, Fault \/ NoFault
  PROVE  faults' \in 0 .. MaxFaults
  BY MaxFaultsAssumption DEF Fault, NoFault

LEMMA AbsentType == Absent \in Object
  BY DEF Absent, Object, Policies

LEMMA IdleType == Idle \in WorkerState
  BY AbsentType DEF Idle, WorkerState

LEMMA InitType == Init => TypeOK
  BY MaxFaultsAssumption, AbsentType, IdleType
     DEF Init, TypeOK, WorkerOK, Idle, Policies

-----------------------------------------------------------------------------
(* The patch helper.                                                       *)

\* What Close can make of an object.
Patches(v, from, to) ==
  {obj[v], SpecPatched(obj[v], from, to), StatusPatched(obj[v], from, to),
   Patched(obj[v], from, to)}

LEMMA CollectedType ==
  ASSUME NEW o \in Object
  PROVE  Collected(o) \in Object
  BY AbsentType DEF Collected

LEMMA SpecPatchedType ==
  ASSUME NEW o \in Object, NEW from \in Object, NEW to \in Object
  PROVE  SpecPatched(o, from, to) \in Object
<1> DEFINE p == [o EXCEPT !.fin = IF from.fin = to.fin THEN @ ELSE to.fin,
                          !.policy = IF from.policy = to.policy THEN @ ELSE to.policy]
<1>1. p \in Object
  BY DEF Object
<1> HIDE DEF p
<1>2. Collected(p) \in Object
  BY <1>1, CollectedType
<1>3. SpecPatched(o, from, to) = Collected(p)
  BY DEF SpecPatched, p
<1>4. QED BY <1>2, <1>3

LEMMA StatusPatchedType ==
  ASSUME NEW o \in Object, NEW from \in Object, NEW to \in Object
  PROVE  StatusPatched(o, from, to) \in Object
  BY DEF StatusPatched, Object

LEMMA PatchesType ==
  ASSUME NEW v \in Volumes, obj \in [Volumes -> Object],
         NEW from \in Object, NEW to \in Object
  PROVE  Patches(v, from, to) \subseteq Object
<1>1. obj[v] \in Object
  OBVIOUS
<1>2. /\ SpecPatched(obj[v], from, to) \in Object
      /\ StatusPatched(obj[v], from, to) \in Object
      /\ StatusPatched(SpecPatched(obj[v], from, to), from, to) \in Object
  BY <1>1, SpecPatchedType, StatusPatchedType
<1>3. QED
  BY <1>1, <1>2 DEF Patches, Patched

\* A patch changes what the reconcile changed; a finalizer it takes away is the
\* one way in which an object goes.
Outcome(o, from, to, p) ==
  /\ p.life \in {o.life, "absent"}
  /\ o.life # "absent" /\ p.life = "absent" =>
       o.life = "deleting" /\ (o.fin => from.fin /\ ~to.fin)
  /\ p.life # "absent" =>
       /\ p.fin = o.fin \/ (from.fin # to.fin /\ p.fin = to.fin)
       /\ p.policy = o.policy \/ (from.policy # to.policy /\ p.policy = to.policy)
  /\ p.life = "deleting" /\ o.fin => p.fin

LEMMA SpecOutcome ==
  ASSUME NEW o \in Object, NEW from \in Object, NEW to \in Object
  PROVE  Outcome(o, from, to, SpecPatched(o, from, to))
<1> DEFINE p == [o EXCEPT !.fin = IF from.fin = to.fin THEN @ ELSE to.fin,
                          !.policy = IF from.policy = to.policy THEN @ ELSE to.policy]
<1>1. /\ p.life = o.life
      /\ p.fin = IF from.fin = to.fin THEN o.fin ELSE to.fin
      /\ p.policy = IF from.policy = to.policy THEN o.policy ELSE to.policy
  BY DEF Object
<1>2. from.fin \in BOOLEAN /\ to.fin \in BOOLEAN /\ o.fin \in BOOLEAN
      /\ o.life \in {"absent", "live", "deleting"}
  BY DEF Object
<1>3. SpecPatched(o, from, to) = Collected(p)
  BY DEF SpecPatched
<1> HIDE DEF p
<1>4. Collected(p) = IF p.life = "deleting" /\ ~p.fin THEN Absent ELSE p
  BY DEF Collected
<1>5. Absent.life = "absent"
  BY DEF Absent
<1>6. QED
  BY <1>1, <1>2, <1>3, <1>4, <1>5 DEF Outcome

LEMMA StatusOutcome ==
  ASSUME NEW o \in Object, NEW from, NEW to
  PROVE  LET p == StatusPatched(o, from, to) IN
           p.life = o.life /\ p.fin = o.fin /\ p.policy = o.policy
  BY DEF StatusPatched, Object

LEMMA PatchOutcome ==
  ASSUME NEW v \in Volumes, obj \in [Volumes -> Object],
         NEW from \in Object, NEW to \in Object, NEW p \in Patches(v, from, to)
  PROVE  Outcome(obj[v], from, to, p)
<1> DEFINE o == obj[v]
<1>1. o \in Object /\ o.life \in {"absent", "live", "deleting"}
  BY DEF Object
<1> HIDE DEF o
<1>2. ASSUME p = o
      PROVE  Outcome(o, from, to, p)
  BY <1>1, <1>2 DEF Outcome
<1>3. ASSUME p = SpecPatched(o, from, to)
      PROVE  Outcome(o, from, to, p)
  BY <1>1, <1>3, SpecOutcome
<1>4. ASSUME p = StatusPatched(o, from, to)
      PROVE  Outcome(o, from, to, p)
  BY <1>1, <1>4, StatusOutcome DEF Outcome
<1>5. ASSUME p = Patched(o, from, to)
      PROVE  Outcome(o, from, to, p)
  <2> DEFINE q == SpecPatched(o, from, to)
  <2>1. q \in Object /\ Outcome(o, from, to, q)
    BY <1>1, SpecPatchedType, SpecOutcome
  <2>2. p = StatusPatched(q, from, to)
    BY <1>5 DEF Patched
  <2> HIDE DEF q
  <2>3. p.life = q.life /\ p.fin = q.fin /\ p.policy = q.policy
    BY <2>1, <2>2, StatusOutcome
  <2>4. QED
    BY <2>1, <2>3 DEF Outcome
<1>6. QED
  BY <1>2, <1>3, <1>4, <1>5 DEF Patches, o

\* The history keeps its type, and changes only where there is a deletion.
LEMMA TermsLater ==
  ASSUME TypeOK, NEW v \in Volumes, Recorded(v), obj' \in [Volumes -> Object]
  PROVE  /\ terms' \in [Volumes -> SUBSET Policies]
         /\ \A c \in Volumes \ {v} : terms'[c] = terms[c]
         /\ obj'[v].life # "deleting" => terms'[v] = terms[v]
         /\ obj'[v].life = "deleting" => obj'[v].policy \in terms'[v]
         /\ obj'[v].life = "deleting" /\ obj[v].life = "deleting" =>
              terms[v] \subseteq terms'[v]
<1> DEFINE now == IF obj'[v].life # "deleting" THEN terms[v]
                  ELSE (IF obj[v].life = "deleting" THEN terms[v] ELSE {})
                       \cup {obj'[v].policy}
<1>1. terms' = [terms EXCEPT ![v] = now] /\ terms \in [Volumes -> SUBSET Policies]
  BY DEF Recorded, TypeOK
<1>2. obj'[v].policy \in Policies
  BY DEF Object
<1>3. now \in SUBSET Policies
  BY <1>1, <1>2
<1>4. terms'[v] = now
  BY <1>1
<1>5. QED BY <1>1, <1>3, <1>4

LEMMA CloseResult ==
  ASSUME TypeOK, Close
  PROVE  /\ worker' = Idle /\ worker.step = "close"
         /\ UNCHANGED <<cache, cluster, owner>> /\ Recorded(worker.v)
         /\ worker.v \in Volumes /\ worker.snap \in Object /\ worker.work \in Object
         /\ queue' \subseteq Volumes
         /\ faults' \in 0 .. MaxFaults
         /\ \E p \in Patches(worker.v, worker.snap, worker.work) :
              obj' = [obj EXCEPT ![worker.v] = p]
<1> DEFINE v == worker.v
           s == worker.snap
           w == worker.work
<1>1. /\ worker' = Idle /\ worker.step = "close"
      /\ UNCHANGED <<cache, cluster, owner>> /\ Recorded(v)
      /\ PatchDone(v, s, w) \/ PatchNotFound(v, s, w) \/ PatchFails(v, s, w)
      /\ queue' \in {queue, queue \cup {v}}
  BY DEF Close
<1>2. v \in Volumes /\ s \in Object /\ w \in Object
  BY <1>1 DEF TypeOK, WorkerOK, WorkerState
<1> HIDE DEF v, s, w
<1>3. faults' \in 0 .. MaxFaults
  BY <1>1, FaultsType DEF TypeOK, PatchDone, PatchNotFound, PatchFails
<1>4. obj = [obj EXCEPT ![v] = obj[v]]
  BY DEF TypeOK
<1>5. ASSUME PatchDone(v, s, w)
      PROVE  \E p \in Patches(v, s, w) : obj' = [obj EXCEPT ![v] = p]
  BY <1>4, <1>5 DEF PatchDone, Patches
<1>6. ASSUME PatchNotFound(v, s, w)
      PROVE  \E p \in Patches(v, s, w) : obj' = [obj EXCEPT ![v] = p]
  BY <1>4, <1>6 DEF PatchNotFound, Patches
<1>7. ASSUME PatchFails(v, s, w)
      PROVE  \E p \in Patches(v, s, w) : obj' = [obj EXCEPT ![v] = p]
  BY <1>7 DEF PatchFails, Patches
<1>8. \E p \in Patches(v, s, w) : obj' = [obj EXCEPT ![v] = p]
  BY <1>1, <1>5, <1>6, <1>7
<1>9. QED
  BY <1>1, <1>2, <1>3, <1>8 DEF TypeOK, v, s, w
-----------------------------------------------------------------------------
(* Types.                                                                  *)

\* A step of the worker that keeps its object and writes to its copy of it.
LEMMA WorkerKept ==
  ASSUME worker \in WorkerState, worker.step # "idle", worker.v \in Volumes,
         worker.snap.life # "absent",
         worker' \in WorkerState, worker'.v = worker.v, worker'.snap = worker.snap,
         worker'.step # "delete" \/ worker'.id \in Ids
  PROVE  WorkerOK'
  BY DEF WorkerOK

\* The finalizer, the default policy, and the status.
LEMMA WorkTypes ==
  ASSUME worker \in WorkerState
  PROVE  /\ [worker.work EXCEPT !.fin = TRUE] \in Object
         /\ [worker.work EXCEPT !.fin = FALSE] \in Object
         /\ [worker.work EXCEPT !.policy = IF @ = "none" THEN "Retain" ELSE @] \in Object
         /\ \A w \in Object : \A i \in Ids : [w EXCEPT !.vid = i] \in Object
<1>1. worker.work \in Object
  BY DEF WorkerState
<1>2. QED BY <1>1 DEF Object, Policies

LEMMA LeaveType ==
  ASSUME WorkerOK, worker.step # "idle",
         LetGo \/ (\E i \in Ids : Found(i)) \/ Leave(TRUE) \/ Leave(FALSE)
  PROVE  WorkerOK'
<1>1. /\ worker \in WorkerState /\ worker.v \in Volumes /\ worker.snap.life # "absent"
      /\ worker.work \in Object
  BY DEF WorkerOK, WorkerState
<1>2. CASE LetGo
  <2>1. worker' = [worker EXCEPT !.step = "close", !.work = [worker.work EXCEPT !.fin = FALSE]]
    BY <1>1, <1>2 DEF LetGo, WorkerState, Object
  <2>2. QED
    BY <1>1, <2>1, WorkTypes, WorkerKept DEF WorkerState
<1>3. ASSUME NEW i \in Ids, Found(i)
      PROVE  WorkerOK'
  <2>1. worker' = [worker EXCEPT !.step = "close", !.work = [worker.work EXCEPT !.vid = i]]
    BY <1>1, <1>3 DEF Found, WorkerState, Object
  <2>2. QED
    BY <1>1, <2>1, WorkTypes, WorkerKept DEF WorkerState
<1>4. CASE Leave(TRUE) \/ Leave(FALSE)
  BY <1>1, <1>4, WorkerKept DEF Leave, WorkerState
<1>5. QED BY <1>2, <1>3, <1>4

LEMMA ReconcileType ==
  ASSUME TypeOK, NEW v \in Volumes, Reconcile(v)
  PROVE  TypeOK'
<1>1. faults' \in 0 .. MaxFaults
  BY FaultsType DEF Reconcile, TypeOK
<1>2. UNCHANGED <<obj, cache, terms, cluster, owner>> /\ queue' \subseteq Volumes
  BY DEF Reconcile, TypeOK
<1>3. CASE UNCHANGED worker
  BY <1>1, <1>2, <1>3 DEF TypeOK, WorkerOK
<1>4. CASE ~UNCHANGED worker
  <2>1. /\ worker' = [Idle EXCEPT
             !.step = IF cache[v].life = "deleting" THEN "deleteFind" ELSE "locate",
             !.v = v, !.snap = cache[v], !.work = cache[v]]
        /\ cache[v].life # "absent" /\ cache[v] \in Object
    BY <1>4 DEF Reconcile, TypeOK
  <2>2. Idle \in WorkerState /\ Idle.step = "idle"
    BY IdleType DEF Idle
  <2>3. worker' \in WorkerState /\ worker'.v = v /\ worker'.snap = cache[v]
        /\ worker'.step \in {"deleteFind", "locate"}
    BY <2>1, <2>2 DEF WorkerState
  <2>4. WorkerOK'
    BY <2>1, <2>3 DEF WorkerOK
  <2>5. QED
    BY <1>1, <1>2, <2>4 DEF TypeOK
<1>5. QED BY <1>3, <1>4

LEMMA NormalType ==
  ASSUME TypeOK, Locate \/ ReconcileVolume \/ CreateVolume
  PROVE  TypeOK'
<1>1. /\ faults \in 0 .. MaxFaults /\ WorkerOK /\ worker \in WorkerState
      /\ worker.step # "idle" /\ worker.v \in Volumes /\ worker.snap.life # "absent"
      /\ UNCHANGED <<obj, cache, terms, queue, cluster>>
  BY DEF TypeOK, WorkerOK, Locate, ReconcileVolume, CreateVolume
<1>2. CASE Locate
  <2>1. faults' \in 0 .. MaxFaults
    BY <1>1, <1>2, FaultsType DEF Locate
  <2>2. WorkerOK'
    <3> DEFINE work == [worker.work EXCEPT !.fin = TRUE]
    <3>1. work \in Object
      BY <1>1, WorkTypes
    <3>2. \/ worker' = [worker EXCEPT !.step = "list", !.work = work]
          \/ worker' = [worker EXCEPT !.step = "close", !.work = work, !.requeue = TRUE]
      BY <1>2 DEF Locate
    <3> HIDE DEF work
    <3>3. QED
      BY <1>1, <3>1, <3>2, WorkerKept DEF WorkerState
  <2>3. QED
    BY <1>1, <1>2, <2>1, <2>2 DEF TypeOK, Locate
<1>3. CASE ReconcileVolume
  <2>1. faults' \in 0 .. MaxFaults
    BY <1>1, <1>3, FaultsType DEF ReconcileVolume
  <2>2. WorkerOK'
    <3> DEFINE work == [worker.work EXCEPT !.policy = IF @ = "none" THEN "Retain" ELSE @]
    <3>1. work \in Object /\ \A i \in Ids : [work EXCEPT !.vid = i] \in Object
      BY <1>1, WorkTypes
    <3> HIDE DEF work
    <3>2. \/ worker' = [worker EXCEPT !.step = "create", !.work = work]
          \/ \E i \in VolumesOf(worker.v) :
               worker' = [worker EXCEPT !.step = "close", !.work = work, !.work.vid = i]
          \/ worker' = [worker EXCEPT !.step = "close", !.work = work, !.requeue = TRUE]
      BY <1>3 DEF ReconcileVolume, work
    <3>3. CASE \E i \in VolumesOf(worker.v) :
                 worker' = [worker EXCEPT !.step = "close", !.work = work, !.work.vid = i]
      <4>1. PICK i \in Ids :
              worker' = [worker EXCEPT !.step = "close", !.work = work, !.work.vid = i]
        BY <3>3 DEF VolumesOf
      <4>2. worker' = [worker EXCEPT !.step = "close", !.work = [work EXCEPT !.vid = i]]
        BY <1>1, <4>1 DEF WorkerState
      <4>3. QED
        BY <1>1, <3>1, <4>2, WorkerKept DEF WorkerState
    <3>4. CASE ~\E i \in VolumesOf(worker.v) :
                 worker' = [worker EXCEPT !.step = "close", !.work = work, !.work.vid = i]
      BY <1>1, <3>1, <3>2, <3>4, WorkerKept DEF WorkerState
    <3>5. QED BY <3>3, <3>4
  <2>3. QED
    BY <1>1, <1>3, <2>1, <2>2 DEF TypeOK, ReconcileVolume
<1>4. CASE CreateVolume
  <2>1. faults' \in 0 .. MaxFaults
    BY <1>1, <1>4, FaultsType DEF CreateVolume
  <2>2. owner' \in [Ids -> Volumes \cup {NoVolume}]
    BY <1>1, <1>4 DEF CreateVolume, TypeOK
  <2>3. WorkerOK'
    BY <1>1, <1>4, LeaveType DEF CreateVolume
  <2>4. QED
    BY <1>1, <2>1, <2>2, <2>3 DEF TypeOK
<1>5. QED BY <1>2, <1>3, <1>4

LEMMA DeleteType ==
  ASSUME TypeOK, DeleteFind \/ DeleteVolume
  PROVE  TypeOK'
<1>1. /\ faults \in 0 .. MaxFaults /\ WorkerOK /\ worker \in WorkerState
      /\ worker.step # "idle" /\ worker.v \in Volumes /\ worker.snap.life # "absent"
      /\ UNCHANGED <<obj, cache, terms, queue, cluster>>
  BY DEF TypeOK, WorkerOK, DeleteFind, DeleteVolume
<1>2. CASE DeleteFind
  <2>1. faults' \in 0 .. MaxFaults /\ UNCHANGED owner
    BY <1>1, <1>2, FaultsType DEF DeleteFind
  <2>2. ASSUME NEW i \in VolumesOf(worker.v),
               worker' = [worker EXCEPT !.step = "delete", !.id = i]
        PROVE  WorkerOK'
    <3>1. i \in Ids
      BY DEF VolumesOf
    <3>2. QED
      BY <1>1, <2>2, <3>1, WorkerKept DEF WorkerState
  <2>3. WorkerOK'
    BY <1>1, <1>2, <2>2, LeaveType DEF DeleteFind
  <2>4. QED
    BY <1>1, <2>1, <2>3 DEF TypeOK
<1>3. CASE DeleteVolume
  <2>1. faults' \in 0 .. MaxFaults /\ WorkerOK'
    BY <1>1, <1>3, FaultsType, LeaveType DEF DeleteVolume
  <2>2. owner' \in [Ids -> Volumes \cup {NoVolume}]
    BY <1>1, <1>3 DEF DeleteVolume, TypeOK
  <2>3. QED
    BY <1>1, <2>1, <2>2 DEF TypeOK
<1>4. QED BY <1>2, <1>3

LEMMA CloseType ==
  ASSUME TypeOK, Close
  PROVE  TypeOK'
<1>1. PICK p \in Patches(worker.v, worker.snap, worker.work) :
        obj' = [obj EXCEPT ![worker.v] = p]
  BY CloseResult
<1>2. p \in Object
  BY CloseResult, PatchesType DEF TypeOK
<1>3. /\ obj' \in [Volumes -> Object]
      /\ terms' \in [Volumes -> SUBSET Policies]
  <2>1. obj' \in [Volumes -> Object]
    BY <1>1, <1>2, CloseResult DEF TypeOK
  <2>2. QED BY <2>1, CloseResult, TermsLater
<1>4. WorkerOK'
  <2>1. worker' = Idle /\ Idle.step = "idle"
    BY CloseResult DEF Idle
  <2>2. QED
    BY <2>1, IdleType DEF WorkerOK
<1>5. QED
  BY <1>3, <1>4, CloseResult DEF TypeOK

LEMMA UsersType ==
  ASSUME TypeOK, NEW v \in Volumes,
         Create(v) \/ Edit(v) \/ Delete(v) \/ Watch(v) \/ Resync(v)
  PROVE  TypeOK'
<1>1. UNCHANGED <<cluster, owner, worker, faults>>
  BY DEF Create, Edit, Delete, Watch, Resync
<1>2. obj[v] \in Object
  BY DEF TypeOK
<1>3. obj' \in [Volumes -> Object]
  <2>1. CASE Create(v)
    <3>1. PICK located \in BOOLEAN, p \in Policies :
            obj' = [obj EXCEPT ![v] = [Absent EXCEPT !.life = "live", !.located = located,
                                                     !.policy = p]]
      BY <2>1 DEF Create
    <3>2. [Absent EXCEPT !.life = "live", !.located = located, !.policy = p] \in Object
      BY AbsentType DEF Object
    <3>3. QED BY <3>1, <3>2 DEF TypeOK
  <2>2. CASE Edit(v)
    <3>1. PICK p \in {"Retain", "Delete"} :
            obj' = [obj EXCEPT ![v].located = TRUE, ![v].policy = p]
      BY <2>2 DEF Edit
    <3>2. [obj[v] EXCEPT !.located = TRUE, !.policy = p] \in Object
      BY <1>2 DEF Object, Policies
    <3>3. obj' = [obj EXCEPT ![v] = [obj[v] EXCEPT !.located = TRUE, !.policy = p]]
      BY <3>1 DEF TypeOK
    <3>4. QED BY <3>2, <3>3 DEF TypeOK
  <2>3. CASE Delete(v)
    <3>1. [obj[v] EXCEPT !.life = "deleting"] \in Object
      BY <1>2 DEF Object
    <3>2. Collected([obj[v] EXCEPT !.life = "deleting"]) \in Object
      BY <3>1, CollectedType
    <3>3. QED
      BY <2>3, <3>2 DEF Delete, TypeOK
  <2>4. CASE Watch(v) \/ Resync(v)
    BY <2>4 DEF Watch, Resync, TypeOK
  <2>5. QED BY <2>1, <2>2, <2>3, <2>4
<1>4. /\ cache' \in [Volumes -> Object] /\ queue' \subseteq Volumes
      /\ terms' \in [Volumes -> SUBSET Policies]
  <2>1. UNCHANGED terms \/ Recorded(v)
    BY DEF Create, Edit, Delete, Watch, Resync
  <2>2. terms' \in [Volumes -> SUBSET Policies]
    BY <1>3, <2>1, TermsLater DEF TypeOK
  <2>3. QED BY <2>2 DEF Create, Edit, Delete, Watch, Resync, TypeOK
<1>5. QED
  BY <1>1, <1>3, <1>4 DEF TypeOK, WorkerOK

LEMMA StepType ==
  ASSUME TypeOK, [Next]_vars
  PROVE  TypeOK'
<1>1. CASE Crash
  BY <1>1, FaultsType, IdleType DEF Crash, TypeOK, WorkerOK, Idle
<1>2. CASE ClusterComes \/ ClusterGoes
  BY <1>2 DEF ClusterComes, ClusterGoes, TypeOK, WorkerOK
<1>3. ASSUME NEW i \in Ids, LoseVolume(i)
      PROVE  TypeOK'
  BY <1>3, FaultsType DEF LoseVolume, TypeOK, WorkerOK
<1>4. CASE UNCHANGED vars
  BY <1>4 DEF vars, TypeOK, WorkerOK
<1>5. QED
  BY <1>1, <1>2, <1>3, <1>4, ReconcileType, NormalType, DeleteType, CloseType, UsersType
     DEF Next, WorkerStep, Environment

\* Every variable keeps its type, and a reconcile in flight has the object and
\* the volume its next step is about.
THEOREM TypeCorrect == Spec => []TypeOK
  BY InitType, StepType, PTL DEF Spec
-----------------------------------------------------------------------------
(* The inductive invariant.                                                *)

LEMMA InitIInv == Init => IInv
  BY NoVolumeAssumption
     DEF Init, IInv, OneVolumePerObject, WorkerInv, ObjectInv, View, Seen, Idle, Absent

\* What matters of an object seen in deletion, when the object changes under it.
LEMMA SeenLater ==
  ASSUME NEW o, NEW now, NEW policies, NEW volumes, Seen(o, now, policies, volumes),
         NEW now2, NEW policies2, NEW volumes2,
         volumes = {} => volumes2 = {},
         \/ /\ now2.life = "absent" \/ (now2.life = "live" /\ ~now2.fin)
            /\ now.life # "deleting" /\ policies2 = policies
         \/ /\ now2.life = "deleting" /\ now.life = "deleting"
            /\ policies \subseteq policies2
         \/ now.life = "live" /\ now.fin
  PROVE  Seen(o, now2, policies2, volumes2)
  BY DEF Seen

\* A user changes one object; the reconcile in flight sees the same as before.
LEMMA UserIInv ==
  ASSUME TypeOK, IInv, NEW v \in Volumes, Create(v) \/ Edit(v) \/ Delete(v)
  PROVE  IInv'
<1>1. /\ UNCHANGED <<cache, owner, worker>>
      /\ obj[v] \in Object /\ obj[v].life \in {"absent", "live", "deleting"}
      /\ obj' \in [Volumes -> Object]
      /\ \A c \in Volumes \ {v} : obj'[c] = obj[c] /\ terms'[c] = terms[c]
  <2>1. obj' \in [Volumes -> Object] /\ (UNCHANGED terms \/ Recorded(v))
    BY UsersType DEF TypeOK, Create, Edit, Delete
  <2>2. \A c \in Volumes \ {v} : terms'[c] = terms[c]
    BY <2>1, TermsLater
  <2>3. QED BY <2>1, <2>2 DEF Create, Edit, Delete, TypeOK, Object
<1>2. /\ obj'[v].life = "deleting" => obj'[v].fin /\ obj'[v].policy \in terms'[v]
      /\ obj[v].life = "deleting" => obj'[v].life = "deleting"
      /\ \/ /\ obj'[v].life = "absent" \/ (obj'[v].life = "live" /\ ~obj'[v].fin)
            /\ obj[v].life # "deleting" /\ terms'[v] = terms[v]
         \/ /\ obj'[v].life = "deleting" /\ obj[v].life = "deleting"
            /\ terms[v] \subseteq terms'[v]
         \/ obj[v].life = "live" /\ obj[v].fin
  <2>1. CASE Create(v)
    <3>1. PICK located \in BOOLEAN, p \in Policies :
            obj' = [obj EXCEPT ![v] = [Absent EXCEPT !.life = "live", !.located = located,
                                                     !.policy = p]]
      BY <2>1 DEF Create
    <3>2. obj'[v].life = "live" /\ ~obj'[v].fin
      BY <3>1 DEF TypeOK, Absent
    <3>3. QED BY <2>1, <3>2 DEF Create
  <2>2. CASE Edit(v)
    <3>1. PICK p \in {"Retain", "Delete"} :
            obj' = [obj EXCEPT ![v].located = TRUE, ![v].policy = p]
      BY <2>2 DEF Edit
    <3>2. obj'[v].life = obj[v].life /\ obj'[v].fin = obj[v].fin
      BY <1>1, <3>1 DEF TypeOK, Object
    <3>3. /\ obj[v].life \in {"live", "deleting"} /\ obj[v].fin \in BOOLEAN
          /\ obj[v].life = "deleting" => obj[v].fin
      BY <1>1, <2>2 DEF Edit, Object, IInv, ObjectInv
    <3>4. /\ obj'[v].life # "deleting" => terms'[v] = terms[v]
          /\ obj'[v].life = "deleting" => obj'[v].policy \in terms'[v]
          /\ obj'[v].life = "deleting" /\ obj[v].life = "deleting" =>
               terms[v] \subseteq terms'[v]
      BY <1>1, <2>2, TermsLater DEF Edit
    <3>5. QED BY <3>2, <3>3, <3>4
  <2>3. CASE Delete(v)
    <3>1. /\ obj[v].life = "live"
          /\ obj'[v] = Collected([obj[v] EXCEPT !.life = "deleting"])
      BY <2>3 DEF Delete, TypeOK
    <3>2. /\ obj[v].fin => obj'[v].fin
          /\ ~obj[v].fin => obj'[v].life = "absent"
      BY <1>1, <3>1 DEF Collected, Absent, Object
    <3>3. /\ obj'[v].life # "deleting" => terms'[v] = terms[v]
          /\ obj'[v].life = "deleting" => obj'[v].policy \in terms'[v]
      BY <1>1, <2>3, TermsLater DEF Delete
    <3>4. QED
      BY <3>1, <3>2, <3>3
  <2>4. QED BY <2>1, <2>2, <2>3
<1>3. \A c \in Volumes : VolumesOf(c)' = VolumesOf(c)
  BY <1>1 DEF VolumesOf
<1>4. ASSUME NEW o, NEW c \in Volumes, View(c, o)
      PROVE  Seen(o, obj'[c], terms'[c], VolumesOf(c))
  BY <1>1, <1>2, <1>4, SeenLater DEF View
<1>5. ASSUME NEW c \in Volumes
      PROVE  ObjectInv(c)'
  BY <1>1, <1>2, <1>3, <1>4 DEF IInv, ObjectInv, View
<1>6. WorkerInv'
  <2>1. CASE worker.step # "idle" /\ worker.snap.life = "live"
    <3>1. NormalInv /\ worker.v \in Volumes
      BY <2>1 DEF IInv, WorkerInv, TypeOK, WorkerOK
    <3>2. cache[worker.v].life = "deleting" => obj'[worker.v].life = "deleting"
      BY <1>1, <1>2, <3>1 DEF NormalInv
    <3>3. NormalInv'
      BY <1>1, <1>3, <3>1, <3>2 DEF NormalInv
    <3>4. QED BY <1>1, <2>1, <3>3 DEF WorkerInv
  <2>2. CASE worker.step # "idle" /\ worker.snap.life = "deleting"
    <3>1. DeleteInv /\ worker.v \in Volumes
      BY <2>2 DEF IInv, WorkerInv, TypeOK, WorkerOK
    <3>2. DeleteInv'
      BY <1>1, <1>3, <1>4, <3>1 DEF DeleteInv, View
    <3>3. QED BY <1>1, <2>2, <3>2 DEF WorkerInv
  <2>3. CASE worker.step = "idle" \/ worker.snap.life \notin {"live", "deleting"}
    BY <1>1, <2>3 DEF WorkerInv
  <2>4. QED BY <2>1, <2>2, <2>3
<1>7. QED
  BY <1>1, <1>5, <1>6 DEF IInv, OneVolumePerObject

\* The informer's step: what it delivers is what is there.
LEMMA WatchIInv ==
  ASSUME TypeOK, IInv, NEW v \in Volumes, Watch(v)
  PROVE  IInv'
<1>1. /\ UNCHANGED <<obj, terms, owner, worker>>
      /\ \A c \in Volumes : cache'[c] = IF c = v THEN obj[c] ELSE cache[c]
  BY DEF Watch, TypeOK
<1>2. \A c \in Volumes : VolumesOf(c)' = VolumesOf(c)
  BY <1>1 DEF VolumesOf
<1>3. View(v, obj[v])
  BY DEF IInv, ObjectInv, View, Seen
<1>4. ASSUME NEW c \in Volumes
      PROVE  ObjectInv(c)'
  BY <1>1, <1>2, <1>3 DEF IInv, ObjectInv, View
<1>5. WorkerInv'
  <2>1. CASE worker.step # "idle" /\ worker.snap.life = "live"
    <3>1. NormalInv /\ worker.v \in Volumes
      BY <2>1 DEF IInv, WorkerInv, TypeOK, WorkerOK
    <3>2. NormalInv'
      BY <1>1, <1>2, <3>1 DEF NormalInv
    <3>3. QED BY <1>1, <2>1, <3>2 DEF WorkerInv
  <2>2. CASE worker.step # "idle" /\ worker.snap.life = "deleting"
    <3>1. DeleteInv /\ worker.v \in Volumes
      BY <2>2 DEF IInv, WorkerInv, TypeOK, WorkerOK
    <3>2. DeleteInv'
      BY <1>1, <1>2, <3>1 DEF DeleteInv, View
    <3>3. QED BY <1>1, <2>2, <3>2 DEF WorkerInv
  <2>3. CASE worker.step = "idle" \/ worker.snap.life \notin {"live", "deleting"}
    BY <1>1, <2>3 DEF WorkerInv
  <2>4. QED BY <2>1, <2>2, <2>3
<1>6. QED
  BY <1>1, <1>4, <1>5 DEF IInv, OneVolumePerObject

\* A reconcile begins with what the cache has.
LEMMA ReconcileIInv ==
  ASSUME TypeOK, IInv, NEW v \in Volumes, Reconcile(v)
  PROVE  IInv'
<1>1. UNCHANGED <<obj, cache, terms, owner>>
  BY DEF Reconcile
<1>2. \A c \in Volumes : VolumesOf(c)' = VolumesOf(c)
  BY <1>1 DEF VolumesOf
<1>3. OneVolumePerObject' /\ \A c \in Volumes : ObjectInv(c)'
  BY <1>1, <1>2 DEF IInv, OneVolumePerObject, ObjectInv, View
<1>4. WorkerInv'
  <2>1. CASE UNCHANGED worker
    <3>1. worker.step # "idle" => worker.v \in Volumes
      BY DEF TypeOK, WorkerOK
    <3>2. worker.step # "idle" /\ NormalInv => NormalInv'
      BY <1>1, <1>2, <2>1, <3>1 DEF NormalInv
    <3>3. worker.step # "idle" /\ DeleteInv => DeleteInv'
      BY <1>1, <1>2, <2>1, <3>1 DEF DeleteInv, View
    <3>4. QED
      BY <2>1, <3>2, <3>3 DEF IInv, WorkerInv
  <2>2. CASE ~UNCHANGED worker
    <3>1. /\ worker' = [Idle EXCEPT
               !.step = IF cache[v].life = "deleting" THEN "deleteFind" ELSE "locate",
               !.v = v, !.snap = cache[v], !.work = cache[v]]
          /\ cache[v].life # "absent" /\ cache[v] \in Object
      BY <2>2 DEF Reconcile, TypeOK
    <3>2. /\ worker'.step = IF cache[v].life = "deleting" THEN "deleteFind" ELSE "locate"
          /\ worker'.v = v /\ worker'.snap = cache[v] /\ worker'.work = cache[v]
      BY <3>1 DEF Idle
    <3>3. View(v, cache[v])
      BY DEF IInv, ObjectInv
    <3>4. cache[v].life = "live" => NormalInv'
      BY <1>1, <3>2 DEF NormalInv
    <3>5. cache[v].life = "deleting" => DeleteInv'
      <4>1. View(v, cache[v])'
        BY <1>1, <1>2, <3>3 DEF View
      <4>2. cache[v].life = "deleting" => cache[v].fin
        BY <3>3 DEF View, Seen
      <4>3. QED
        BY <1>1, <3>2, <4>1, <4>2 DEF DeleteInv, View
    <3>6. QED
      BY <3>2, <3>4, <3>5 DEF WorkerInv
  <2>3. QED BY <2>1, <2>2
<1>5. QED
  BY <1>3, <1>4 DEF IInv

\* The ways to Close keep the object and the rest of the copy.
LEMMA Leaving ==
  ASSUME worker \in WorkerState,
         (\E i \in Ids : Found(i)) \/ Leave(TRUE) \/ Leave(FALSE)
  PROVE  /\ worker'.v = worker.v /\ worker'.snap = worker.snap /\ worker'.step = "close"
         /\ worker'.work.fin = worker.work.fin
<1>1. ASSUME NEW i \in Ids, Found(i)
      PROVE  /\ worker'.v = worker.v /\ worker'.snap = worker.snap /\ worker'.step = "close"
             /\ worker'.work.fin = worker.work.fin
  <2> DEFINE work == [worker.work EXCEPT !.vid = i]
  <2>1. work.fin = worker.work.fin
    BY DEF WorkerState, Object
  <2>2. worker' = [worker EXCEPT !.step = "close", !.work = work]
    BY <1>1 DEF Found, WorkerState
  <2> HIDE DEF work
  <2>3. QED BY <2>1, <2>2 DEF WorkerState
<1>2. ASSUME NEW b, Leave(b)
      PROVE  /\ worker'.v = worker.v /\ worker'.snap = worker.snap /\ worker'.step = "close"
             /\ worker'.work = worker.work
  BY <1>2 DEF Leave, WorkerState
<1>3. QED BY <1>1, <1>2

\* The steps of reconcileNormal before Close.
LEMMA NormalIInv ==
  ASSUME TypeOK, IInv, Locate \/ ReconcileVolume \/ CreateVolume
  PROVE  IInv'
<1>1. /\ UNCHANGED <<obj, cache, terms>>
      /\ worker.step \in {"locate", "list", "create"}
      /\ worker \in WorkerState /\ worker.v \in Volumes /\ worker.work \in Object
      /\ worker.snap.life \in {"live", "deleting"}
  BY DEF Locate, ReconcileVolume, CreateVolume, TypeOK, WorkerOK, WorkerState, Object
<1>2. worker.snap.life = "live" /\ NormalInv
  BY <1>1 DEF IInv, WorkerInv, DeleteInv
<1>3. CASE Locate
  <2>1. /\ UNCHANGED owner
        /\ worker'.v = worker.v /\ worker'.snap = worker.snap
        /\ worker'.step \in {"list", "close"}
        /\ worker'.work.fin
    <3> DEFINE work == [worker.work EXCEPT !.fin = TRUE]
    <3>1. work.fin
      BY <1>1 DEF Object
    <3>2. /\ UNCHANGED owner
          /\ \/ worker' = [worker EXCEPT !.step = "list", !.work = work]
             \/ worker' = [worker EXCEPT !.step = "close", !.work = work, !.requeue = TRUE]
      BY <1>3 DEF Locate
    <3> HIDE DEF work
    <3>3. QED
      BY <1>1, <3>1, <3>2 DEF WorkerState
  <2>2. \A c \in Volumes : VolumesOf(c)' = VolumesOf(c)
    BY <2>1 DEF VolumesOf
  <2>3. OneVolumePerObject' /\ \A c \in Volumes : ObjectInv(c)'
    BY <1>1, <2>1, <2>2 DEF IInv, OneVolumePerObject, ObjectInv, View
  <2>4. NormalInv'
    BY <1>1, <1>2, <2>1 DEF NormalInv
  <2>5. QED
    BY <1>2, <2>1, <2>3, <2>4 DEF IInv, WorkerInv
<1>4. CASE ReconcileVolume
  <2>1. /\ UNCHANGED owner
        /\ worker'.v = worker.v /\ worker'.snap = worker.snap
        /\ worker'.step \in {"create", "close"}
        /\ worker'.step = "create" => VolumesOf(worker.v) = {}
        /\ worker'.work.fin = worker.work.fin
    <3> DEFINE work == [worker.work EXCEPT !.policy = IF @ = "none" THEN "Retain" ELSE @]
    <3>1. /\ work.fin = worker.work.fin
          /\ \A i : [work EXCEPT !.vid = i].fin = work.fin
      BY <1>1 DEF Object
    <3>2. \/ /\ worker' = [worker EXCEPT !.step = "create", !.work = work]
             /\ VolumesOf(worker.v) = {}
          \/ \E i : worker' = [worker EXCEPT !.step = "close", !.work = work, !.work.vid = i]
          \/ worker' = [worker EXCEPT !.step = "close", !.work = work, !.requeue = TRUE]
      BY <1>4 DEF ReconcileVolume
    <3> HIDE DEF work
    <3>3. \/ worker'.work = work
          \/ \E i : worker'.work = [work EXCEPT !.vid = i]
      BY <1>1, <3>2 DEF WorkerState
    <3>4. /\ worker'.v = worker.v /\ worker'.snap = worker.snap
          /\ worker'.step \in {"create", "close"}
          /\ worker'.step = "create" => VolumesOf(worker.v) = {}
      BY <1>1, <3>2 DEF WorkerState
    <3>5. worker'.work.fin = worker.work.fin
      BY <3>1, <3>3
    <3>6. UNCHANGED owner
      BY <1>4 DEF ReconcileVolume
    <3>7. QED
      BY <3>4, <3>5, <3>6
  <2>2. \A c \in Volumes : VolumesOf(c)' = VolumesOf(c)
    BY <2>1 DEF VolumesOf
  <2>3. OneVolumePerObject' /\ \A c \in Volumes : ObjectInv(c)'
    BY <1>1, <2>1, <2>2 DEF IInv, OneVolumePerObject, ObjectInv, View
  <2>4. NormalInv'
    BY <1>1, <1>2, <1>4, <2>1, <2>2 DEF NormalInv, ReconcileVolume
  <2>5. QED
    BY <1>2, <2>1, <2>3, <2>4 DEF IInv, WorkerInv
<1>5. CASE CreateVolume
  <2>1. /\ worker'.v = worker.v /\ worker'.snap = worker.snap /\ worker'.step = "close"
        /\ worker'.work.fin = worker.work.fin
    BY <1>1, <1>5, Leaving DEF CreateVolume
  <2>2. VolumesOf(worker.v) = {}
    BY <1>2, <1>5 DEF CreateVolume, NormalInv
  <2>3. \/ UNCHANGED owner
        \/ \E i \in Ids : Unused(i) /\ owner' = [owner EXCEPT ![i] = worker.v]
    BY <1>5 DEF CreateVolume
  <2>4. OneVolumePerObject' /\ \A c \in Volumes \ {worker.v} : VolumesOf(c)' = VolumesOf(c)
    BY <1>1, <2>2, <2>3, NoVolumeAssumption
       DEF IInv, OneVolumePerObject, VolumesOf, Unused, TypeOK
  <2>5. ASSUME NEW c \in Volumes \ {worker.v}
        PROVE  ObjectInv(c)'
    BY <1>1, <2>4 DEF IInv, ObjectInv, View
  <2>6. ASSUME NEW c \in Volumes, c = worker.v
        PROVE  ObjectInv(c)'
    <3>1. View(c, cache[c]) /\ (cache[c].life = "deleting" => obj[c].life = "deleting")
      BY <1>2, <2>6 DEF IInv, ObjectInv, NormalInv
    <3>2. Seen(cache[c], obj[c], terms[c], VolumesOf(c)')
      BY <3>1 DEF View, Seen
    <3>3. QED
      BY <1>1, <3>2 DEF IInv, ObjectInv, View
  <2>7. NormalInv'
    BY <1>1, <1>2, <1>5, <2>1 DEF NormalInv, CreateVolume
  <2>8. ASSUME NEW c \in Volumes
        PROVE  ObjectInv(c)'
    <3>1. CASE c = worker.v
      BY <2>6, <3>1
    <3>2. CASE c # worker.v
      BY <2>5, <3>2
    <3>3. QED BY <3>1, <3>2
  <2>9. QED
    BY <1>2, <2>1, <2>4, <2>7, <2>8 DEF IInv, WorkerInv
<1>6. QED BY <1>3, <1>4, <1>5

LEMMA LettingGo ==
  ASSUME worker \in WorkerState, LetGo
  PROVE  /\ worker'.v = worker.v /\ worker'.snap = worker.snap /\ worker'.step = "close"
         /\ ~worker'.work.fin /\ worker'.work.policy = worker.work.policy
<1> DEFINE work == [worker.work EXCEPT !.fin = FALSE]
<1>1. ~work.fin /\ work.policy = worker.work.policy
  BY DEF WorkerState, Object
<1>2. worker' = [worker EXCEPT !.step = "close", !.work = work]
  BY DEF LetGo, WorkerState
<1> HIDE DEF work
<1>3. QED BY <1>1, <1>2 DEF WorkerState

\* The removal of a volume disturbs nothing that is known of the objects.
LEMMA FewerVolumes ==
  ASSUME TypeOK, IInv, UNCHANGED <<obj, cache, terms>>,
         UNCHANGED owner \/ \E i \in Ids : owner' = [owner EXCEPT ![i] = NoVolume]
  PROVE  /\ OneVolumePerObject'
         /\ \A c \in Volumes : ObjectInv(c)'
         /\ \A c \in Volumes : VolumesOf(c)' \subseteq VolumesOf(c)
<1>1. OneVolumePerObject' /\ \A c \in Volumes : VolumesOf(c)' \subseteq VolumesOf(c)
  BY NoVolumeAssumption DEF IInv, OneVolumePerObject, VolumesOf, TypeOK
<1>2. ASSUME NEW c \in Volumes
      PROVE  ObjectInv(c)'
  <2>1. VolumesOf(c) = {} => VolumesOf(c)' = {}
    BY <1>1
  <2>2. Seen(cache[c], obj[c], terms[c], VolumesOf(c)')
    BY <2>1 DEF IInv, ObjectInv, View, Seen
  <2>3. QED
    BY <2>2 DEF IInv, ObjectInv, View
<1>3. QED BY <1>1, <1>2

\* The steps of reconcileDelete before Close.
LEMMA DeleteIInv ==
  ASSUME TypeOK, IInv, DeleteFind \/ DeleteVolume
  PROVE  IInv'
<1>1. /\ UNCHANGED <<obj, cache, terms>>
      /\ worker.step \in {"deleteFind", "delete"}
      /\ worker \in WorkerState /\ worker.v \in Volumes
      /\ worker.snap.life \in {"live", "deleting"}
      /\ worker.step = "delete" => worker.id \in Ids
  BY DEF DeleteFind, DeleteVolume, TypeOK, WorkerOK, WorkerState, Object
<1>2. worker.snap.life = "deleting" /\ DeleteInv
  BY <1>1 DEF IInv, WorkerInv, NormalInv
<1>3. UNCHANGED owner \/ \E i \in Ids : owner' = [owner EXCEPT ![i] = NoVolume]
  BY <1>1 DEF DeleteFind, DeleteVolume
<1>4. /\ OneVolumePerObject' /\ \A c \in Volumes : ObjectInv(c)'
      /\ \A c \in Volumes : VolumesOf(c)' \subseteq VolumesOf(c)
  BY <1>1, <1>3, FewerVolumes
<1>5. Seen(worker.snap, obj[worker.v], terms[worker.v], {i \in Ids : owner'[i] = worker.v})
  <2>1. VolumesOf(worker.v) = {} => {i \in Ids : owner'[i] = worker.v} = {}
    BY <1>1, <1>3, NoVolumeAssumption DEF VolumesOf, TypeOK
  <2>2. QED
    BY <1>2, <2>1 DEF DeleteInv, View, Seen
<1>6. /\ worker'.v = worker.v /\ worker'.snap = worker.snap
      /\ worker'.work.policy = worker.work.policy
      /\ \/ worker'.step = "close" /\ worker'.work.fin
         \/ /\ worker'.step = "close"
            /\ worker.snap.policy = "Delete" => {i \in Ids : owner'[i] = worker.v} = {}
         \/ /\ worker'.step = "delete" /\ worker'.work.fin
            /\ worker.snap.policy = "Delete" /\ owner'[worker'.id] = worker.v
  <2>1. worker.work.fin /\ worker.work.policy = worker.snap.policy
    BY <1>1, <1>2 DEF DeleteInv
  <2>2. CASE DeleteFind
    <3>1. UNCHANGED owner
      BY <2>2 DEF DeleteFind
    <3>2. CASE LetGo /\ (VolumesOf(worker.v) = {} \/ worker.work.policy # "Delete")
      BY <1>1, <2>1, <3>1, <3>2, LettingGo DEF VolumesOf
    <3>3. CASE Leave(TRUE)
      BY <1>1, <2>1, <3>3 DEF Leave, WorkerState
    <3>4. ASSUME NEW i \in VolumesOf(worker.v), worker.work.policy = "Delete",
                 worker' = [worker EXCEPT !.step = "delete", !.id = i]
          PROVE  /\ worker'.v = worker.v /\ worker'.snap = worker.snap
                 /\ worker'.work = worker.work /\ worker'.step = "delete"
                 /\ owner'[worker'.id] = worker.v
      BY <1>1, <3>1, <3>4 DEF VolumesOf, WorkerState
    <3>5. QED
      BY <2>1, <2>2, <3>2, <3>3, <3>4 DEF DeleteFind
  <2>3. CASE DeleteVolume
    <3>1. CASE Leave(TRUE)
      BY <1>1, <2>1, <3>1 DEF Leave, WorkerState
    <3>2. CASE LetGo
      <4>1. /\ owner' = [owner EXCEPT ![worker.id] = NoVolume]
            /\ owner[worker.id] # NoVolume /\ worker.step = "delete" /\ worker.id \in Ids
        BY <1>1, <2>3, <3>2, LettingGo, <2>1 DEF DeleteVolume, Leave, WorkerState
      <4>2. owner[worker.id] = worker.v
        BY <1>2, <4>1 DEF DeleteInv
      <4>3. {i \in Ids : owner'[i] = worker.v} = {}
        BY <1>1, <4>1, <4>2, NoVolumeAssumption DEF IInv, OneVolumePerObject, TypeOK
      <4>4. QED
        BY <1>1, <3>2, <4>3, LettingGo
    <3>3. QED
      BY <2>3, <3>1, <3>2 DEF DeleteVolume
  <2>4. QED BY <2>2, <2>3
<1>7. DeleteInv'
  <2>1. VolumesOf(worker.v)' = {i \in Ids : owner'[i] = worker.v}
    BY <1>6 DEF VolumesOf
  <2>2. View(worker.v, worker.snap)'
    BY <1>1, <1>5, <1>6, <2>1 DEF View
  <2>3. worker'.work.policy = worker'.snap.policy
    BY <1>1, <1>2, <1>6 DEF DeleteInv
  <2>4. QED
    BY <1>6, <2>1, <2>2, <2>3 DEF DeleteInv
<1>8. QED
  BY <1>2, <1>4, <1>6, <1>7 DEF IInv, WorkerInv, DeleteInv

\* Close ends a reconcile; what it writes to the object fits to what is seen of it.
LEMMA CloseIInv ==
  ASSUME TypeOK, IInv, Close
  PROVE  IInv'
<1> DEFINE v == worker.v
           now == obj[v]
           from == worker.snap
           to == worker.work
<1>1. /\ UNCHANGED <<cache, owner>> /\ worker' = Idle
      /\ v \in Volumes /\ from \in Object /\ to \in Object /\ now \in Object
      /\ worker.step = "close" /\ from.life \in {"live", "deleting"}
  BY CloseResult DEF TypeOK, WorkerOK, Object
<1>2. PICK p \in Patches(v, from, to) : obj' = [obj EXCEPT ![v] = p]
  BY CloseResult
<1>3. Outcome(now, from, to, p) /\ now.life \in {"absent", "live", "deleting"}
  BY <1>1, PatchOutcome DEF TypeOK, Object
<1>4. /\ \A c \in Volumes : obj'[c] = IF c = v THEN p ELSE obj[c]
      /\ \A c \in Volumes \ {v} : terms'[c] = terms[c]
      /\ p.life # "deleting" => terms'[v] = terms[v]
      /\ p.life = "deleting" => p.policy \in terms'[v]
      /\ p.life = "deleting" /\ now.life = "deleting" => terms[v] \subseteq terms'[v]
  <2>1. obj' \in [Volumes -> Object] /\ Recorded(v)
    BY CloseResult, CloseType DEF TypeOK
  <2>2. \A c \in Volumes : obj'[c] = IF c = v THEN p ELSE obj[c]
    BY <1>2 DEF TypeOK
  <2>3. QED BY <1>1, <2>1, <2>2, TermsLater
<1>5. \A c \in Volumes : VolumesOf(c)' = VolumesOf(c)
  BY <1>1 DEF VolumesOf
<1>6. /\ now.life = "deleting" => now.fin
      /\ Seen(cache[v], now, terms[v], VolumesOf(v))
  BY <1>1 DEF IInv, ObjectInv, View
<1>7. /\ p.life = "deleting" => p.fin
      /\ Seen(cache[v], p, terms'[v], VolumesOf(v))
  <2>1. CASE from.life = "live"
    <3>1. /\ cache[v].life = "deleting" => now.life = "deleting"
          /\ to.fin
      BY <1>1, <2>1 DEF IInv, WorkerInv, NormalInv
    <3>2. p.life = now.life
      BY <1>3, <1>6, <3>1 DEF Outcome
    <3>3. QED
      BY <1>3, <1>4, <1>6, <3>1, <3>2 DEF Outcome, Seen
  <2>2. CASE from.life = "deleting"
    <3>1. /\ to.policy = from.policy
          /\ from.fin /\ from.policy \in terms[v]
          /\ ~to.fin /\ from.policy = "Delete" => VolumesOf(v) = {}
      BY <1>1, <2>2 DEF IInv, WorkerInv, DeleteInv, View, Seen
    <3>2. CASE p.life = "absent"
      <4>1. now.life = "deleting" => ~to.fin
        BY <1>3, <1>6, <3>2 DEF Outcome
      <4>2. QED BY <1>3, <1>4, <1>6, <3>1, <3>2, <4>1 DEF Outcome, Seen
    <3>3. CASE p.life # "absent"
      <4>1. /\ p.life = now.life /\ p.policy = now.policy
            /\ p.fin = now.fin \/ ~p.fin
        <5>1. p.life = now.life /\ p.policy = now.policy
          BY <1>3, <3>1, <3>3 DEF Outcome
        <5>2. to.fin \in BOOLEAN /\ from.fin \in BOOLEAN
          BY <1>1 DEF Object
        <5>3. p.fin = now.fin \/ (from.fin # to.fin /\ p.fin = to.fin)
          BY <1>3, <3>3 DEF Outcome
        <5>4. from.fin # to.fin => ~to.fin
          <6>1. from.fin = TRUE
            BY <3>1, <5>2
          <6>2. CASE to.fin
            <7>1. to.fin = TRUE
              BY <5>2, <6>2
            <7>2. QED BY <6>1, <7>1
          <6>3. QED BY <6>2
        <5>5. CASE p.fin = now.fin
          BY <5>1, <5>5
        <5>6. CASE from.fin # to.fin /\ p.fin = to.fin
          <6>1. ~to.fin
            BY <5>4, <5>6
          <6>2. to.fin = FALSE
            BY <5>2, <6>1
          <6>3. p.fin = FALSE
            BY <5>6, <6>2
          <6>4. QED BY <5>1, <6>3
        <5>7. QED BY <5>3, <5>5, <5>6
      <4>2. QED
        BY <1>3, <1>4, <1>6, <3>3, <4>1 DEF Outcome, Seen
    <3>4. QED BY <3>2, <3>3
  <2>3. QED BY <1>1, <2>1, <2>2
<1>8. ASSUME NEW c \in Volumes
      PROVE  ObjectInv(c)'
  BY <1>1, <1>4, <1>5, <1>7 DEF IInv, ObjectInv, View
<1>9. WorkerInv'
  BY <1>1 DEF WorkerInv, Idle
<1>10. OneVolumePerObject'
  BY <1>1 DEF IInv, OneVolumePerObject
<1>11. QED BY <1>8, <1>9, <1>10 DEF IInv

\* A new manager reads what there is, and begins anew.
LEMMA CrashIInv ==
  ASSUME TypeOK, IInv, Crash
  PROVE  IInv'
<1>1. UNCHANGED <<obj, terms, owner>> /\ cache' = obj /\ worker' = Idle
  BY DEF Crash
<1>2. \A c \in Volumes : VolumesOf(c)' = VolumesOf(c)
  BY <1>1 DEF VolumesOf
<1>3. ASSUME NEW c \in Volumes
      PROVE  ObjectInv(c)'
  <2>1. Seen(obj[c], obj[c], terms[c], VolumesOf(c))
    BY DEF IInv, ObjectInv, Seen
  <2>2. QED
    BY <1>1, <1>2, <2>1 DEF IInv, ObjectInv, View
<1>4. WorkerInv' /\ OneVolumePerObject'
  BY <1>1 DEF WorkerInv, Idle, IInv, OneVolumePerObject
<1>5. QED BY <1>3, <1>4 DEF IInv

\* Somebody removes a volume, under whatever reconcile.
LEMMA LoseIInv ==
  ASSUME TypeOK, IInv, NEW i \in Ids, LoseVolume(i)
  PROVE  IInv'
<1>1. UNCHANGED <<obj, cache, terms, worker>> /\ owner' = [owner EXCEPT ![i] = NoVolume]
  BY DEF LoseVolume
<1>2. /\ OneVolumePerObject' /\ \A c \in Volumes : ObjectInv(c)'
      /\ \A c \in Volumes : VolumesOf(c)' \subseteq VolumesOf(c)
  BY <1>1, FewerVolumes
<1>3. worker.step # "idle" => worker.v \in Volumes
  BY DEF TypeOK, WorkerOK
<1>4. worker.step # "idle" /\ NormalInv => NormalInv'
  BY <1>1, <1>2, <1>3 DEF NormalInv
<1>5. ASSUME worker.step # "idle", DeleteInv
      PROVE  DeleteInv'
  <2>1. VolumesOf(worker.v) = {} => VolumesOf(worker.v)' = {}
    BY <1>1, <1>2, <1>3, <1>5 DEF VolumesOf
  <2>2. View(worker.v, worker.snap)'
    BY <1>1, <1>5, <2>1 DEF DeleteInv, View, Seen
  <2>3. worker.step = "delete" => owner'[worker.id] \in {worker.v, NoVolume}
    BY <1>1, <1>5 DEF DeleteInv, TypeOK, WorkerOK
  <2>4. QED
    BY <1>1, <1>5, <2>1, <2>2, <2>3 DEF DeleteInv
<1>6. QED
  BY <1>1, <1>2, <1>4, <1>5 DEF IInv, WorkerInv

\* What changes none of the variables that the invariant is about.
LEMMA OtherIInv ==
  ASSUME TypeOK, IInv, UNCHANGED <<obj, cache, terms, owner, worker>>
  PROVE  IInv'
<1>1. \A c \in Volumes : VolumesOf(c)' = VolumesOf(c)
  BY DEF VolumesOf
<1>2. worker.step # "idle" => worker.v \in Volumes
  BY DEF TypeOK, WorkerOK
<1>3. /\ worker.step # "idle" /\ NormalInv => NormalInv'
      /\ worker.step # "idle" /\ DeleteInv => DeleteInv'
  BY <1>1, <1>2 DEF NormalInv, DeleteInv, View
<1>4. QED
  BY <1>1, <1>3 DEF IInv, OneVolumePerObject, WorkerInv, ObjectInv, View

LEMMA StepIInv ==
  ASSUME TypeOK, IInv, [Next]_vars
  PROVE  IInv'
<1>1. CASE ClusterComes \/ ClusterGoes \/ UNCHANGED vars
  BY <1>1, OtherIInv DEF ClusterComes, ClusterGoes, vars
<1>2. ASSUME NEW v \in Volumes, Resync(v)
      PROVE  IInv'
  BY <1>2, OtherIInv DEF Resync
<1>3. QED
  BY <1>1, <1>2, ReconcileIInv, NormalIInv, DeleteIInv, CloseIInv, CrashIInv,
     UserIInv, WatchIInv, LoseIInv
     DEF Next, WorkerStep, Environment

LEMMA Invariance == Spec => [](TypeOK /\ IInv)
  BY InitType, StepType, InitIInv, StepIInv, PTL DEF Spec

\* An object has at most one volume, however calls fail, lose their answer or
\* are interrupted.
THEOREM OneVolume == Spec => []OneVolumePerObject
<1>1. IInv => OneVolumePerObject
  BY DEF IInv
<1>2. QED BY <1>1, Invariance, PTL

-----------------------------------------------------------------------------
(* What a step may not do.                                                 *)

\* The one step of the controller after which a volume has no owner.
LEMMA Removal ==
  ASSUME TypeOK, [Next]_vars, worker' # worker,
         NEW i \in Ids, owner[i] # NoVolume, owner'[i] = NoVolume
  PROVE  /\ worker.step = "delete" /\ worker.id = i
         /\ worker.v \in Volumes /\ worker.snap.life \in {"live", "deleting"}
<1>1. CASE DeleteVolume
  <2>1. worker.step = "delete" /\ worker.id \in Ids
    BY <1>1 DEF DeleteVolume, TypeOK, WorkerOK
  <2>2. owner' = owner \/ owner' = [owner EXCEPT ![worker.id] = NoVolume]
    BY <1>1 DEF DeleteVolume
  <2>3. QED
    BY <2>1, <2>2 DEF TypeOK, WorkerOK, WorkerState, Object
<1>2. CASE CreateVolume
  <2>1. worker.v \in Volumes
    BY <1>2 DEF CreateVolume, TypeOK, WorkerOK
  <2>2. owner' = owner \/ \E j \in Ids : owner' = [owner EXCEPT ![j] = worker.v]
    BY <1>2 DEF CreateVolume
  <2>3. QED
    BY <2>1, <2>2, NoVolumeAssumption DEF TypeOK
<1>3. CASE UNCHANGED owner
  BY <1>3
<1>4. CASE UNCHANGED worker
  BY <1>4
<1>5. QED
  BY <1>1, <1>2, <1>3, <1>4
     DEF Next, WorkerStep, Environment, vars, Reconcile, Locate, ReconcileVolume,
         DeleteFind, Close, Crash, Create, Edit, Delete, Watch, Resync,
         ClusterComes, ClusterGoes, LoseVolume

\* The controller removes the data of an object only if Delete has been its policy
\* during its deletion (volume.go:101), whatever users do with the policy
\* meanwhile; and, if they leave it alone, only during the deletion.
THEOREM DataSafe == Spec => DataKept
<1>1. ASSUME TypeOK, IInv, [Next]_vars, NEW i \in Ids, Removes(i)
      PROVE  /\ "Delete" \in terms[owner[i]]
             /\ terms[owner[i]] = {"Delete"} => obj[owner[i]].life = "deleting"
  <2>1. /\ worker.step = "delete" /\ worker.id = i /\ owner[i] # NoVolume
        /\ worker.v \in Volumes /\ worker.snap.life \in {"live", "deleting"}
    BY <1>1, Removal DEF Removes
  <2>2. worker.snap.life = "deleting" /\ DeleteInv
    BY <1>1, <2>1 DEF IInv, WorkerInv, NormalInv
  <2>3. owner[i] = worker.v /\ worker.snap.policy = "Delete"
    BY <2>1, <2>2 DEF DeleteInv
  <2>4. i \in VolumesOf(worker.v)
    BY <2>3 DEF VolumesOf
  <2>5. /\ "Delete" \in terms[worker.v]
        /\ terms[worker.v] = {"Delete"} => obj[worker.v].life = "deleting"
    BY <2>2, <2>3, <2>4 DEF DeleteInv, View, Seen
  <2>6. QED BY <2>3, <2>5
<1>2. TypeOK /\ IInv /\ [Next]_vars =>
        [\A i \in Ids : Removes(i) =>
           /\ "Delete" \in terms[owner[i]]
           /\ terms[owner[i]] = {"Delete"} => obj[owner[i]].life = "deleting"]_vars
  BY <1>1
<1>3. QED
  BY <1>2, Invariance, PTL DEF Spec, DataKept

\* With users who wait for the finalizer, the one step by which an object goes
\* is the Close of a reconcile that took the finalizer away.
LEMMA Removed ==
  ASSUME TypeOK, IInv, EarlyDelete = FALSE, [Next]_vars, NEW v \in Volumes,
         obj[v].life # "absent", obj'[v].life = "absent"
  PROVE  /\ worker.step = "close" /\ worker.v = v /\ obj[v].life = "deleting"
         /\ ~worker.work.fin /\ worker.snap.life \in {"live", "deleting"}
<1>1. CASE Close
  <2>1. PICK p \in Patches(worker.v, worker.snap, worker.work) :
          obj' = [obj EXCEPT ![worker.v] = p]
    BY <1>1, CloseResult
  <2>2. /\ worker.step = "close" /\ worker.v \in Volumes
        /\ worker.snap \in Object /\ worker.work \in Object
        /\ worker.snap.life \in {"live", "deleting"}
    BY <1>1, CloseResult DEF TypeOK, WorkerOK, Object
  <2>3. worker.v = v /\ obj'[v] = p
    BY <2>1, <2>2 DEF TypeOK
  <2>4. Outcome(obj[v], worker.snap, worker.work, p)
    BY <2>1, <2>2, <2>3, PatchOutcome DEF TypeOK
  <2>5. obj[v].life = "deleting" /\ obj[v].fin
    BY <2>3, <2>4 DEF Outcome, IInv, ObjectInv
  <2>6. ~worker.work.fin
    BY <2>3, <2>4, <2>5 DEF Outcome
  <2>7. QED BY <2>2, <2>3, <2>5, <2>6
<1>2. ASSUME NEW c \in Volumes, Create(c)
      PROVE  FALSE
  <2>1. PICK located \in BOOLEAN, p \in Policies :
          obj' = [obj EXCEPT ![c] = [Absent EXCEPT !.life = "live", !.located = located,
                                                   !.policy = p]]
    BY <1>2 DEF Create
  <2>2. QED
    BY <2>1 DEF TypeOK, Absent
<1>3. ASSUME NEW c \in Volumes, Edit(c)
      PROVE  FALSE
  <2>1. PICK p \in {"Retain", "Delete"} :
          obj' = [obj EXCEPT ![c].located = TRUE, ![c].policy = p]
    BY <1>3 DEF Edit
  <2>2. obj[c] \in Object
    BY DEF TypeOK
  <2>3. obj'[c].life = obj[c].life /\ (c # v => obj'[v] = obj[v])
    BY <2>1, <2>2 DEF TypeOK, Object
  <2>4. QED BY <2>3
<1>4. ASSUME NEW c \in Volumes, Delete(c)
      PROVE  FALSE
  <2>1. obj[c].fin /\ obj' = [obj EXCEPT ![c] = Collected([@ EXCEPT !.life = "deleting"])]
    BY <1>4 DEF Delete
  <2>2. obj'[c].life = "deleting" /\ (c # v => obj'[v] = obj[v])
    BY <2>1 DEF TypeOK, Object, Collected
  <2>3. QED BY <2>2
<1>5. CASE UNCHANGED obj
  BY <1>5
<1>6. QED
  BY <1>1, <1>2, <1>3, <1>4, <1>5
     DEF Next, WorkerStep, Environment, vars, Reconcile, Locate, ReconcileVolume,
         CreateVolume, DeleteFind, DeleteVolume, Crash, Watch, Resync,
         ClusterComes, ClusterGoes, LoseVolume

\* An object that has the policy Delete throughout its deletion goes after its
\* volume (hcloudvolume_types.go:24), for users who wait for the finalizer.
THEOREM NothingLeft ==
  ASSUME EarlyDelete = FALSE
  PROVE  Spec => DeleteLeavesNothing
<1>1. ASSUME TypeOK, IInv, [Next]_vars, NEW v \in Volumes, obj[v].life # "absent",
             obj'[v].life = "absent",
             obj[v].life = "deleting" => terms[v] = {"Delete"}
      PROVE  VolumesOf(v) = {}
  <2>1. /\ worker.step = "close" /\ worker.v = v /\ obj[v].life = "deleting"
        /\ ~worker.work.fin /\ worker.snap.life \in {"live", "deleting"}
    BY <1>1, Removed
  <2>2. worker.snap.life = "deleting" /\ DeleteInv
    BY <1>1, <2>1 DEF IInv, WorkerInv, NormalInv
  <2>3. worker.snap.policy = "Delete"
    BY <1>1, <2>1, <2>2 DEF DeleteInv, View, Seen
  <2>4. QED BY <2>1, <2>2, <2>3 DEF DeleteInv
<1>2. TypeOK /\ IInv /\ [Next]_vars =>
        [\A v \in Volumes :
           /\ obj[v].life # "absent" /\ obj'[v].life = "absent" /\ obj[v].policy = "Delete"
           /\ obj[v].life = "deleting" => terms[v] = {"Delete"}
           => VolumesOf(v) = {}]_vars
  BY <1>1
<1>3. QED
  BY <1>2, Invariance, PTL DEF Spec, DeleteLeavesNothing

=============================================================================
