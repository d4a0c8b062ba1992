-------------------------- MODULE HcloudClusterProofs --------------------------
(***************************************************************************)
(* What holds of an HcloudCluster for any resources, machines, manifests   *)
(* and faults: one network and one load balancer, which do not outlive the *)
(* cluster, and an endpoint that stays.                                    *)
(***************************************************************************)
EXTENDS HcloudCluster, TLAPS

LEMMA FaultsType ==
  ASSUME faults \in 0 .. MaxFaults, Fault \/ NoFault
  PROVE  faults' \in 0 .. MaxFaults
  BY MaxFaultsAssumption DEF Fault, NoFault

LEMMA ObjectType ==
  /\ Absent \in Object /\ Absent.life = "absent" /\ ~Absent.fin
  /\ Absent.endpoint = None /\ Absent.applied = None
  /\ \A d \in BOOLEAN :
       /\ Fresh(d) \in Object /\ Fresh(d).life = "live" /\ ~Fresh(d).fin
       /\ Fresh(d).endpoint = None /\ Fresh(d).applied = None
  BY DEF Absent, Fresh, Object

LEMMA IdleType == Idle \in WorkerState /\ Idle.step = "idle"
  BY ObjectType DEF Idle, WorkerState, Steps

LEMMA LoadBalancerType == NoLoadBalancer \in LoadBalancer /\ ~NoLoadBalancer.there
  BY DEF NoLoadBalancer, LoadBalancer

LEMMA InitType == Init => TypeOK
<1> SUFFICES ASSUME Init PROVE TypeOK
  OBVIOUS
<1>1. lb \in [LoadBalancers -> LoadBalancer] /\ worker \in WorkerState
  BY LoadBalancerType, IdleType DEF Init
<1>2. obj \in Object /\ cache \in Object
  BY ObjectType DEF Init
<1>3. faults \in 0 .. MaxFaults
  BY MaxFaultsAssumption DEF Init
<1>4. QED
  BY <1>1, <1>2, <1>3 DEF Init, TypeOK

-----------------------------------------------------------------------------
(* The patch helper.                                                       *)

LEMMA SpecPatchedType ==
  ASSUME NEW o \in Object, NEW from \in Object, NEW to \in Object
  PROVE  SpecPatched(o, from, to) \in Object
<1> DEFINE p == [o EXCEPT !.fin = IF from.fin = to.fin THEN o.fin ELSE to.fin,
                          !.endpoint = IF from.endpoint = to.endpoint
                                       THEN o.endpoint ELSE to.endpoint]
<1>1. p \in Object
  BY DEF Object
<1>2. SpecPatched(o, from, to) = Collected(p)
  BY DEF SpecPatched
<1> HIDE DEF p
<1>3. QED BY <1>1, <1>2, ObjectType DEF Collected

LEMMA StatusPatchedType ==
  ASSUME NEW o \in Object, NEW from \in Object, NEW to \in Object
  PROVE  StatusPatched(o, from, to) \in Object
  BY DEF StatusPatched, Object

\* A patch changes what the reconcile changed; a finalizer it takes away is the
\* one way in which an object goes.
Outcome(o, from, to, p) ==
  /\ p.life \in {o.life, "absent"}
  /\ p.life = "absent" =>
       p = Absent /\ o.life = "deleting" /\ (o.fin => from.fin /\ ~to.fin)
  /\ p.life = "deleting" /\ o.fin => p.fin
  /\ p.life # "absent" =>
       /\ p.fin = o.fin \/ (from.fin # to.fin /\ p.fin = to.fin)
       /\ \/ p.endpoint = o.endpoint
          \/ from.endpoint # to.endpoint /\ p.endpoint = to.endpoint
       /\ \/ p.applied = o.applied
          \/ from.applied # to.applied /\ p.applied = to.applied

LEMMA SpecOutcome ==
  ASSUME NEW o \in Object, NEW from \in Object, NEW to \in Object,
         o.life # "absent"
  PROVE  Outcome(o, from, to, SpecPatched(o, from, to))
<1> DEFINE p == [o EXCEPT !.fin = IF from.fin = to.fin THEN o.fin ELSE to.fin,
                          !.endpoint = IF from.endpoint = to.endpoint
                                       THEN o.endpoint ELSE to.endpoint]
<1>1. /\ p.life = o.life /\ p.applied = o.applied
      /\ p.fin = IF from.fin = to.fin THEN o.fin ELSE to.fin
      /\ p.endpoint = IF from.endpoint = to.endpoint THEN o.endpoint ELSE to.endpoint
  BY DEF Object
<1>2. from.fin \in BOOLEAN /\ to.fin \in BOOLEAN /\ o.fin \in BOOLEAN
      /\ o.life \in {"absent", "live", "deleting"}
  BY DEF Object
<1>3. SpecPatched(o, from, to) = Collected(p)
  BY DEF SpecPatched
<1> HIDE DEF p
<1>4. Collected(p) = IF p.life = "deleting" /\ ~p.fin THEN Absent ELSE p
  BY DEF Collected
<1>5. QED
  BY <1>1, <1>2, <1>3, <1>4, ObjectType DEF Outcome

LEMMA StatusOutcome ==
  ASSUME NEW o \in Object, NEW from, NEW to
  PROVE  LET p == StatusPatched(o, from, to) IN
           /\ p.life = o.life /\ p.fin = o.fin /\ p.endpoint = o.endpoint
           /\ o.life = "absent" => p = o
           /\ \/ p.applied = o.applied
              \/ from.applied # to.applied /\ p.applied = to.applied
  BY DEF StatusPatched, Object

\* What a patch makes of an object that is there.
LEMMA PatchOutcome ==
  ASSUME TypeOK, NEW from \in Object, NEW to \in Object, Patch(from, to),
         obj.life # "absent"
  PROVE  obj' \in Object /\ Outcome(obj, from, to, obj')
<1>1. obj \in Object /\ obj.life \in {"live", "deleting"}
  BY DEF TypeOK, Object
<1>2. CASE obj' = obj
  BY <1>1, <1>2 DEF Outcome
<1>3. CASE obj' = StatusPatched(obj, from, to)
  <2>1. obj' \in Object
    BY <1>1, <1>3, StatusPatchedType
  <2>2. QED
    BY <1>1, <1>3, <2>1, StatusOutcome DEF Outcome
<1>4. CASE obj' = SpecPatched(obj, from, to)
  BY <1>1, <1>4, SpecPatchedType, SpecOutcome
<1>5. CASE obj' = StatusPatched(SpecPatched(obj, from, to), from, to)
  <2> DEFINE q == SpecPatched(obj, from, to)
  <2>1. q \in Object /\ Outcome(obj, from, to, q)
    BY <1>1, SpecPatchedType, SpecOutcome
  <2>2. obj' = StatusPatched(q, from, to)
    BY <1>5
  <2> HIDE DEF q
  <2>3. /\ obj' \in Object
        /\ obj'.life = q.life /\ obj'.fin = q.fin /\ obj'.endpoint = q.endpoint
        /\ q.life = "absent" => obj' = q
        /\ \/ obj'.applied = q.applied
           \/ from.applied # to.applied /\ obj'.applied = to.applied
    BY <2>1, <2>2, StatusOutcome, StatusPatchedType
  <2>4. QED
    BY <2>1, <2>3 DEF Outcome
<1>6. QED
  BY <1>1, <1>2, <1>3, <1>4, <1>5 DEF Patch

-----------------------------------------------------------------------------
(* Types.                                                                  *)

\* The worker's copy of the object, and what it writes to it.
LEMMA WorkTypes ==
  ASSUME TypeOK
  PROVE  /\ worker \in WorkerState /\ worker.snap \in Object /\ worker.work \in Object
         /\ \A b \in BOOLEAN : [worker.work EXCEPT !.fin = b] \in Object
         /\ \A b \in BOOLEAN : [worker.work EXCEPT !.net = b] \in Object
         /\ \A h \in Versions \cup {None} : [worker.work EXCEPT !.applied = h] \in Object
         /\ \A e \in LoadBalancers \cup {None} :
              [worker.work EXCEPT !.ready = TRUE, !.endpoint = e] \in Object
<1>1. worker \in WorkerState /\ worker.snap \in Object /\ worker.work \in Object
  BY DEF TypeOK, WorkerState
<1>2. QED BY <1>1 DEF Object

LEMMA GotoType ==
  ASSUME worker \in WorkerState, NEW step \in Steps, Goto(step)
  PROVE  worker' \in WorkerState
  BY DEF Goto, WorkerState

LEMMA GotType ==
  ASSUME worker \in WorkerState, NEW step \in Steps, NEW l \in LoadBalancers,
         NEW a \in BOOLEAN, Got(step, l, a)
  PROVE  worker' \in WorkerState
  BY DEF Got, WorkerState

LEMMA LeaveType ==
  ASSUME worker \in WorkerState, Leave
  PROVE  worker' \in WorkerState
  BY GotoType DEF Leave, Steps

LEMMA ReconcileType ==
  ASSUME TypeOK, Reconcile
  PROVE  TypeOK'
<1>1. UNCHANGED <<obj, cache, cloud, others, guest, faults>>
  BY DEF Reconcile
<1>2. PICK s \in Steps, w \in Object : worker' = [Idle EXCEPT !.step = s, !.snap = cache, !.work = w]
  <2>1. cache \in Object /\ [cache EXCEPT !.fin = TRUE] \in Object
    BY DEF TypeOK, Object
  <2>2. QED BY <2>1 DEF Reconcile, Steps
<1>3. worker' \in WorkerState
  BY <1>2, IdleType DEF WorkerState, TypeOK
<1>4. QED
  BY <1>1, <1>3 DEF TypeOK, cloud, others

LEMMA NewNetworkType == NewNetwork \in Networks
  BY NetworksAssumption DEF NewNetwork

LEMMA NetworkType ==
  ASSUME TypeOK, ReconcileLocation \/ ReconcileNetwork
  PROVE  TypeOK'
<1>1. UNCHANGED <<obj, cache, lb, others, guest>>
  BY DEF ReconcileLocation, ReconcileNetwork, cloud
<1>2. faults' \in 0 .. MaxFaults /\ networks' \subseteq Networks
  BY FaultsType, NewNetworkType DEF ReconcileLocation, ReconcileNetwork, TypeOK, cloud
<1>3. worker' \in WorkerState
  <2>1. CASE \/ Leave \/ Goto("lb")
             \/ worker' = [worker EXCEPT !.step = "network", !.located = TRUE]
    BY <2>1, LeaveType, GotoType DEF WorkerState, Steps, TypeOK
  <2>2. ASSUME NEW s \in Steps, NEW n \in BOOLEAN,
               worker' = [worker EXCEPT !.step = s, !.work.net = n]
        PROVE  worker' \in WorkerState
    <3>1. worker' = [worker EXCEPT !.step = s, !.work = [worker.work EXCEPT !.net = n]]
      BY <2>2, WorkTypes DEF WorkerState
    <3>2. QED BY <3>1, WorkTypes DEF WorkerState
  <2>3. \/ Leave \/ Goto("lb")
        \/ worker' = [worker EXCEPT !.step = "network", !.located = TRUE]
        \/ worker' = [worker EXCEPT !.step = "lb", !.work.net = TRUE]
        \/ worker' = [worker EXCEPT !.step = "close", !.work.net = FALSE]
    BY DEF ReconcileLocation, ReconcileNetwork, TypeOK
  <2>4. QED BY <2>1, <2>2, <2>3 DEF Steps
<1>4. QED
  BY <1>1, <1>2, <1>3 DEF TypeOK, others

LEMMA LoadBalancersType ==
  ASSUME TypeOK, ReconcileLoadBalancer \/ AddServices
  PROVE  TypeOK'
<1>1. UNCHANGED <<obj, cache, networks, others, guest>>
  BY DEF ReconcileLoadBalancer, AddServices
<1>2. faults' \in 0 .. MaxFaults
  BY FaultsType DEF ReconcileLoadBalancer, AddServices, TypeOK
<1>3. lb' \in [LoadBalancers -> LoadBalancer]
  <2>1. CASE ReconcileLoadBalancer
    <3>1. \/ UNCHANGED lb
          \/ \E l \in LoadBalancers : lb' = [lb EXCEPT ![l].joined = TRUE]
          \/ \E l \in LoadBalancers, a, j \in BOOLEAN :
               lb' = [lb EXCEPT ![l] = [there |-> TRUE, addressed |-> a, joined |-> j,
                                        services |-> ~ExtraServices]]
      <4>1. worker.work.net \in BOOLEAN
        BY DEF TypeOK, WorkerState, Object
      <4>2. QED BY <2>1, <4>1, FlagsAssumption DEF ReconcileLoadBalancer, Found
    <3>2. ASSUME NEW l \in LoadBalancers, lb' = [lb EXCEPT ![l].joined = TRUE]
          PROVE  lb' \in [LoadBalancers -> LoadBalancer]
      BY <3>2 DEF TypeOK, LoadBalancer
    <3>3. ASSUME NEW l \in LoadBalancers, NEW a \in BOOLEAN, NEW j \in BOOLEAN,
                 lb' = [lb EXCEPT ![l] = [there |-> TRUE, addressed |-> a, joined |-> j,
                                          services |-> ~ExtraServices]]
          PROVE  lb' \in [LoadBalancers -> LoadBalancer]
      <4>1. [there |-> TRUE, addressed |-> a, joined |-> j, services |-> ~ExtraServices]
              \in LoadBalancer
        BY DEF LoadBalancer
      <4>2. QED BY <3>3, <4>1 DEF TypeOK
    <3>4. QED
      BY <3>1, <3>2, <3>3 DEF TypeOK
  <2>2. CASE AddServices
    <3>1. CASE UNCHANGED lb
      BY <3>1 DEF TypeOK
    <3>2. CASE lb' = [lb EXCEPT ![worker.lb].services = lb[worker.lb].there]
      <4>1. CASE worker.lb \in LoadBalancers
        BY <3>2, <4>1 DEF TypeOK, LoadBalancer
      <4>2. CASE worker.lb \notin LoadBalancers
        BY <3>2, <4>2 DEF TypeOK
      <4>3. QED BY <4>1, <4>2
    <3>3. QED BY <2>2, <3>1, <3>2 DEF AddServices
  <2>3. QED BY <2>1, <2>2
<1>4. worker' \in WorkerState
  <2>1. CASE Leave \/ Goto("endpoint")
    BY <2>1, LeaveType, GotoType DEF Steps, TypeOK
  <2>2. \/ Leave \/ Goto("endpoint")
        \/ \E s \in {"services", "endpoint"}, l \in LoadBalancers, a \in BOOLEAN : Got(s, l, a)
    <3>1. CASE AddServices
      BY <3>1 DEF AddServices
    <3>2. CASE ReconcileLoadBalancer
      <4>1. \A l \in LoadBalancers : lb[l].addressed \in BOOLEAN
        BY DEF TypeOK, LoadBalancer
      <4>2. {TRUE, ~LateAddress} \subseteq BOOLEAN /\ Found \subseteq LoadBalancers
            /\ (IF ExtraServices THEN "services" ELSE "endpoint") \in {"services", "endpoint"}
        BY FlagsAssumption DEF Found
      <4> HIDE DEF Found
      <4>3. QED
        BY <3>2, <4>1, <4>2 DEF ReconcileLoadBalancer
    <3>3. QED BY <3>1, <3>2
  <2>3. QED BY <2>1, <2>2, GotType DEF Steps, TypeOK
<1>5. QED
  BY <1>1, <1>2, <1>3, <1>4 DEF TypeOK, others

LEMMA LaterType ==
  ASSUME TypeOK, SetEndpoint \/ ReconcileManifests \/ StartManager
  PROVE  TypeOK'
<1>1. UNCHANGED <<obj, cache, cloud, others>>
  BY DEF SetEndpoint, ReconcileManifests, StartManager
<1>2. faults' \in 0 .. MaxFaults
  BY FaultsType DEF SetEndpoint, ReconcileManifests, StartManager, TypeOK
<1>3. guest' \in Versions \cup {None}
  BY DEF SetEndpoint, ReconcileManifests, StartManager, TypeOK
<1>4. worker' \in WorkerState
  <2>1. CASE Leave \/ Goto("manifests") \/ Goto("panic") \/ Goto("start")
    BY <2>1, LeaveType, GotoType DEF Steps, TypeOK
  <2>2. ASSUME NEW e \in LoadBalancers \cup {None},
               worker' = [worker EXCEPT !.step = "manifests", !.work.ready = TRUE,
                                        !.work.endpoint = e]
        PROVE  worker' \in WorkerState
    <3>1. worker' = [worker EXCEPT !.step = "manifests",
                       !.work = [worker.work EXCEPT !.ready = TRUE, !.endpoint = e]]
      BY <2>2, WorkTypes DEF WorkerState
    <3>2. QED BY <3>1, WorkTypes DEF WorkerState, Steps
  <2>3. ASSUME worker' = [worker EXCEPT !.step = "start", !.work.applied = wanted]
        PROVE  worker' \in WorkerState
    <3>1. worker' = [worker EXCEPT !.step = "start",
                       !.work = [worker.work EXCEPT !.applied = wanted]]
      BY <2>3, WorkTypes DEF WorkerState
    <3>2. wanted \in Versions \cup {None}
      BY DEF TypeOK
    <3>3. QED BY <3>1, <3>2, WorkTypes DEF WorkerState, Steps
  <2>4. \/ Leave \/ Goto("manifests") \/ Goto("panic") \/ Goto("start")
        \/ \E e \in LoadBalancers \cup {None} :
             worker' = [worker EXCEPT !.step = "manifests", !.work.ready = TRUE,
                                      !.work.endpoint = e]
        \/ worker' = [worker EXCEPT !.step = "start", !.work.applied = wanted]
    <3>1. CASE SetEndpoint
      <4> DEFINE e == IF worker.work.endpoint = None THEN worker.lb ELSE worker.work.endpoint
      <4>1. e \in LoadBalancers \cup {None}
        BY WorkTypes DEF WorkerState, Object
      <4>2. \/ Goto("manifests") \/ Goto("panic")
            \/ worker' = [worker EXCEPT !.step = "manifests", !.work.ready = TRUE,
                                        !.work.endpoint = e]
        BY <3>1, WorkTypes DEF SetEndpoint, WorkerState, Object
      <4> HIDE DEF e
      <4>3. QED BY <4>1, <4>2
    <3>2. CASE ReconcileManifests \/ StartManager
      BY <3>2 DEF ReconcileManifests, StartManager
    <3>3. QED BY <3>1, <3>2
  <2>5. QED BY <2>1, <2>2, <2>3, <2>4
<1>5. QED
  BY <1>1, <1>2, <1>3, <1>4 DEF TypeOK, cloud, others

LEMMA DeletionType ==
  ASSUME TypeOK, StopManager \/ WaitForMachines \/ DeleteLoadBalancer \/ DeleteNetwork
  PROVE  TypeOK'
<1>1. UNCHANGED <<obj, cache, others, guest>>
  BY DEF StopManager, WaitForMachines, DeleteLoadBalancer, DeleteNetwork
<1>2. faults' \in 0 .. MaxFaults
  BY FaultsType DEF StopManager, WaitForMachines, DeleteLoadBalancer, DeleteNetwork, TypeOK
<1>3. networks' \subseteq Networks /\ lb' \in [LoadBalancers -> LoadBalancer]
  BY LoadBalancerType
     DEF StopManager, WaitForMachines, DeleteLoadBalancer, DeleteNetwork, TypeOK, cloud
<1>4. worker' \in WorkerState
  <2>1. CASE Leave \/ Goto("machines") \/ Goto("deleteLB") \/ Goto("deleteNetwork")
    BY <2>1, LeaveType, GotoType DEF Steps, TypeOK
  <2>2. ASSUME worker' = [worker EXCEPT !.step = "close", !.work.fin = FALSE]
        PROVE  worker' \in WorkerState
    <3>1. worker' = [worker EXCEPT !.step = "close",
                                   !.work = [worker.work EXCEPT !.fin = FALSE]]
      BY <2>2, WorkTypes DEF WorkerState
    <3>2. QED BY <3>1, WorkTypes DEF WorkerState, Steps
  <2>3. QED
    BY <2>1, <2>2 DEF StopManager, WaitForMachines, DeleteLoadBalancer, DeleteNetwork
<1>5. QED
  BY <1>1, <1>2, <1>3, <1>4 DEF TypeOK, others

LEMMA EndType ==
  ASSUME TypeOK, Close \/ Panic \/ Crash
  PROVE  TypeOK'
<1>1. /\ UNCHANGED <<networks, lb, machines, serving, wanted, guest>>
      /\ cache' \in {cache, obj'} /\ mcache' \in {mcache, machines}
      /\ worker' = Idle
  BY DEF Close, Panic, Crash, Restart, TypeOK, cloud, others
<1>2. faults' \in 0 .. MaxFaults
  BY FaultsType DEF Close, Panic, Crash, Patch, TypeOK
<1>3. obj' \in Object
  <2>1. CASE UNCHANGED obj
    BY <2>1 DEF TypeOK
  <2>2. CASE ~UNCHANGED obj
    <3>1. obj.life # "absent" /\ Patch(worker.snap, worker.work)
      BY <2>2 DEF Close, Panic, Crash, Patch
    <3>2. QED BY <3>1, WorkTypes, PatchOutcome
  <2>3. QED BY <2>1, <2>2
<1>4. QED
  BY <1>1, <1>2, <1>3, IdleType DEF TypeOK

LEMMA EnvironmentType ==
  ASSUME TypeOK, Environment
  PROVE  TypeOK'
<1>1. CASE Create \/ Delete \/ Watch \/ WatchMachines \/ ChangeManifests
  <2>1. Collected([obj EXCEPT !.life = "deleting"]) \in Object
    <3>1. [obj EXCEPT !.life = "deleting"] \in Object
      BY DEF TypeOK, Object
    <3>2. QED BY <3>1, ObjectType DEF Collected
  <2>2. faults' \in 0 .. MaxFaults /\ UNCHANGED <<networks, lb, machines, worker>>
    BY <1>1, FaultsType
       DEF Create, Delete, Watch, WatchMachines, ChangeManifests, TypeOK, cloud, others
  <2>3. obj' \in Object /\ cache' \in Object
    BY <1>1, <2>1, ObjectType, FlagsAssumption
       DEF Create, Delete, Watch, WatchMachines, ChangeManifests, TypeOK
  <2>4. /\ mcache' \subseteq Machines /\ serving' \subseteq Machines
        /\ wanted' \in Versions /\ guest' \in Versions \cup {None}
    BY <1>1
       DEF Create, Delete, Watch, WatchMachines, ChangeManifests, TypeOK, others
  <2>5. QED BY <2>2, <2>3, <2>4 DEF TypeOK
<1>2. ASSUME NEW m \in Machines, AddMachine(m) \/ RemoveMachine(m) \/ Serve(m)
      PROVE  TypeOK'
  BY <1>2 DEF AddMachine, RemoveMachine, Serve, TypeOK, cloud
<1>3. ASSUME NEW l \in LoadBalancers, GetAddress(l) \/ LoseLoadBalancer(l)
      PROVE  TypeOK'
  <2>1. /\ UNCHANGED <<obj, cache, networks, others, guest, worker>>
        /\ faults' \in 0 .. MaxFaults
    BY <1>3, FaultsType DEF GetAddress, LoseLoadBalancer, TypeOK
  <2>2. lb' \in [LoadBalancers -> LoadBalancer]
    BY <1>3, LoadBalancerType DEF GetAddress, LoseLoadBalancer, TypeOK, LoadBalancer
  <2>3. QED BY <2>1, <2>2 DEF TypeOK, others
<1>4. QED BY <1>1, <1>2, <1>3 DEF Environment

LEMMA StepType ==
  ASSUME TypeOK, [Next]_vars
  PROVE  TypeOK'
<1>1. CASE UNCHANGED vars
  BY <1>1 DEF vars, TypeOK
<1>2. QED
  BY <1>1, ReconcileType, NetworkType, LoadBalancersType, LaterType, DeletionType,
     EndType, EnvironmentType DEF Next, WorkerStep

\* Every variable of the cluster controller keeps its type.
THEOREM TypeCorrect == Spec => []TypeOK
  BY InitType, StepType, PTL DEF Spec

-----------------------------------------------------------------------------
(* One network, one load balancer.                                         *)

LEMMA NetworksLater ==
  ASSUME TypeOK, [Next]_vars
  PROVE  \/ networks' \subseteq networks
         \/ ReconcileNetwork /\ networks = {} /\ \E n \in Networks : networks' = {n}
<1>1. CASE ReconcileNetwork
  BY <1>1, NewNetworkType DEF ReconcileNetwork
<1>2. CASE DeleteNetwork
  BY <1>2 DEF DeleteNetwork
<1>3. CASE UNCHANGED networks
  BY <1>3
<1>4. QED
  BY <1>1, <1>2, <1>3
     DEF Next, WorkerStep, Environment, vars, cloud, Reconcile, ReconcileLocation,
         ReconcileLoadBalancer, AddServices, SetEndpoint, ReconcileManifests,
         StartManager, StopManager, WaitForMachines, DeleteLoadBalancer, Close, Panic,
         Crash, Restart, Create, Delete, Watch, WatchMachines, Serve, ChangeManifests,
         AddMachine, RemoveMachine, GetAddress, LoseLoadBalancer

LEMMA FoundLater ==
  ASSUME TypeOK, [Next]_vars
  PROVE  \/ Found' \subseteq Found
         \/ /\ ReconcileLoadBalancer /\ Found = {}
            /\ \E l \in LoadBalancers : Found' = {l}
<1>1. CASE UNCHANGED lb
  BY <1>1 DEF Found
<1>2. ASSUME NEW l, lb' = [lb EXCEPT ![l] = NoLoadBalancer]
      PROVE  Found' \subseteq Found
  BY <1>2, LoadBalancerType DEF Found, TypeOK
<1>3. ASSUME NEW l \in LoadBalancers,
             \/ lb' = [lb EXCEPT ![l].joined = TRUE]
             \/ lb' = [lb EXCEPT ![l].addressed = TRUE]
      PROVE  Found' \subseteq Found
  BY <1>3 DEF Found, TypeOK, LoadBalancer
<1>4. CASE AddServices
  <2>1. ASSUME NEW l, NEW b, lb' = [lb EXCEPT ![l].services = b]
        PROVE  Found' \subseteq Found
    <3>1. CASE l \in LoadBalancers
      BY <2>1, <3>1 DEF Found, TypeOK, LoadBalancer
    <3>2. CASE l \notin LoadBalancers
      BY <2>1, <3>2 DEF Found, TypeOK
    <3>3. QED BY <3>1, <3>2
  <2>2. QED BY <1>1, <1>4, <2>1 DEF AddServices
<1>5. CASE ReconcileLoadBalancer
  <2>1. ASSUME NEW l \in LoadBalancers, NEW a, NEW j, NEW b, Found = {},
               lb' = [lb EXCEPT ![l] = [there |-> TRUE, addressed |-> a, joined |-> j,
                                        services |-> b]]
        PROVE  Found' = {l}
    BY <2>1 DEF Found, TypeOK
  <2>2. \/ UNCHANGED lb
        \/ \E l \in LoadBalancers : lb' = [lb EXCEPT ![l].joined = TRUE]
        \/ /\ Found = {}
           /\ \E l \in LoadBalancers, a \in {TRUE, ~LateAddress},
                 j \in {worker.work.net, FALSE} :
                lb' = [lb EXCEPT ![l] = [there |-> TRUE, addressed |-> a, joined |-> j,
                                         services |-> ~ExtraServices]]
    <3>1. Found \subseteq LoadBalancers
      BY DEF Found
    <3>2. QED BY <1>5, <3>1, ZenonT(30) DEF ReconcileLoadBalancer
  <2>3. QED BY <1>1, <1>3, <1>5, <2>1, <2>2
<1>6. CASE DeleteLoadBalancer
  BY <1>1, <1>2, <1>6 DEF DeleteLoadBalancer
<1>7. ASSUME NEW l \in LoadBalancers, GetAddress(l) \/ LoseLoadBalancer(l)
      PROVE  Found' \subseteq Found
  BY <1>2, <1>3, <1>7 DEF GetAddress, LoseLoadBalancer
<1>8. QED
  BY <1>1, <1>4, <1>5, <1>6, <1>7
     DEF Next, WorkerStep, Environment, vars, cloud, Reconcile, ReconcileLocation,
         ReconcileNetwork, SetEndpoint, ReconcileManifests, StartManager, StopManager,
         WaitForMachines, DeleteNetwork, Close, Panic, Crash, Restart, Create, Delete,
         Watch, WatchMachines, Serve, ChangeManifests, AddMachine, RemoveMachine

LEMMA OneOfEachStep ==
  ASSUME TypeOK, OneOfEach, [Next]_vars
  PROVE  OneOfEach'
<1>1. \A n, k \in networks' : n = k
  BY NetworksLater DEF OneOfEach
<1>2. \A l, k \in Found' : l = k
  BY FoundLater DEF OneOfEach
<1>3. QED BY <1>1, <1>2 DEF OneOfEach

\* A cluster has at most one network and one load balancer, whatever calls fail
\* or lose their answer and however old the object is that a reconcile has read.
THEOREM OneResource == Spec => []OneOfEach
<1>1. Init => OneOfEach
  BY DEF Init, OneOfEach, Found, NoLoadBalancer
<1>2. QED
  BY <1>1, InitType, StepType, OneOfEachStep, PTL DEF Spec

-----------------------------------------------------------------------------
(* The inductive invariant.                                                *)

LEMMA InitIInv == Init => IInv
  BY ObjectType, IdleType
     DEF Init, IInv, OneOfEach, ResourcesHaveCluster, ObjectInv, WorkerInv, Found,
         NoLoadBalancer

\* What the assignments to the worker leave of it.
LEMMA GotoFields ==
  ASSUME worker \in WorkerState, NEW s, Goto(s)
  PROVE  /\ worker'.step = s /\ worker'.snap = worker.snap /\ worker'.lb = worker.lb
         /\ worker'.work = worker.work
  BY DEF Goto, WorkerState

LEMMA GotFields ==
  ASSUME worker \in WorkerState, NEW s, NEW l, NEW a, Got(s, l, a)
  PROVE  /\ worker'.step = s /\ worker'.snap = worker.snap /\ worker'.lb = l
         /\ worker'.work = worker.work
  BY DEF Got, WorkerState

LEMMA NetFields ==
  ASSUME worker \in WorkerState, NEW s, NEW n,
         worker' = [worker EXCEPT !.step = s, !.work.net = n]
  PROVE  /\ worker'.step = s /\ worker'.snap = worker.snap
         /\ worker'.work.fin = worker.work.fin
         /\ worker'.work.endpoint = worker.work.endpoint
         /\ worker'.work.applied = worker.work.applied
<1> DEFINE w == [worker.work EXCEPT !.net = n]
<1>1. /\ w.fin = worker.work.fin /\ w.endpoint = worker.work.endpoint
      /\ w.applied = worker.work.applied
  BY DEF WorkerState, Object
<1>2. worker' = [worker EXCEPT !.step = s, !.work = w]
  BY DEF WorkerState
<1> HIDE DEF w
<1>3. QED BY <1>1, <1>2 DEF WorkerState

\* A reconcile begins with what the cache has.
LEMMA ReconcileIInv ==
  ASSUME TypeOK, IInv, Reconcile
  PROVE  IInv'
<1>1. /\ UNCHANGED <<obj, cache, networks, lb, machines, mcache, guest>>
      /\ worker' = [Idle EXCEPT
           !.step = IF cache.life = "deleting" THEN "stop" ELSE "location",
           !.snap = cache,
           !.work = IF cache.life = "deleting" THEN cache ELSE [cache EXCEPT !.fin = TRUE]]
      /\ cache.life \in {"live", "deleting"} /\ cache \in Object
  BY DEF Reconcile, TypeOK, Object, cloud, others
<1>2. /\ worker'.step = IF cache.life = "deleting" THEN "stop" ELSE "location"
      /\ worker'.snap = cache
      /\ worker'.work = IF cache.life = "deleting" THEN cache ELSE [cache EXCEPT !.fin = TRUE]
  BY <1>1 DEF Idle
<1>3. /\ [cache EXCEPT !.fin = TRUE].fin
      /\ [cache EXCEPT !.fin = TRUE].endpoint = cache.endpoint
      /\ [cache EXCEPT !.fin = TRUE].applied = cache.applied
  BY <1>1 DEF Object
<1>4. OneOfEach' /\ ResourcesHaveCluster' /\ ObjectInv'
  BY <1>1 DEF IInv, OneOfEach, ResourcesHaveCluster, ObjectInv, Found
<1>5. CASE cache.life = "live"
  <2>1. NormalInv'
    <3>1. /\ worker'.step = "location" /\ worker'.snap = cache
          /\ worker'.work.fin /\ worker'.work.endpoint = cache.endpoint
          /\ worker'.work.applied = cache.applied
      BY <1>2, <1>3, <1>5
    <3>2. obj.life # "absent" /\ (cache.applied # None => guest # None)
      BY <1>5 DEF IInv, ObjectInv
    <3>3. QED BY <1>1, <1>5, <3>1, <3>2 DEF NormalInv
  <2>2. QED BY <1>2, <1>4, <1>5, <2>1 DEF IInv, WorkerInv
<1>6. CASE cache.life = "deleting"
  <2>1. DeleteInv'
    BY <1>1, <1>2, <1>6 DEF DeleteInv, IInv, ObjectInv
  <2>2. QED BY <1>2, <1>4, <1>6, <2>1 DEF IInv, WorkerInv
<1>7. QED BY <1>1, <1>5, <1>6

\* The steps of reconcileNormal before Close.
NormalStep ==
  \/ ReconcileLocation \/ ReconcileNetwork \/ ReconcileLoadBalancer \/ AddServices
  \/ SetEndpoint \/ ReconcileManifests \/ StartManager

LEMMA NormalIInv ==
  ASSUME TypeOK, IInv, NormalStep
  PROVE  IInv'
<1>1. /\ UNCHANGED <<obj, cache, machines, mcache>>
      /\ worker.step \in {"location", "network", "lb", "services", "endpoint",
                          "manifests", "start"}
      /\ guest' \in {guest, wanted} /\ wanted # None
      /\ worker \in WorkerState /\ worker.work \in Object
  BY NoneAssumption
     DEF NormalStep, ReconcileLocation, ReconcileNetwork, ReconcileLoadBalancer, AddServices,
         SetEndpoint, ReconcileManifests, StartManager, TypeOK, WorkerState, others
<1>2. worker.snap.life = "live" /\ NormalInv
  BY <1>1 DEF IInv, WorkerInv, DeleteInv
<1>3. OneOfEach'
  BY OneOfEachStep DEF NormalStep, Next, WorkerStep, IInv
<1>4. ResourcesHaveCluster' /\ ObjectInv'
  BY <1>1, <1>2 DEF IInv, ResourcesHaveCluster, ObjectInv, NormalInv
<1>5. \/ Found' \subseteq Found
      \/ ReconcileLoadBalancer /\ Found = {} /\ \E l \in LoadBalancers : Found' = {l}
  BY FoundLater DEF NormalStep, Next, WorkerStep
<1>6. SUFFICES NormalInv' /\ worker'.snap = worker.snap
  BY <1>2, <1>3, <1>4 DEF IInv, WorkerInv
<1>7. obj'.life # "absent" /\ (cache'.life = "deleting" => obj'.life = "deleting")
      /\ (guest # None => guest' # None)
  BY <1>1, <1>2 DEF NormalInv
<1>8. CASE ReconcileLocation \/ ReconcileNetwork
  <2>1. /\ worker'.step \in {"network", "lb", "close"} /\ worker'.snap = worker.snap
        /\ worker'.work.fin = worker.work.fin
        /\ worker'.work.endpoint = worker.work.endpoint
        /\ worker'.work.applied = worker.work.applied
    <3>1. CASE worker' = [worker EXCEPT !.step = "network", !.located = TRUE]
      BY <1>1, <3>1 DEF WorkerState
    <3>2. CASE Goto("lb") \/ Goto("close")
      BY <1>1, <3>2, GotoFields
    <3>3. ASSUME NEW st \in {"lb", "close"}, NEW n,
                 worker' = [worker EXCEPT !.step = st, !.work.net = n]
          PROVE  /\ worker'.step \in {"network", "lb", "close"}
                 /\ worker'.snap = worker.snap
                 /\ worker'.work.fin = worker.work.fin
                 /\ worker'.work.endpoint = worker.work.endpoint
                 /\ worker'.work.applied = worker.work.applied
      BY <1>1, <3>3, NetFields
    <3>4. QED
      BY <1>8, <3>1, <3>2, <3>3 DEF ReconcileLocation, ReconcileNetwork, Leave
  <2>2. worker.work.endpoint = worker.snap.endpoint
    BY <1>2, <1>8 DEF NormalInv, ReconcileLocation, ReconcileNetwork
  <2>3. QED BY <1>2, <1>7, <2>1, <2>2 DEF NormalInv
<1>9. CASE ReconcileLoadBalancer
  <2>1. worker.step = "lb" /\ worker.work.endpoint = worker.snap.endpoint
    BY <1>2, <1>9 DEF NormalInv, ReconcileLoadBalancer
  <2>2. /\ worker'.snap = worker.snap /\ worker'.work = worker.work
        /\ \/ worker'.step = "close"
           \/ /\ worker'.step \in {"services", "endpoint"}
              /\ worker'.lb \in LoadBalancers /\ Found' \subseteq {worker'.lb}
    <3>1. CASE Leave
      BY <1>1, <3>1, GotoFields DEF Leave
    <3>2. ASSUME NEW l \in LoadBalancers, NEW st \in {"services", "endpoint"}, NEW a,
                 Got(st, l, a), Found' \subseteq {l}
          PROVE  /\ worker'.snap = worker.snap /\ worker'.work = worker.work
                 /\ worker'.step \in {"services", "endpoint"}
                 /\ worker'.lb \in LoadBalancers /\ Found' \subseteq {worker'.lb}
      BY <1>1, <3>2, GotFields
    <3>3. ASSUME NEW l \in LoadBalancers, Found = {l},
                 UNCHANGED lb \/ lb' = [lb EXCEPT ![l].joined = TRUE]
          PROVE  Found' \subseteq {l}
      BY <3>3 DEF Found, TypeOK, LoadBalancer
    <3>4. ASSUME NEW l \in LoadBalancers, Found = {}, NEW a, NEW j,
                 lb' = [lb EXCEPT ![l] = [there |-> TRUE, addressed |-> a, joined |-> j,
                                          services |-> ~ExtraServices]]
          PROVE  Found' \subseteq {l}
      BY <3>4 DEF Found, TypeOK
    <3>5. Found \subseteq LoadBalancers
      BY DEF Found
    <3>6. (IF ExtraServices THEN "services" ELSE "endpoint") \in {"services", "endpoint"}
      OBVIOUS
    <3>7. \/ Leave
          \/ \E l \in Found : \E a :
               /\ Found = {l} /\ Got("endpoint", l, a)
               /\ UNCHANGED lb \/ lb' = [lb EXCEPT ![l].joined = TRUE]
          \/ /\ Found = {}
             /\ \E l \in LoadBalancers : \E a, j :
                  /\ lb' = [lb EXCEPT ![l] = [there |-> TRUE, addressed |-> a, joined |-> j,
                                              services |-> ~ExtraServices]]
                  /\ Got(IF ExtraServices THEN "services" ELSE "endpoint", l, a)
      BY <1>9, ZenonT(60) DEF ReconcileLoadBalancer
    <3>8. CASE \E l \in Found : \E a :
                 /\ Found = {l} /\ Got("endpoint", l, a)
                 /\ UNCHANGED lb \/ lb' = [lb EXCEPT ![l].joined = TRUE]
      BY <3>2, <3>3, <3>5, <3>8
    <3>9. CASE /\ Found = {}
               /\ \E l \in LoadBalancers : \E a, j :
                    /\ lb' = [lb EXCEPT ![l] = [there |-> TRUE, addressed |-> a,
                                                joined |-> j, services |-> ~ExtraServices]]
                    /\ Got(IF ExtraServices THEN "services" ELSE "endpoint", l, a)
      BY <3>2, <3>4, <3>6, <3>9
    <3>10. QED BY <3>1, <3>7, <3>8, <3>9
  <2>3. QED BY <1>2, <1>7, <2>1, <2>2 DEF NormalInv
<1>10. CASE AddServices \/ StartManager
  <2>1. Found' \subseteq Found
    BY <1>1, <1>5, <1>10 DEF ReconcileLoadBalancer, AddServices, StartManager
  <2>2. /\ worker'.step \in {"endpoint", "close"} /\ worker'.snap = worker.snap
        /\ worker'.work = worker.work /\ worker'.lb = worker.lb
        /\ worker'.step = "endpoint" => worker.step = "services"
    <3>1. CASE Leave
      BY <1>1, <3>1, GotoFields DEF Leave
    <3>2. CASE Goto("endpoint") /\ worker.step = "services"
      BY <1>1, <3>2, GotoFields
    <3>3. QED BY <1>10, <3>1, <3>2 DEF AddServices, StartManager
  <2>3. QED BY <1>2, <1>7, <2>1, <2>2 DEF NormalInv
<1>11. CASE SetEndpoint
  <2>1. Found' = Found /\ worker.step = "endpoint"
    BY <1>11 DEF SetEndpoint, Found, cloud
  <2>2. CASE Goto("manifests") \/ Goto("panic")
    <3>1. worker'.step \in {"manifests", "panic"} /\ worker'.snap = worker.snap
          /\ worker'.work = worker.work
      BY <1>1, <2>2, GotoFields
    <3>2. QED BY <1>2, <1>7, <2>1, <3>1 DEF NormalInv
  <2>3. CASE ~(Goto("manifests") \/ Goto("panic"))
    <3> DEFINE e == IF worker.work.endpoint = None THEN worker.lb ELSE worker.work.endpoint
               w == [worker.work EXCEPT !.ready = TRUE, !.endpoint = e]
    <3>1. worker' = [worker EXCEPT !.step = "manifests", !.work = w]
      BY <1>1, <1>11, <2>3 DEF SetEndpoint, WorkerState, Object
    <3>2. w.fin = worker.work.fin /\ w.applied = worker.work.applied /\ w.endpoint = e
      BY <1>1 DEF Object
    <3> HIDE DEF w
    <3>3. /\ worker'.step = "manifests" /\ worker'.snap = worker.snap
          /\ worker'.work.fin = worker.work.fin
          /\ worker'.work.applied = worker.work.applied
          /\ worker'.work.endpoint = e
      BY <1>1, <3>1, <3>2 DEF WorkerState
    <3>4. QED BY <1>2, <1>7, <2>1, <3>3 DEF NormalInv
  <2>4. QED BY <2>2, <2>3
<1>12. CASE ReconcileManifests
  <2>1. Found' = Found
    BY <1>12 DEF ReconcileManifests, Found, cloud
  <2>2. CASE Goto("start") \/ Leave
    <3>1. worker'.step \in {"start", "close"} /\ worker'.snap = worker.snap
          /\ worker'.work = worker.work
      BY <1>1, <2>2, GotoFields DEF Leave
    <3>2. QED BY <1>2, <1>7, <2>1, <3>1 DEF NormalInv
  <2>3. CASE ~(Goto("start") \/ Leave)
    <3> DEFINE w == [worker.work EXCEPT !.applied = wanted]
    <3>1. worker' = [worker EXCEPT !.step = "start", !.work = w] /\ guest' = wanted
      BY <1>1, <1>12, <2>3 DEF ReconcileManifests, WorkerState
    <3>2. w.fin = worker.work.fin /\ w.endpoint = worker.work.endpoint
      BY <1>1 DEF Object
    <3> HIDE DEF w
    <3>3. /\ worker'.step = "start" /\ worker'.snap = worker.snap
          /\ worker'.work.fin = worker.work.fin
          /\ worker'.work.endpoint = worker.work.endpoint
      BY <1>1, <3>1, <3>2 DEF WorkerState
    <3>4. QED BY <1>1, <1>2, <1>7, <2>1, <3>1, <3>3 DEF NormalInv
  <2>4. QED BY <2>2, <2>3
<1>13. QED
  BY <1>8, <1>9, <1>10, <1>11, <1>12 DEF NormalStep

\* The steps of reconcileDelete before Close.
DeleteStep == StopManager \/ WaitForMachines \/ DeleteLoadBalancer \/ DeleteNetwork

LEMMA DeleteIInv ==
  ASSUME TypeOK, IInv, DeleteStep
  PROVE  IInv'
<1>1. /\ UNCHANGED <<obj, cache, machines, mcache, guest>>
      /\ worker.step \in {"stop", "machines", "deleteLB", "deleteNetwork"}
      /\ worker \in WorkerState /\ worker.work \in Object
  BY DEF DeleteStep, StopManager, WaitForMachines, DeleteLoadBalancer, DeleteNetwork,
         TypeOK, WorkerState, others
<1>2. worker.snap.life = "deleting" /\ DeleteInv
  BY <1>1 DEF IInv, WorkerInv, NormalInv
<1>3. OneOfEach'
  BY OneOfEachStep DEF DeleteStep, Next, WorkerStep, IInv
<1>4. Found' \subseteq Found /\ networks' \subseteq networks
  BY <1>1, FoundLater, NetworksLater
     DEF DeleteStep, Next, WorkerStep, ReconcileNetwork, ReconcileLoadBalancer
<1>5. ResourcesHaveCluster' /\ ObjectInv'
  BY <1>1, <1>4 DEF IInv, ResourcesHaveCluster, ObjectInv
<1>6. SUFFICES DeleteInv' /\ worker'.snap = worker.snap
  BY <1>2, <1>3, <1>5 DEF IInv, WorkerInv
<1>7. /\ worker.snap.fin /\ (obj.life = "live" => ~obj.fin)
      /\ cache.life = "live" => obj.life = "live"
      /\ worker.work.endpoint = worker.snap.endpoint
      /\ worker.work.applied = worker.snap.applied
      /\ worker.work.fin
  BY <1>1, <1>2 DEF DeleteInv
<1>8. CASE Leave
  <2>1. worker'.step = "close" /\ worker'.snap = worker.snap /\ worker'.work = worker.work
    BY <1>1, <1>8, GotoFields DEF Leave
  <2>2. QED BY <1>1, <1>7, <2>1 DEF DeleteInv
<1>9. CASE StopManager
  <2>1. worker'.step = "machines" /\ worker'.snap = worker.snap /\ worker'.work = worker.work
    BY <1>1, <1>9, GotoFields DEF StopManager
  <2>2. QED BY <1>1, <1>7, <2>1 DEF DeleteInv
<1>10. CASE WaitForMachines /\ ~Leave
  <2>1. worker'.step = "deleteLB" /\ worker'.snap = worker.snap /\ worker'.work = worker.work
    BY <1>1, <1>10, GotoFields DEF WaitForMachines
  <2>2. QED BY <1>1, <1>7, <2>1 DEF DeleteInv
<1>11. CASE DeleteLoadBalancer /\ ~Leave
  <2>1. Goto("deleteNetwork") /\ worker.step = "deleteLB"
    BY <1>11 DEF DeleteLoadBalancer
  <2>2. /\ worker'.step = "deleteNetwork" /\ worker'.snap = worker.snap
        /\ worker'.work = worker.work
    BY <1>1, <2>1, GotoFields
  <2>3. Found' = {}
    <3>1. ASSUME NEW l \in Found, Found = {l}, lb' = [lb EXCEPT ![l] = NoLoadBalancer]
          PROVE  Found' = {}
      BY <3>1, LoadBalancerType DEF Found, TypeOK
    <3>2. ASSUME Found = {}, UNCHANGED lb
          PROVE  Found' = {}
      BY <3>2 DEF Found
    <3>3. QED BY <1>11, <3>1, <3>2 DEF DeleteLoadBalancer
  <2>4. QED BY <1>1, <1>7, <2>2, <2>3 DEF DeleteInv
<1>12. CASE DeleteNetwork /\ ~Leave
  <2> DEFINE w == [worker.work EXCEPT !.fin = FALSE]
  <2>1. ~w.fin /\ w.endpoint = worker.work.endpoint /\ w.applied = worker.work.applied
    BY <1>1 DEF Object
  <2>2. worker' = [worker EXCEPT !.step = "close", !.work = w]
    BY <1>1, <1>12 DEF DeleteNetwork, WorkerState
  <2>3. networks' = {}
    BY <1>12 DEF DeleteNetwork, IInv, OneOfEach
  <2>4. Found' = {}
    BY <1>2, <1>4, <1>12 DEF DeleteInv, DeleteNetwork
  <2> HIDE DEF w
  <2>5. /\ worker'.step = "close" /\ worker'.snap = worker.snap /\ ~worker'.work.fin
        /\ worker'.work.endpoint = worker.work.endpoint
        /\ worker'.work.applied = worker.work.applied
    BY <1>1, <2>1, <2>2 DEF WorkerState
  <2>6. QED BY <1>1, <1>7, <2>3, <2>4, <2>5 DEF DeleteInv
<1>13. QED
  BY <1>8, <1>9, <1>10, <1>11, <1>12 DEF DeleteStep

\* What a patch can do to an object, of which reconcile however old.
LEMMA PatchInv ==
  ASSUME TypeOK, IInv, worker.step \in {"close", "panic"},
         Patch(worker.snap, worker.work), UNCHANGED <<networks, lb, machines, guest>>
  PROVE  /\ ResourcesHaveCluster'
         /\ obj'.life = "absent" => obj' = Absent
         /\ obj'.life = "deleting" => obj'.fin
         /\ obj'.applied # None => guest # None
         /\ cache.life = "live" => obj'.life # "absent"
         /\ cache.life = "deleting" /\ obj'.life = "live" => ~obj'.fin
<1> DEFINE from == worker.snap
           to == worker.work
<1>1. /\ from \in Object /\ to \in Object /\ obj \in Object
      /\ from.fin \in BOOLEAN /\ to.fin \in BOOLEAN
      /\ obj.life \in {"absent", "live", "deleting"}
  BY WorkTypes DEF TypeOK, Object
<1>2. /\ obj.life = "deleting" => obj.fin
      /\ obj.life = "absent" => obj = Absent
      /\ obj.applied # None => guest # None
      /\ cache.life = "live" => obj.life # "absent"
      /\ cache.life = "deleting" /\ obj.life = "live" => ~obj.fin
      /\ networks # {} \/ Found # {} => obj.life # "absent"
  BY DEF IInv, ObjectInv, ResourcesHaveCluster
<1>3. Found' = Found
  BY DEF Found
<1>4. CASE obj.life = "absent"
  BY <1>2, <1>3, <1>4 DEF Patch, ResourcesHaveCluster
<1>5. CASE obj.life # "absent"
  <2>1. Outcome(obj, from, to, obj')
    BY <1>1, <1>5, PatchOutcome
  <2>2. from.life \in {"live", "deleting"}
    BY DEF IInv, WorkerInv
  <2>3. CASE from.life = "live"
    <3>1. /\ cache.life = "deleting" => obj.life = "deleting"
          /\ to.fin /\ (to.applied # None => guest # None)
      BY <2>3 DEF IInv, WorkerInv, NormalInv
    <3>2. obj'.life = obj.life
      BY <1>2, <2>1, <3>1 DEF Outcome
    <3>3. QED
      BY <1>2, <1>3, <1>5, <2>1, <3>1, <3>2 DEF Outcome, ResourcesHaveCluster
  <2>4. CASE from.life = "deleting"
    <3>1. /\ from.fin /\ (obj.life = "live" => ~obj.fin)
          /\ cache.life = "live" => obj.life = "live"
          /\ to.applied = from.applied
          /\ ~to.fin => Found = {} /\ networks = {}
      BY <2>4 DEF IInv, WorkerInv, DeleteInv
    <3>2. CASE obj'.life = "absent"
      <4>1. obj' = Absent /\ obj.life = "deleting" /\ ~to.fin
        BY <1>2, <2>1, <3>2 DEF Outcome
      <4>2. QED
        BY <1>2, <1>3, <3>1, <4>1, ObjectType DEF ResourcesHaveCluster
    <3>3. CASE obj'.life # "absent"
      <4>1. /\ obj'.life = obj.life /\ obj'.applied = obj.applied
            /\ obj'.fin = obj.fin \/ (from.fin # to.fin /\ obj'.fin = to.fin)
            /\ obj'.life = "deleting" /\ obj.fin => obj'.fin
        BY <2>1, <3>1, <3>3 DEF Outcome
      <4>2. obj.life = "live" => ~obj'.fin
        <5>1. CASE obj'.fin = obj.fin
          BY <3>1, <5>1
        <5>2. CASE from.fin # to.fin /\ obj'.fin = to.fin
          <6>1. from.fin = TRUE
            BY <1>1, <3>1
          <6>2. to.fin = FALSE
            BY <1>1, <5>2, <6>1
          <6>3. QED BY <5>2, <6>2
        <5>3. QED BY <4>1, <5>1, <5>2
      <4>3. QED
        BY <1>2, <1>3, <3>3, <4>1, <4>2 DEF ResourcesHaveCluster
    <3>4. QED BY <3>2, <3>3
  <2>5. QED BY <2>2, <2>3, <2>4
<1>6. QED BY <1>4, <1>5

LEMMA EndIInv ==
  ASSUME TypeOK, IInv, Close \/ Panic \/ Crash
  PROVE  IInv'
<1>1. /\ UNCHANGED <<networks, lb, machines, guest>> /\ worker' = Idle
      /\ \/ UNCHANGED <<cache, mcache>>
         \/ cache' = obj' /\ mcache' = machines
  BY DEF Close, Panic, Crash, Restart, cloud, others
<1>2. OneOfEach' /\ WorkerInv'
  BY <1>1, IdleType DEF IInv, OneOfEach, Found, WorkerInv
<1>3. ResourcesHaveCluster' /\ ObjectInv'
  <2>1. CASE Crash
    BY <1>1, <2>1 DEF Crash, IInv, ResourcesHaveCluster, ObjectInv, Found
  <2>2. CASE Close \/ Panic
    <3>1. /\ ResourcesHaveCluster'
          /\ obj'.life = "absent" => obj' = Absent
          /\ obj'.life = "deleting" => obj'.fin
          /\ obj'.applied # None => guest # None
          /\ cache.life = "live" => obj'.life # "absent"
          /\ cache.life = "deleting" /\ obj'.life = "live" => ~obj'.fin
      BY <1>1, <2>2, PatchInv DEF Close, Panic
    <3>2. CASE UNCHANGED <<cache, mcache>>
      BY <1>1, <3>1, <3>2 DEF IInv, ObjectInv
    <3>3. CASE cache' = obj' /\ mcache' = machines
      BY <1>1, <3>1, <3>3 DEF ObjectInv
    <3>4. QED BY <1>1, <3>1, <3>2, <3>3
  <2>3. QED BY <2>1, <2>2
<1>4. QED BY <1>2, <1>3 DEF IInv

\* What happens to load balancers and to the target cluster under a reconcile.
LEMMA QuietIInv ==
  ASSUME TypeOK, IInv, [Next]_vars,
         UNCHANGED <<obj, cache, networks, machines, mcache, guest, worker>>
  PROVE  IInv'
<1>1. Found' \subseteq Found
  <2>1. ReconcileLoadBalancer => worker.step = "lb" /\ worker \in WorkerState
    BY DEF ReconcileLoadBalancer, TypeOK
  <2>2. ASSUME ReconcileLoadBalancer
        PROVE  worker' # worker
    <3>1. \/ Leave \/ \E s \in {"services", "endpoint"} : \E l, a : Got(s, l, a)
      BY <2>2, ZenonT(30) DEF ReconcileLoadBalancer
    <3>2. QED BY <2>1, <2>2, <3>1, GotoFields, GotFields DEF Leave
  <2>3. QED BY <2>2, FoundLater
<1>2. OneOfEach'
  BY OneOfEachStep DEF IInv
<1>3. ResourcesHaveCluster' /\ ObjectInv'
  BY <1>1 DEF IInv, ResourcesHaveCluster, ObjectInv
<1>4. NormalInv => NormalInv'
  BY <1>1 DEF NormalInv
<1>5. DeleteInv => DeleteInv'
  BY <1>1 DEF DeleteInv
<1>6. QED
  BY <1>2, <1>3, <1>4, <1>5 DEF IInv, WorkerInv

\* Machines come to a live cluster, go, and are seen.
LEMMA MachinesIInv ==
  ASSUME TypeOK, IInv, WatchMachines \/ \E m \in Machines : AddMachine(m) \/ RemoveMachine(m)
  PROVE  IInv'
<1>1. UNCHANGED <<obj, cache, networks, lb, guest, worker>>
  BY DEF WatchMachines, AddMachine, RemoveMachine, cloud
<1>2. OneOfEach' /\ ResourcesHaveCluster' /\ ObjectInv'
  BY <1>1 DEF IInv, OneOfEach, ResourcesHaveCluster, ObjectInv, Found
<1>3. NormalInv => NormalInv'
  BY <1>1 DEF NormalInv, Found
<1>4. DeleteInv => DeleteInv'
  BY <1>1 DEF DeleteInv, Found
<1>5. QED
  BY <1>1, <1>2, <1>3, <1>4 DEF IInv, WorkerInv

\* A new cluster begins where nothing is left of the earlier one but what the
\* informer and a reconcile of its deletion have seen.
LEMMA CreateIInv ==
  ASSUME TypeOK, IInv, Create
  PROVE  IInv'
<1>1. /\ UNCHANGED <<cache, networks, lb, machines, mcache, worker>>
      /\ obj.life = "absent" /\ guest' = None
      /\ \E defaults \in BOOLEAN : obj' = Fresh(defaults)
  BY FlagsAssumption DEF Create, cloud
<1>2. obj'.life = "live" /\ ~obj'.fin /\ obj'.applied = None
  BY <1>1, ObjectType
<1>3. OneOfEach' /\ ResourcesHaveCluster' /\ ObjectInv'
  BY <1>1, <1>2 DEF IInv, OneOfEach, ResourcesHaveCluster, ObjectInv, Found
<1>4. ~NormalInv
  BY <1>1 DEF NormalInv
<1>5. DeleteInv => DeleteInv'
  BY <1>1, <1>2 DEF DeleteInv, Found
<1>6. QED
  BY <1>1, <1>3, <1>4, <1>5 DEF IInv, WorkerInv

LEMMA DeletedIInv ==
  ASSUME TypeOK, IInv, EarlyDelete = FALSE, Delete
  PROVE  IInv'
<1>1. /\ UNCHANGED <<cache, networks, lb, machines, mcache, guest, worker>>
      /\ obj.life = "live" /\ obj.fin /\ obj \in Object
      /\ obj' = Collected([obj EXCEPT !.life = "deleting"])
  BY DEF Delete, cloud, others, TypeOK
<1>2. obj'.life = "deleting" /\ obj'.fin /\ obj'.applied = obj.applied
  BY <1>1 DEF Collected, Object
<1>3. OneOfEach' /\ ResourcesHaveCluster' /\ ObjectInv'
  BY <1>1, <1>2 DEF IInv, OneOfEach, ResourcesHaveCluster, ObjectInv, Found
<1>4. NormalInv => NormalInv'
  BY <1>1, <1>2 DEF NormalInv, Found
<1>5. ~DeleteInv
  BY <1>1 DEF DeleteInv
<1>6. QED
  BY <1>1, <1>3, <1>4, <1>5 DEF IInv, WorkerInv

\* The informer's step: what it delivers is what is there.
LEMMA WatchIInv ==
  ASSUME TypeOK, IInv, Watch
  PROVE  IInv'
<1>1. UNCHANGED <<obj, networks, lb, machines, mcache, guest, worker>> /\ cache' = obj
  BY DEF Watch, cloud, others
<1>2. OneOfEach' /\ ResourcesHaveCluster' /\ ObjectInv'
  BY <1>1 DEF IInv, OneOfEach, ResourcesHaveCluster, ObjectInv, Found
<1>3. NormalInv => NormalInv'
  BY <1>1 DEF NormalInv, Found
<1>4. DeleteInv => DeleteInv'
  BY <1>1 DEF DeleteInv, Found
<1>5. QED
  BY <1>1, <1>2, <1>3, <1>4 DEF IInv, WorkerInv

LEMMA StepIInv ==
  ASSUME TypeOK, IInv, EarlyDelete = FALSE, [Next]_vars
  PROVE  IInv'
<1>1. CASE \/ ChangeManifests \/ UNCHANGED vars
           \/ \E m \in Machines : Serve(m)
           \/ \E l \in LoadBalancers : GetAddress(l) \/ LoseLoadBalancer(l)
  BY <1>1, QuietIInv
     DEF Serve, ChangeManifests, vars, GetAddress, LoseLoadBalancer, cloud, others
<1>2. QED
  BY <1>1, ReconcileIInv, NormalIInv, DeleteIInv, EndIInv, MachinesIInv, CreateIInv,
     DeletedIInv, WatchIInv
     DEF Next, WorkerStep, Environment, NormalStep, DeleteStep

LEMMA Invariance ==
  ASSUME EarlyDelete = FALSE
  PROVE  Spec => [](TypeOK /\ IInv)
<1>1. TypeOK /\ IInv /\ [Next]_vars => (TypeOK /\ IInv)'
  BY StepType, StepIInv
<1>2. QED
  BY <1>1, InitType, InitIInv, PTL DEF Spec

\* For users who wait for the finalizer, no network and no load balancer is left
\* behind by a cluster that is gone.
THEOREM NoLeftovers ==
  ASSUME EarlyDelete = FALSE
  PROVE  Spec => []ResourcesHaveCluster
<1>1. IInv => ResourcesHaveCluster
  BY DEF IInv
<1>2. QED BY <1>1, Invariance, PTL

\* For such users, the status names applied manifests only when the target
\* cluster has had manifests applied to it.
THEOREM Initialized ==
  ASSUME EarlyDelete = FALSE
  PROVE  Spec => []InitializedMeansApplied
<1>1. IInv => InitializedMeansApplied
  BY DEF IInv, ObjectInv, InitializedMeansApplied
<1>2. QED BY <1>1, Invariance, PTL

-----------------------------------------------------------------------------
(* What a step may not do.                                                 *)

\* The steps that change the object, and what they leave of it.
LEMMA ObjectStep ==
  ASSUME TypeOK, IInv, EarlyDelete = FALSE, [Next]_vars, obj.life # "absent"
  PROVE  \/ obj'.fin = obj.fin /\ obj'.endpoint = obj.endpoint
         \/ /\ worker.step \in {"close", "panic"} /\ UNCHANGED <<lb, machines>>
            /\ Outcome(obj, worker.snap, worker.work, obj')
<1>1. CASE UNCHANGED obj
  BY <1>1
<1>2. CASE Delete
  BY <1>2 DEF Delete, TypeOK, Collected, Object
<1>3. CASE (Close \/ Panic) /\ ~UNCHANGED obj
  <2>1. Patch(worker.snap, worker.work) /\ obj.life # "absent"
    BY <1>3 DEF Close, Panic, Patch
  <2>2. worker.step \in {"close", "panic"} /\ UNCHANGED <<lb, machines>>
    BY <1>3 DEF Close, Panic, Restart, cloud, others
  <2>3. QED BY <2>1, <2>2, WorkTypes, PatchOutcome
<1>4. QED
  BY <1>1, <1>2, <1>3
     DEF Next, WorkerStep, Environment, vars, Reconcile, ReconcileLocation,
         ReconcileNetwork, ReconcileLoadBalancer, AddServices, SetEndpoint,
         ReconcileManifests, StartManager, StopManager, WaitForMachines,
         DeleteLoadBalancer, DeleteNetwork, Crash, Create, Watch, WatchMachines, Serve,
         ChangeManifests, AddMachine, RemoveMachine, GetAddress, LoseLoadBalancer

\* For users who wait for the finalizer, the endpoint of a cluster is not moved
\* away from a load balancer that is there.
THEOREM EndpointStays ==
  ASSUME EarlyDelete = FALSE
  PROVE  Spec => EndpointKept
<1>1. ASSUME TypeOK, IInv, [Next]_vars, obj.endpoint # None,
             obj'.endpoint # obj.endpoint, obj'.life # "absent"
      PROVE  ~lb[obj.endpoint].there
  <2>1. obj.life # "absent" /\ obj.endpoint \in LoadBalancers
    BY <1>1, ObjectType DEF IInv, ObjectInv, TypeOK, Object
  <2>2. /\ worker.step \in {"close", "panic"}
        /\ Outcome(obj, worker.snap, worker.work, obj')
    BY <1>1, <2>1, ObjectStep
  <2>3. /\ worker.work.endpoint # worker.snap.endpoint
        /\ obj'.endpoint = worker.work.endpoint
    BY <1>1, <2>2 DEF Outcome
  <2>4. NormalInv
    BY <1>1, <2>2, <2>3 DEF IInv, WorkerInv, DeleteInv
  <2>5. Found \subseteq {obj'.endpoint}
    BY <2>3, <2>4 DEF NormalInv
  <2>6. obj.endpoint \notin Found
    BY <1>1, <2>5
  <2>7. QED BY <2>1, <2>6 DEF Found
<1>2. TypeOK /\ IInv /\ [Next]_vars =>
        [obj.endpoint # None /\ obj'.endpoint # obj.endpoint
         => obj'.life = "absent" \/ ~lb[obj.endpoint].there]_vars
  BY <1>1
<1>3. QED
  BY <1>2, Invariance, PTL DEF Spec, EndpointKept
=============================================================================
