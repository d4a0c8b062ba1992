---------------------------- MODULE HcloudCluster ----------------------------
(***************************************************************************)
(* The HcloudCluster controller (controllers/hcloudcluster_controller.go)  *)
(* with the services it calls in turn: location, network and load balancer *)
(* (pkg/cloud/resources), the manifests for the target cluster, and the    *)
(* target cluster manager.  One worker reconciles one HcloudCluster.       *)
(*                                                                         *)
(* A step of the worker is one remote call that changes something, with    *)
(* the reads that lead to it.  What it learns and decides stays in memory  *)
(* until the scope is closed, the finalizer included.                      *)
(***************************************************************************)
EXTENDS Naturals

CONSTANTS
  Networks, LoadBalancers,  \* ids of private networks and of load balancers
  Machines,          \* names of HcloudMachines of the cluster
  Versions,          \* contents of the manifests, by their hash
  WantsNetwork,      \* spec.network is not empty
  ExtraServices,     \* spec.controlPlaneLoadbalancer has more than one service
  DefaultLocations,  \* the webhook is deployed, and users may leave spec.locations empty
  LateAddress,       \* a new load balancer can be without its IPv4 for a while
  EarlyDelete,       \* users delete a cluster that has no finalizer yet, too
  MaxFaults,         \* bound on failed calls, crashes and interventions together
  None               \* no network, no version

ASSUME MaxFaultsAssumption == MaxFaults \in Nat
ASSUME NoneAssumption == None \notin Networks \cup LoadBalancers \cup Versions
ASSUME NetworksAssumption == Networks # {}
ASSUME FlagsAssumption ==
  {WantsNetwork, ExtraServices, DefaultLocations, LateAddress, EarlyDelete} \subseteq BOOLEAN

VARIABLES
  obj,        \* the HcloudCluster in the API server
  cache,      \* the HcloudCluster in the manager's informer cache
  networks,   \* the networks that carry the cluster's label
  lb,         \* lb[l]: load balancer l
  machines,   \* the HcloudMachines in the API server
  mcache,     \* the HcloudMachines in their own informer's cache, which lags too
  serving,    \* the control planes that are ready and whose API server answers
  wanted,     \* the hash of the manifests as configured now
  guest,      \* what the target cluster had applied to it last
  worker,     \* the reconcile in flight
  faults

vars == <<obj, cache, networks, lb, machines, mcache, serving, wanted, guest,
          worker, faults>>

cloud  == <<networks, lb>>
others == <<machines, mcache, serving, wanted>>

-----------------------------------------------------------------------------
(* The data.                                                               *)

\* endpoint: the load balancer whose IPv4 is the host of
\* Spec.ControlPlaneEndpoint; ready: Status.Ready;
\* net: Status.Network is set; applied: Status.Manifests.AppliedHash; defaults:
\* its user left spec.locations empty.
Object == [life : {"absent", "live", "deleting"}, fin : BOOLEAN,
           endpoint : LoadBalancers \cup {None}, ready : BOOLEAN,
           net : BOOLEAN, applied : Versions \cup {None},
           defaults : BOOLEAN]

Absent == [life |-> "absent", fin |-> FALSE, endpoint |-> None, ready |-> FALSE,
           net |-> FALSE, applied |-> None, defaults |-> FALSE]
Fresh(defaults) == [Absent EXCEPT !.life = "live", !.defaults = defaults]

\* addressed: it has its IPv4; joined: it is attached to the network;
\* services: the services after the first one are added.
LoadBalancer == [there : BOOLEAN, addressed : BOOLEAN, joined : BOOLEAN,
                 services : BOOLEAN]
NoLoadBalancer == [there |-> FALSE, addressed |-> FALSE, joined |-> FALSE,
                   services |-> FALSE]

Steps == {"idle", "location", "network", "lb", "services", "endpoint", "manifests",
          "start", "stop", "machines", "deleteLB", "deleteNetwork", "close", "panic"}

\* snap and work as in HcloudMachine; lb is the load balancer found or created,
\* addressed what its answer said; located: SetStatusLocations was reached.
WorkerState == [step : Steps, snap : Object, work : Object,
                addressed : BOOLEAN, located : BOOLEAN,
                lb : LoadBalancers \cup {None}]
Idle == [step |-> "idle", snap |-> Absent, work |-> Absent,
         addressed |-> FALSE, located |-> FALSE, lb |-> None]

Init ==
  /\ obj = Absent /\ cache = Absent
  /\ networks = {} /\ lb = [l \in LoadBalancers |-> NoLoadBalancer]
  /\ machines = {} /\ mcache = {}
  /\ serving = {} /\ wanted \in Versions /\ guest = None
  /\ worker = Idle
  /\ faults = 0

TypeOK ==
  /\ obj \in Object /\ cache \in Object
  /\ networks \subseteq Networks /\ lb \in [LoadBalancers -> LoadBalancer]
  /\ machines \subseteq Machines /\ mcache \subseteq Machines
  /\ serving \subseteq Machines
  /\ wanted \in Versions /\ guest \in Versions \cup {None}
  /\ worker \in WorkerState
  /\ faults \in 0 .. MaxFaults

Fault == faults < MaxFaults /\ faults' = faults + 1
NoFault == UNCHANGED faults

\* FindLoadBalancer lists by the cluster's label.
Found == {l \in LoadBalancers : lb[l].there}

-----------------------------------------------------------------------------
(* The patch helper and the webhook.                                       *)

Collected(o) == IF o.life = "deleting" /\ ~o.fin THEN Absent ELSE o

\* Metadata and spec go in one call, status in another.  ValidateUpdate denies
\* the first when it changes spec.locations, as SetStatusLocations has done to
\* a cluster that left them to the default.
Denied == worker.work.defaults /\ worker.located

SpecPatched(o, from, to) ==
  Collected([o EXCEPT !.fin = IF from.fin = to.fin THEN o.fin ELSE to.fin,
                      !.endpoint = IF from.endpoint = to.endpoint
                                   THEN o.endpoint ELSE to.endpoint])

StatusPatched(o, from, to) ==
  IF o.life = "absent" THEN o
  ELSE [o EXCEPT !.ready = IF from.ready = to.ready THEN o.ready ELSE to.ready,
                 !.net = IF from.net = to.net THEN o.net ELSE to.net,
                 !.applied = IF from.applied = to.applied
                             THEN o.applied ELSE to.applied]

\* Close: everything is patched, or the webhook denies metadata and spec, or
\* a fault leaves any part of it; an object that is gone cannot be patched.
Patch(from, to) ==
  \/ obj.life = "absent" /\ UNCHANGED obj /\ NoFault
  \/ /\ obj.life # "absent" /\ NoFault
     /\ obj' = IF Denied THEN StatusPatched(obj, from, to)
               ELSE StatusPatched(SpecPatched(obj, from, to), from, to)
  \/ /\ obj.life # "absent" /\ Fault
     /\ obj' \in {obj, StatusPatched(obj, from, to)}
                   \cup IF Denied THEN {} ELSE {SpecPatched(obj, from, to)}

-----------------------------------------------------------------------------
(* reconcileNormal.                                                        *)

Goto(step) == worker' = [worker EXCEPT !.step = step]

\* Every return after the scope exists runs the deferred Close.  A reconcile
\* that has more to do asks for another one.
Leave == Goto("close")

\* Reconcile up to the scope; reconcileNormal adds the finalizer in memory.  One
\* whose owner is not found, or that is paused, returns before and does nothing.
Reconcile ==
  /\ worker.step = "idle" /\ cache.life # "absent"
  /\ worker' = [Idle EXCEPT
       !.step = IF cache.life = "deleting" THEN "stop" ELSE "location",
       !.snap = cache,
       !.work = IF cache.life = "deleting" THEN cache ELSE [cache EXCEPT !.fin = TRUE]]
  /\ UNCHANGED <<obj, cache, cloud, others, guest, faults>>

\* location.Reconcile, and SetStatusLocations.
ReconcileLocation ==
  /\ worker.step = "location"
  /\ \/ worker' = [worker EXCEPT !.step = "network", !.located = TRUE] /\ NoFault
     \/ Leave /\ Fault
  /\ UNCHANGED <<obj, cache, cloud, others, guest>>

\* The id a first network gets: nothing tells it from another.
NewNetwork == CHOOSE n \in Networks : TRUE

\* Mutant: a network is looked for only if the status has one.
NetworkByStatus ==
  /\ worker.step = "network"
  /\ \/ worker.work.net /\ Goto("lb") /\ NoFault /\ UNCHANGED networks
     \/ /\ ~worker.work.net
        /\ \E n \in Networks \ networks :
             /\ networks' = networks \cup {n}
             /\ \/ NoFault /\ worker' = [worker EXCEPT !.step = "lb", !.work.net = TRUE]
                \/ Fault /\ Leave
  /\ UNCHANGED <<obj, cache, lb, others, guest>>

\* network.Reconcile: take the first network with the label, or create one.
ReconcileNetwork ==
  /\ worker.step = "network"
  /\ \/ ~WantsNetwork /\ Goto("lb") /\ NoFault /\ UNCHANGED networks
     \/ /\ WantsNetwork /\ networks # {} /\ NoFault /\ UNCHANGED networks
        /\ worker' = [worker EXCEPT !.step = "lb", !.work.net = TRUE]
     \/ /\ WantsNetwork /\ networks = {}
        /\ \/ /\ networks' = {NewNetwork} /\ NoFault
              /\ worker' = [worker EXCEPT !.step = "lb", !.work.net = TRUE]
           \/ /\ networks' \in {{}, {NewNetwork}} /\ Fault
              /\ worker' = [worker EXCEPT !.step = "close", !.work.net = FALSE]
     \/ WantsNetwork /\ Leave /\ Fault /\ UNCHANGED networks
  /\ UNCHANGED <<obj, cache, lb, others, guest>>

\* The load balancer l, and what the answer that named it said.
Got(step, l, addressed) ==
  worker' = [worker EXCEPT !.step = step, !.lb = l, !.addressed = addressed]

\* Mutant: a load balancer is looked for only if the status has one.
LoadBalancerByStatus ==
  /\ worker.step = "lb"
  /\ \/ \E l \in Found : worker.work.ready /\ Got("endpoint", l, TRUE) /\ UNCHANGED lb
     \/ \E l \in LoadBalancers \ Found :
          /\ ~worker.work.ready /\ Got("endpoint", l, TRUE)
          /\ lb' = [lb EXCEPT ![l] = [there |-> TRUE, addressed |-> TRUE,
                                      joined |-> TRUE, services |-> TRUE]]
  /\ NoFault
  /\ UNCHANGED <<obj, cache, networks, others, guest>>

\* loadbalancer.Reconcile: more than one is an error; the one there is gets
\* attached to the network if it is not; with none, one is created, joining
\* the network then or a little later.
ReconcileLoadBalancer ==
  /\ worker.step = "lb"
  /\ LET joins == worker.work.net IN
     \/ (\E l, k \in Found : l # k) /\ Leave /\ NoFault /\ UNCHANGED lb
     \/ \E l \in Found :
          /\ Found = {l}
          /\ \/ /\ lb[l].joined \/ ~joins
                /\ Got("endpoint", l, lb[l].addressed) /\ NoFault /\ UNCHANGED lb
             \/ /\ joins /\ ~lb[l].joined
                /\ lb' = [lb EXCEPT ![l].joined = TRUE]
                /\ \/ Got("endpoint", l, lb[l].addressed) /\ NoFault
                   \/ Leave /\ Fault
     \/ /\ Found = {}
        /\ \E l \in LoadBalancers, a \in {TRUE, ~LateAddress}, j \in {joins, FALSE} :
             /\ lb' = [lb EXCEPT ![l] = [there |-> TRUE, addressed |-> a, joined |-> j,
                                         services |-> ~ExtraServices]]
             /\ \/ Got(IF ExtraServices THEN "services" ELSE "endpoint", l, a) /\ NoFault
                \/ Leave /\ Fault
     \/ Leave /\ Fault /\ UNCHANGED lb
  /\ UNCHANGED <<obj, cache, networks, others, guest>>

\* The services after the first, added by the reconcile that created it.
AddServices ==
  /\ worker.step = "services"
  /\ \/ /\ lb' = [lb EXCEPT ![worker.lb].services = lb[worker.lb].there]
        /\ Goto("endpoint") /\ NoFault
     \/ Leave /\ Fault /\ UNCHANGED lb
  /\ UNCHANGED <<obj, cache, networks, others, guest>>

\* With an IPv4 the endpoint, unless it is set, and Ready are set.  Without one
\* the reconcile goes on to the parameters of the manifests, which read the
\* endpoint.
SetEndpoint ==
  /\ worker.step = "endpoint"
  /\ \/ /\ worker.addressed
        /\ worker' = [worker EXCEPT
             !.step = "manifests", !.work.ready = TRUE,
             !.work.endpoint = IF @ = None THEN worker.lb ELSE @]
     \/ ~worker.addressed /\ worker.work.endpoint # None /\ Goto("manifests")
     \/ ~worker.addressed /\ worker.work.endpoint = None /\ Goto("panic")
  /\ UNCHANGED <<obj, cache, cloud, others, guest, faults>>

\* The API servers that a reconcile can find: those of the machines it lists.
Answering == serving \cap mcache

\* Mutant: the hash is recorded when no API server is ready.
ManifestsUnready ==
  /\ worker.step = "manifests"
  /\ worker' = [worker EXCEPT !.step = "start", !.work.applied = wanted]
  /\ guest' = IF Answering # {} /\ worker.work.applied # wanted THEN wanted ELSE guest
  /\ UNCHANGED <<obj, cache, cloud, others, faults>>

\* reconcileManifests: apply them unless the recorded hash is the wanted one.
\* No ready control plane, or none that answers, ends the reconcile.
ReconcileManifests ==
  /\ worker.step = "manifests"
  /\ \/ worker.work.applied = wanted /\ Goto("start") /\ NoFault /\ UNCHANGED guest
     \/ /\ worker.work.applied # wanted /\ Answering # {}
        /\ guest' = wanted
        /\ \/ worker' = [worker EXCEPT !.step = "start", !.work.applied = wanted] /\ NoFault
           \/ Leave /\ Fault
     \/ worker.work.applied # wanted /\ Answering = {} /\ Leave /\ NoFault /\ UNCHANGED guest
     \/ Leave /\ Fault /\ UNCHANGED guest
  /\ UNCHANGED <<obj, cache, cloud, others>>

\* reconcileTargetClusterManager, which is the module TargetClusterManagers; its
\* error ends the reconcile as its success does.
StartManager ==
  /\ worker.step = "start"
  /\ Leave
  /\ UNCHANGED <<obj, cache, cloud, others, guest, faults>>

-----------------------------------------------------------------------------
(* reconcileDelete.                                                        *)

\* reconcileTargetClusterManager, for a deleted cluster.
StopManager ==
  /\ worker.step = "stop"
  /\ Goto("machines")
  /\ UNCHANGED <<obj, cache, cloud, others, guest, faults>>

\* Wait for the machines ListMachines returns.
WaitForMachines ==
  /\ worker.step = "machines"
  /\ \/ mcache # {} /\ Leave /\ NoFault
     \/ mcache = {} /\ Goto("deleteLB") /\ NoFault
     \/ Leave /\ Fault
  /\ UNCHANGED <<obj, cache, cloud, others, guest>>

\* Mutant: an error is taken for the load balancer's absence.
DeleteLoadBalancerOnce ==
  /\ worker.step = "deleteLB"
  /\ Goto("deleteNetwork")
  /\ \/ lb' = [l \in LoadBalancers |-> NoLoadBalancer] /\ NoFault
     \/ UNCHANGED lb /\ Fault
  /\ UNCHANGED <<obj, cache, networks, others, guest>>

\* loadbalancer.Delete.
DeleteLoadBalancer ==
  /\ worker.step = "deleteLB"
  /\ \/ (\E l, k \in Found : l # k) /\ Leave /\ NoFault /\ UNCHANGED lb
     \/ Found = {} /\ Goto("deleteNetwork") /\ NoFault /\ UNCHANGED lb
     \/ \E l \in Found :
          /\ Found = {l}
          /\ lb' = [lb EXCEPT ![l] = NoLoadBalancer]
          /\ \/ Goto("deleteNetwork") /\ NoFault
             \/ Leave /\ Fault
     \/ Leave /\ Fault /\ UNCHANGED lb
  /\ UNCHANGED <<obj, cache, networks, others, guest>>

\* Mutant: a failed deletion is left to the next reconcile, which never comes.
DeleteNetworkNever ==
  /\ worker.step = "deleteNetwork"
  /\ Leave /\ NoFault
  /\ UNCHANGED <<obj, cache, cloud, others, guest>>

\* network.Delete, for the first network with the label; then the finalizer is
\* removed in memory.
DeleteNetwork ==
  /\ worker.step = "deleteNetwork"
  /\ \/ /\ NoFault
        /\ \/ networks = {} /\ UNCHANGED networks
           \/ \E n \in networks : networks' = networks \ {n}
        /\ worker' = [worker EXCEPT !.step = "close", !.work.fin = FALSE]
     \/ /\ Fault /\ Leave
        /\ \/ UNCHANGED networks
           \/ \E n \in networks : networks' = networks \ {n}
  /\ UNCHANGED <<obj, cache, lb, others, guest>>

-----------------------------------------------------------------------------
(* The end of a reconcile, and crashes.                                    *)

\* Mutant: the patch helper is told of the status alone.
CloseStatusOnly ==
  /\ worker.step = "close"
  /\ obj' = StatusPatched(obj, worker.snap, worker.work) /\ NoFault
  /\ worker' = Idle
  /\ UNCHANGED <<cache, cloud, others, guest>>

Close ==
  /\ worker.step = "close"
  /\ Patch(worker.snap, worker.work)
  /\ worker' = Idle
  /\ UNCHANGED <<cache, cloud, others, guest>>

\* The process starts again with what the API server has.
Restart ==
  /\ worker' = Idle
  /\ cache' = obj' /\ mcache' = machines
  /\ UNCHANGED <<cloud, machines, serving, wanted, guest>>

Panic == worker.step = "panic" /\ Patch(worker.snap, worker.work) /\ Restart
Crash == Fault /\ UNCHANGED obj /\ Restart

WorkerStep ==
  \/ ReconcileLocation \/ ReconcileNetwork \/ ReconcileLoadBalancer \/ AddServices
  \/ SetEndpoint \/ ReconcileManifests \/ StartManager
  \/ StopManager \/ WaitForMachines \/ DeleteLoadBalancer \/ DeleteNetwork
  \/ Close \/ Panic

-----------------------------------------------------------------------------
(* What the worker lives with.                                             *)

\* A new cluster has a new target cluster.
Create ==
  /\ obj.life = "absent"
  /\ \E defaults \in {FALSE, DefaultLocations} : obj' = Fresh(defaults)
  /\ serving' = {} /\ guest' = None
  /\ UNCHANGED <<cache, cloud, machines, mcache, wanted, worker, faults>>

Delete ==
  /\ obj.life = "live" /\ (EarlyDelete \/ obj.fin)
  /\ obj' = Collected([obj EXCEPT !.life = "deleting"])
  /\ UNCHANGED <<cache, cloud, others, guest, worker, faults>>

Watch ==
  /\ cache # obj /\ cache' = obj
  /\ UNCHANGED <<obj, cloud, others, guest, worker, faults>>

\* Machines are added to a cluster that is live; they go once they are deleted
\* and their controller, which needs the HcloudCluster for it, has seen to them.
AddMachine(m) ==
  /\ obj.life = "live" /\ m \notin machines
  /\ machines' = machines \cup {m}
  /\ UNCHANGED <<obj, cache, cloud, mcache, serving, wanted, guest, worker, faults>>

RemoveMachine(m) ==
  /\ m \in machines /\ cache.life # "absent"
  /\ machines' = machines \ {m} /\ serving' = serving \ {m}
  /\ UNCHANGED <<obj, cache, cloud, mcache, wanted, guest, worker, faults>>

WatchMachines ==
  /\ mcache # machines /\ mcache' = machines
  /\ UNCHANGED <<obj, cache, cloud, machines, serving, wanted, guest, worker, faults>>

\* A control plane comes up, or its API server no longer answers.
Serve(m) ==
  /\ \/ /\ m \in machines \ serving /\ obj.endpoint # None
        /\ serving' = serving \cup {m}
     \/ m \in serving /\ serving' = serving \ {m}
  /\ UNCHANGED <<obj, cache, cloud, machines, mcache, wanted, guest, worker, faults>>

\* The manager starts with other manifests, or a parameter of theirs changes.
ChangeManifests ==
  /\ wanted' \in Versions \ {wanted}
  /\ UNCHANGED <<obj, cache, cloud, machines, mcache, serving, guest, worker, faults>>

GetAddress(l) ==
  /\ lb[l].there /\ ~lb[l].addressed
  /\ lb' = [lb EXCEPT ![l].addressed = TRUE]
  /\ UNCHANGED <<obj, cache, networks, others, guest, worker, faults>>

\* Somebody removes the load balancer in the provider's console.
LoseLoadBalancer(l) ==
  /\ lb[l].there /\ Fault
  /\ lb' = [lb EXCEPT ![l] = NoLoadBalancer]
  /\ UNCHANGED <<obj, cache, networks, others, guest, worker>>

Environment ==
  \/ Create \/ Delete \/ Watch \/ WatchMachines \/ ChangeManifests
  \/ \E m \in Machines : AddMachine(m) \/ RemoveMachine(m) \/ Serve(m)
  \/ \E l \in LoadBalancers : GetAddress(l) \/ LoseLoadBalancer(l)

Next == Reconcile \/ WorkerStep \/ Crash \/ Environment

Spec == Init /\ [][Next]_vars

\* A reconcile goes on, caches catch up, and the provider gives the address.
\* That there are reconciles is not assumed here: see NotHeldUp.
Fairness ==
  /\ WF_vars(WorkerStep) /\ WF_vars(Watch) /\ WF_vars(WatchMachines)
  /\ \A l \in LoadBalancers : WF_vars(GetAddress(l))

FairSpec == Spec /\ Fairness

-----------------------------------------------------------------------------
(* Safety.                                                                 *)

\* "ClusterFinalizer allows ReconcileHcloudCluster to clean up Hcloud resources
\* associated with HcloudCluster before removing it from the apiserver"
\* (api/v1alpha3/hcloudcluster_types.go:26): no network and no load balancer is
\* left behind by a cluster that is gone.
ResourcesHaveCluster == networks # {} \/ Found # {} => obj.life # "absent"

\* A create whose answer was lost is found again by its label: a cluster has at
\* most one network and one load balancer.
OneOfEach ==
  /\ \A n, k \in networks : n = k
  /\ \A l, k \in Found : l = k

\* "Wait for all hcloudMachines to be deleted" (hcloudcluster_controller.go:149):
\* the load balancer, the network and the finalizer are given up only when no
\* machine is left, which would have lost its network and its cluster object.
MachinesGoFirst ==
  [][(\/ worker.step \in {"deleteLB", "deleteNetwork"} /\ cloud' # cloud /\ worker' # worker
      \/ obj.fin /\ ~obj'.fin)
     => machines = {} \/ obj.life = "live"]_vars

\* The endpoint, which is in every kubeconfig and certificate, is not moved away
\* from a load balancer that is there: not by a reconcile that has seen an old
\* object without it either.
EndpointKept ==
  [][obj.endpoint # None /\ obj'.endpoint # obj.endpoint
     => obj'.life = "absent" \/ ~lb[obj.endpoint].there]_vars

\* Status.Manifests says initialized only when the target cluster has had
\* manifests applied to it, whatever patches failed in between.
InitializedMeansApplied == obj.applied # None => guest # None

\* "Manifests stores the if the cluster has already applied the minimal
\* manifests" (hcloudcluster_types.go:150): when the recorded hash is the wanted
\* one, which is what reconcileManifests trusts, the target cluster has them.
AppliedHashIsTrue ==
  worker.step = "idle" /\ obj.applied = wanted => guest = wanted

\* "If there is more than one service in the specs, add them here one after
\* another" (loadbalancer.go:159): a cluster reported ready has them all.
ReadyMeansAllServices ==
  obj.ready => \A l \in Found : lb[l].services \/ worker.step = "services"

\* "In the case when the controlPlaneLoadBalancer has an IPv4 we use it as
\* default" (hcloudcluster_controller.go:206): without one the reconcile goes
\* on, and does not take the process down.
NoPanic == worker.step # "panic"

\* The inductive invariant, for users who wait for the finalizer.  The object goes
\* only by the Close of a reconcile of its deletion: a live object in the cache
\* is the one in the API server, while one in deletion may be an earlier one, of
\* which nothing is left.
ObjectInv ==
  /\ obj.life = "absent" => obj = Absent
  /\ obj.life = "deleting" => obj.fin
  /\ obj.applied # None => guest # None
  /\ cache.life = "live" => obj.life # "absent" /\ (cache.applied # None => guest # None)
  /\ cache.life = "deleting" => cache.fin /\ (obj.life = "live" => ~obj.fin)

\* A reconcile of a live object keeps its finalizer, and records a hash or an
\* endpoint after what they stand for.
NormalInv ==
  /\ worker.step \in {"location", "network", "lb", "services", "endpoint",
                      "manifests", "start", "close", "panic"}
  /\ obj.life # "absent" /\ (cache.life = "deleting" => obj.life = "deleting")
  /\ worker.work.fin
  /\ worker.work.applied # None => guest # None
  /\ worker.step \in {"location", "network", "lb"}
       => worker.work.endpoint = worker.snap.endpoint
  /\ worker.step \in {"services", "endpoint"}
       => worker.lb \in LoadBalancers /\ Found \subseteq {worker.lb}
  /\ worker.work.endpoint # worker.snap.endpoint
       => worker.work.endpoint \in LoadBalancers /\ Found \subseteq {worker.work.endpoint}

\* A reconcile of a deletion gives up one thing after another, the finalizer last.
DeleteInv ==
  /\ worker.step \in {"stop", "machines", "deleteLB", "deleteNetwork", "close"}
  /\ worker.snap.fin
  /\ obj.life = "live" => ~obj.fin
  /\ cache.life = "live" => obj.life = "live"
  /\ worker.work.endpoint = worker.snap.endpoint
  /\ worker.work.applied = worker.snap.applied
  /\ worker.step # "close" => worker.work.fin
  /\ worker.step = "deleteNetwork" \/ ~worker.work.fin => Found = {}
  /\ ~worker.work.fin => networks = {}

WorkerInv ==
  worker.step # "idle" =>
    /\ worker.snap.life \in {"live", "deleting"}
    /\ worker.snap.life = "live" => NormalInv
    /\ worker.snap.life = "deleting" => DeleteInv

IInv == OneOfEach /\ ResourcesHaveCluster /\ ObjectInv /\ WorkerInv

-----------------------------------------------------------------------------
(* Liveness, under FairSpec.                                               *)

\* Reconciles get past the look-up of the owner and the question whether the
\* cluster is paused again and again: then one that has something left to do asks
\* for another (an error or RequeueAfter), and the informers resync.
NotHeldUp == []<>(worker.step # "idle")

\* A cluster whose user named its locations, and that is not held up, becomes
\* ready with an endpoint.
ClusterBecomesReady ==
  NotHeldUp =>
    (obj.life = "live" ~> \/ obj.life # "live" \/ obj.defaults
                          \/ obj.ready /\ obj.endpoint # None)

\* So does one without: "if no locations have been specified, use the default
\* networkZone" (location.go:43).
EveryClusterBecomesReady ==
  NotHeldUp =>
    (obj.life = "live" ~> obj.life # "live" \/ (obj.ready /\ obj.endpoint # None))

\* A deleted cluster without machines, if not held up, goes with all it had.
DeletedClusterGoes ==
  NotHeldUp =>
    (obj.life = "deleting" ~> machines # {} \/ obj.life # "deleting")

\* When the wanted manifests are not those recorded as applied, the target
\* cluster has them in the end, whatever was lost, as long as a control plane
\* answers and they are not changed again.
ManifestsApplied ==
  NotHeldUp =>
    \A m \in Machines, v \in Versions :
      (obj.life = "live" /\ m \in serving /\ wanted = v /\ obj.applied # v ~>
         obj.life # "live" \/ m \notin serving \/ wanted # v \/ guest = v)
=============================================================================
