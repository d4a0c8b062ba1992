---------------------------- MODULE HcloudMachine ----------------------------
(***************************************************************************)
(* The HcloudMachine controller (controllers/hcloudmachine_controller.go)  *)
(* and the server service it calls (pkg/cloud/resources/server/server.go): *)
(* one worker takes HcloudMachine names from a work queue and, for each,   *)
(* reads the object from its cache and brings the Hetzner server and the   *)
(* load balancer target in line with it, one remote call after another.    *)
(*                                                                         *)
(* A step of the worker is one remote call, or the code between two calls. *)
(* Between two steps users create and delete objects, the cache catches    *)
(* up, servers boot and stop, calls fail or lose their answer, and the     *)
(* manager process can crash and start again.                              *)
(***************************************************************************)
EXTENDS Naturals

CONSTANTS
  Machines,        \* the names of HcloudMachine objects
  ControlPlanes,   \* the control planes among them
  WithVolumes,     \* those whose spec lists an HcloudVolume
  Servers,         \* server ids: the servers the project's quota allows at a time
  HasNetwork,      \* the HcloudCluster has a private network: servers join it
  LateCreates,     \* a create the dead manager had sent can still be executed
  MaxFaults,       \* bound on failed calls, crashes and interventions together
  NoMachine, NoServer

ASSUME ControlPlanesAssumption == ControlPlanes \subseteq Machines
ASSUME MaxFaultsAssumption == MaxFaults \in Nat
ASSUME HasNetworkAssumption == HasNetwork \in BOOLEAN
ASSUME LateCreatesAssumption == LateCreates \in BOOLEAN
ASSUME NoMachineAssumption == NoMachine \notin Machines
ASSUME NoServerAssumption == NoServer \notin Servers

VARIABLES
  obj,         \* obj[m]: the object in the API server
  cache,       \* cache[m]: the same object in the manager's informer cache
  queue,       \* the names waiting in the controller's work queue
  phase,       \* phase[m]: how far Cluster API has brought the Machine
  paused,      \* the Cluster is paused
  imageBuilt,  \* packer has the image
  volumeReady, \* every referenced HcloudVolume has its volume id
  owner,       \* owner[s]: the machine in the labels of server s
  power,       \* power[s]: what the server does
  targets,     \* the servers the load balancer has as targets
  lb,          \* the load balancer: where it is, and which one
  teardown,    \* the HcloudCluster is being deleted
  worker,      \* the reconcile in flight
  faults       \* how many faults have happened

vars == <<obj, cache, queue, phase, paused, imageBuilt, volumeReady,
          owner, power, targets, lb, teardown, worker, faults>>

cluster == <<paused, imageBuilt, volumeReady, lb, teardown>>
cloud   == <<owner, power, targets>>

-----------------------------------------------------------------------------
(* The data.                                                               *)

Lives  == {"absent", "live", "deleting"}
Phases == {"unowned", "owned", "bootstrapped"}

\* "requested" is a server whose creation is still on its way; "serving" is a
\* control plane whose API server answers /readyz, reported as running.
Powers == {"absent", "requested", "starting", "running", "serving", "stopping", "off"}
Running == {"running", "serving"}

\* life: absent, live, or deleting (the deletionTimestamp is set);
\* fin: MachineFinalizer; ready: Status.Ready; pid: Spec.ProviderID.
Object == [life : Lives, fin : BOOLEAN, ready : BOOLEAN,
           pid : Servers \cup {NoServer}]

Absent == [life |-> "absent", fin |-> FALSE, ready |-> FALSE, pid |-> NoServer]
Fresh  == [Absent EXCEPT !.life = "live"]

\* at: there is none, it is outside the private network, or inside; id: how
\* many were lost before this one.
LoadBalancer == [at : {"none", "outside", "inside"}, id : Nat]
NoLoadBalancer == [at |-> "none", id |-> 0]

\* Where a new load balancer comes up.
Places == {"outside"} \cup (IF HasNetwork THEN {"inside"} ELSE {})

\* An attachment of a server with a private address would be refused.
Unreachable(l) == HasNetwork /\ l.at = "outside"

Steps == {"idle", "register", "prepare", "find", "create", "attach", "health",
          "deleteFind", "detach", "deleteServer", "close", "panic"}

\* snap is what the patch helper kept when the scope was made, work the
\* in-memory object the code changes, server and seen the server findServer
\* returned and the status it had then, lb the load balancer
\* FindLoadBalancer returned for the attachment.
WorkerState == [step : Steps, m : Machines \cup {NoMachine},
                snap : Object, work : Object,
                server : Servers \cup {NoServer}, seen : Powers,
                lb : LoadBalancer, requeue : BOOLEAN]

Idle == [step |-> "idle", m |-> NoMachine, snap |-> Absent, work |-> Absent,
         server |-> NoServer, seen |-> "absent", lb |-> NoLoadBalancer,
         requeue |-> FALSE]

\* Hetzner does not use a server id twice.  The model may, once no object
\* names it any more.
Unused(s) ==
  owner[s] = NoMachine /\ \A m \in Machines : obj[m].pid # s /\ cache[m].pid # s

\* Mutant: the machine name is missing from the labels.
ServersOfCluster(m) ==
  {s \in Servers : owner[s] # NoMachine /\ power[s] # "requested"}

\* What ListServers returns for the labels of m.
ServersOf(m) == {s \in Servers : owner[s] = m /\ power[s] # "requested"}

\* A reconcile in flight has its machine, and its server where it uses one.
WorkerOK ==
  /\ worker \in WorkerState
  /\ worker.step # "idle" => worker.m \in Machines
  /\ worker.step \in {"attach", "health", "detach", "deleteServer"}
       => worker.server \in Servers

TypeOK ==
  /\ obj \in [Machines -> Object]
  /\ cache \in [Machines -> Object]
  /\ queue \subseteq Machines
  /\ phase \in [Machines -> Phases]
  /\ paused \in BOOLEAN /\ imageBuilt \in BOOLEAN
  /\ volumeReady \in BOOLEAN /\ lb \in LoadBalancer /\ teardown \in BOOLEAN
  /\ owner \in [Servers -> Machines \cup {NoMachine}]
  /\ power \in [Servers -> Powers]
  /\ targets \subseteq Servers
  /\ WorkerOK
  /\ faults \in 0 .. MaxFaults

Init ==
  /\ obj = [m \in Machines |-> Absent]
  /\ cache = obj
  /\ queue = {}
  /\ phase = [m \in Machines |-> "unowned"]
  /\ paused = FALSE /\ imageBuilt = FALSE /\ volumeReady = FALSE
  /\ owner = [s \in Servers |-> NoMachine]
  /\ power = [s \in Servers |-> "absent"]
  /\ targets = {}
  /\ lb \in {[at |-> place, id |-> 0] : place \in Places}
  /\ teardown = FALSE
  /\ worker = Idle
  /\ faults = 0

\* One more failed call, lost answer, crash or intervention.
Fault == faults < MaxFaults /\ faults' = faults + 1
NoFault == UNCHANGED faults

-----------------------------------------------------------------------------
(* The API server, and the patch helper that writes to it.                 *)

\* An object goes once its deletion is requested and no finalizer is left.
Collected(o) == IF o.life = "deleting" /\ ~o.fin THEN Absent ELSE o

\* patch.Helper sends the fields that differ between the object it kept
\* (from) and the one it is given (to): metadata and spec in one call, status
\* in a second one.  The resource version is not part of either.
SpecPatched(o, from, to) ==
  Collected([o EXCEPT !.fin = IF from.fin = to.fin THEN o.fin ELSE to.fin,
                      !.pid = IF from.pid = to.pid THEN o.pid ELSE to.pid])

StatusPatched(o, from, to) ==
  IF o.life = "absent" \/ from.ready = to.ready
  THEN o ELSE [o EXCEPT !.ready = to.ready]

Patched(o, from, to) == StatusPatched(SpecPatched(o, from, to), from, to)

\* Mutant: the status is not sent.
PatchDoneSpecOnly(m, from, to) ==
  /\ from = to \/ obj[m].life # "absent"
  /\ obj' = [obj EXCEPT ![m] = SpecPatched(@, from, to)]
  /\ NoFault

\* The helper's three ends: both calls done (none is made when nothing
\* differs), the object not found, or an error after any part of the calls.
PatchDone(m, from, to) ==
  /\ from = to \/ obj[m].life # "absent"
  /\ obj' = [obj EXCEPT ![m] = IF from = to THEN @ ELSE Patched(@, from, to)]
  /\ NoFault

PatchNotFound(m, from, to) ==
  /\ from # to /\ obj[m].life = "absent"
  /\ NoFault /\ UNCHANGED obj

PatchFails(m, from, to) ==
  /\ obj[m].life # "absent"
  /\ Fault
  /\ \E o \in {obj[m], SpecPatched(obj[m], from, to),
               StatusPatched(obj[m], from, to), Patched(obj[m], from, to)} :
       obj' = [obj EXCEPT ![m] = o]

-----------------------------------------------------------------------------
(* The worker.                                                             *)

Goto(step)   == worker' = [worker EXCEPT !.step = step]
\* Every return after the scope exists runs the deferred Close.
Leave(retry) == worker' = [worker EXCEPT !.step = "close", !.requeue = retry]
GotoWith(step, s) ==
  worker' = [worker EXCEPT !.step = step, !.server = s, !.seen = power[s]]

\* Mutant: the provider id is built from the machine's name.
MarkReadyByName(s) ==
  worker' = [worker EXCEPT !.step = "close", !.requeue = FALSE,
                           !.work.pid = worker.m, !.work.ready = TRUE]

\* Set the provider id and Ready in memory, and return.
MarkReady(s) ==
  worker' = [worker EXCEPT !.step = "close", !.requeue = FALSE,
                           !.work.pid = s, !.work.ready = TRUE]

\* Drop the finalizer from the in-memory object, and return.
LetGo == worker' = [worker EXCEPT !.step = "close", !.work.fin = FALSE]

\* The manager starts again: informers list, and everything they list is
\* queued.
Restart ==
  /\ worker' = Idle
  /\ cache' = obj'
  /\ queue' = {m \in Machines : obj'[m].life # "absent"}

\* Mutant: a machine that is ready is not reconciled again.
ReconcileUnready(m) ==
  /\ worker.step = "idle" /\ m \in queue
  /\ queue' = queue \ {m}
  /\ \/ cache[m].life = "absent" /\ UNCHANGED worker
     \/ (phase[m] = "unowned" \/ paused) /\ UNCHANGED worker
     \/ cache[m].life = "live" /\ cache[m].ready /\ UNCHANGED worker
     \/ /\ cache[m].life # "absent" /\ phase[m] # "unowned" /\ ~paused
        /\ ~(cache[m].life = "live" /\ cache[m].ready)
        /\ worker' = [Idle EXCEPT
             !.step = IF cache[m].life = "deleting" THEN "deleteFind"
                                                    ELSE "register",
             !.m = m, !.snap = cache[m], !.work = cache[m]]
  /\ NoFault
  /\ UNCHANGED <<obj, cache, phase, cluster, cloud>>

\* Reconcile up to the scope.  An object that is gone, has no owner or
\* cluster yet, or is paused, is dropped with no requeue.
Reconcile(m) ==
  /\ worker.step = "idle" /\ m \in queue
  /\ \/ /\ cache[m].life = "absent" \/ phase[m] = "unowned" \/ paused
        /\ queue' = queue \ {m}
        /\ NoFault /\ UNCHANGED worker
     \/ /\ cache[m].life # "absent"     \* packer or an API call fails
        /\ Fault /\ UNCHANGED <<queue, worker>>
     \/ /\ cache[m].life # "absent" /\ phase[m] # "unowned" /\ ~paused
        /\ queue' = queue \ {m}
        /\ worker' = [Idle EXCEPT
             !.step = IF cache[m].life = "deleting" THEN "deleteFind"
                                                    ELSE "register",
             !.m = m, !.snap = cache[m], !.work = cache[m]]
        /\ NoFault
  /\ UNCHANGED <<obj, cache, phase, cluster, cloud>>

\* Mutant: the finalizer is left to the deferred Close.
AddFinalizerInMemory ==
  /\ worker.step = "register"
  /\ worker' = [worker EXCEPT !.step = "prepare", !.work.fin = TRUE]
  /\ NoFault
  /\ UNCHANGED <<obj, cache, queue, phase, cluster, cloud>>

\* reconcileNormal registers the finalizer before anything else is done.
AddFinalizer ==
  /\ worker.step = "register"
  /\ LET m == worker.m
         to == [worker.work EXCEPT !.fin = TRUE]
     IN \/ /\ PatchDone(m, worker.snap, to)
           /\ worker' = [worker EXCEPT !.step = "prepare", !.work = to]
        \/ /\ PatchNotFound(m, worker.snap, to) \/ PatchFails(m, worker.snap, to)
           /\ worker' = [worker EXCEPT !.step = "close", !.work = to,
                                       !.requeue = TRUE]
  /\ UNCHANGED <<cache, queue, phase, cluster, cloud>>

\* Failure domain, image and bootstrap data come before the server.
Prepare ==
  /\ worker.step = "prepare"
  /\ \/ imageBuilt /\ phase[worker.m] = "bootstrapped" /\ Goto("find") /\ NoFault
     \/ ~imageBuilt /\ Leave(TRUE) /\ NoFault
     \/ phase[worker.m] # "bootstrapped" /\ Leave(TRUE) /\ NoFault
     \/ Leave(TRUE) /\ Fault
  /\ UNCHANGED <<obj, cache, queue, phase, cluster, cloud>>

\* Mutant: a machine with no provider id is taken to have no server.
FindServerByProviderID ==
  /\ worker.step = "find"
  /\ \/ worker.work.pid = NoServer /\ Goto("create")
     \/ \E s \in ServersOf(worker.m) : s = worker.work.pid /\ MarkReady(s)
  /\ NoFault
  /\ UNCHANGED <<obj, cache, queue, phase, cluster, cloud>>

\* Mutant: the first of several servers is taken.
FindFirstServer ==
  /\ worker.step = "find"
  /\ LET S == ServersOf(worker.m) IN
       \/ S = {} /\ Goto("create")
       \/ \E s \in S :
            \/ power[s] \notin Running /\ Leave(TRUE)
            \/ power[s] \in Running /\ MarkReady(s)
  /\ NoFault
  /\ UNCHANGED <<obj, cache, queue, phase, cluster, cloud>>

\* findServer lists by label, and Reconcile goes on with what it returns.
FindServer ==
  /\ worker.step = "find"
  /\ LET S == ServersOf(worker.m) IN
       \/ S = {} /\ Goto("create") /\ NoFault
       \/ (\E s, t \in S : s # t) /\ Leave(TRUE) /\ NoFault
       \/ \E s \in S :
            /\ S = {s} /\ NoFault
            /\ \/ power[s] \notin Running /\ Leave(TRUE)
               \/ power[s] \in Running /\ worker.m \notin ControlPlanes /\ MarkReady(s)
               \/ power[s] \in Running /\ worker.m \in ControlPlanes /\ GotoWith("attach", s)
       \/ Leave(TRUE) /\ Fault
  /\ UNCHANGED <<obj, cache, queue, phase, cluster, cloud>>

\* createServer.  It returns a nil server and a nil error when a volume does
\* not exist yet, and the caller dereferences the server.  A new server is
\* never running yet, so the reconcile ends with a requeue.
CreateServer ==
  /\ worker.step = "create"
  /\ LET m == worker.m
         New(s) == /\ Unused(s)
                   /\ owner' = [owner EXCEPT ![s] = m]
                   /\ power' = [power EXCEPT ![s] = "starting"]
     IN \/ /\ m \in WithVolumes /\ ~volumeReady
           /\ Goto("panic") /\ NoFault
           /\ UNCHANGED <<owner, power>>
        \/ /\ m \notin WithVolumes \/ volumeReady
           /\ \/ (\E s \in Servers : New(s)) /\ (Fault \/ NoFault)
              \/ (\A s \in Servers : ~Unused(s))   \* quota
                   /\ NoFault /\ UNCHANGED <<owner, power>>
              \/ Fault /\ UNCHANGED <<owner, power>>
           /\ Leave(TRUE)
  /\ UNCHANGED <<obj, cache, queue, phase, cluster, targets>>

\* The attachment ends with no error, by the load balancer that was found.
GotoHealth == worker' = [worker EXCEPT !.step = "health", !.lb = lb]

\* Mutant: the error of the attachment is dropped.
AttachIgnoringErrors ==
  /\ worker.step = "attach"
  /\ GotoHealth
  /\ \/ targets' = targets \cup {worker.server} /\ NoFault
     \/ UNCHANGED targets /\ Fault
  /\ UNCHANGED <<obj, cache, queue, phase, cluster, owner, power>>

\* reconcileLoadBalancerAttachment.  FindLoadBalancer answers nil when there is
\* no load balancer, and nil is dereferenced.  With a private IP and a load
\* balancer outside the network it returns without attaching and without an
\* error.
AttachToLoadBalancer ==
  /\ worker.step = "attach"
  /\ LET s == worker.server IN
       \/ /\ lb.at = "none"
          /\ Goto("panic") /\ NoFault /\ UNCHANGED targets
       \/ /\ lb.at # "none" /\ (Unreachable(lb) \/ s \in targets)
          /\ GotoHealth /\ NoFault /\ UNCHANGED targets
       \/ /\ lb.at # "none" /\ ~Unreachable(lb) /\ s \notin targets
          /\ \/ /\ power[s] # "absent"
                /\ targets' = targets \cup {s}
                /\ \/ GotoHealth /\ NoFault
                   \/ Leave(TRUE) /\ Fault
             \/ power[s] = "absent" /\ Leave(TRUE) /\ NoFault /\ UNCHANGED targets
       \/ Leave(TRUE) /\ Fault /\ UNCHANGED targets
  /\ UNCHANGED <<obj, cache, queue, phase, cluster, owner, power>>

\* The address loop asks for /readyz, keeps the error, and marks the machine
\* ready in its first round whatever the answer was.
CheckAddresses ==
  /\ worker.step = "health"
  /\ \/ MarkReady(worker.server) /\ NoFault
     \/ Leave(TRUE) /\ Fault
  /\ UNCHANGED <<obj, cache, queue, phase, cluster, cloud>>

\* Service.Delete: find the server, or be done.
DeleteFind ==
  /\ worker.step = "deleteFind"
  /\ LET S == ServersOf(worker.m) IN
       \/ S = {} /\ LetGo /\ NoFault
       \/ (\E s, t \in S : s # t) /\ Leave(TRUE) /\ NoFault
       \/ \E s \in S : S = {s} /\ GotoWith("detach", s) /\ NoFault
       \/ Leave(TRUE) /\ Fault
  /\ UNCHANGED <<obj, cache, queue, phase, cluster, cloud>>

\* Mutant: the error of the detachment is dropped.
DetachIgnoringErrors ==
  /\ worker.step = "detach"
  /\ Goto("deleteServer")
  /\ \/ targets' = targets \ {worker.server} /\ NoFault
     \/ UNCHANGED targets /\ Fault
  /\ UNCHANGED <<obj, cache, queue, phase, cluster, owner, power>>

\* deleteServerOfLoadBalancer, for every machine, the control planes' and the
\* workers'.  A load balancer that is not there is dereferenced, as above.
Detach ==
  /\ worker.step = "detach"
  /\ \/ lb.at = "none" /\ Goto("panic") /\ NoFault /\ UNCHANGED targets
     \/ /\ lb.at # "none" /\ worker.server \notin targets
        /\ Goto("deleteServer") /\ NoFault /\ UNCHANGED targets
     \/ /\ lb.at # "none" /\ worker.server \in targets
        /\ targets' = targets \ {worker.server}
        /\ \/ Goto("deleteServer") /\ NoFault
           \/ Leave(TRUE) /\ Fault
     \/ Leave(TRUE) /\ Fault /\ UNCHANGED targets
  /\ UNCHANGED <<obj, cache, queue, phase, cluster, owner, power>>

\* Hetzner takes a deleted server off the load balancer by itself.
Remove(s) ==
  /\ owner' = [owner EXCEPT ![s] = NoMachine]
  /\ power' = [power EXCEPT ![s] = "absent"]
  /\ targets' = targets \ {s}

\* Mutant: the finalizer is given up once the shutdown is accepted.
DeleteServerOnShutdown ==
  /\ worker.step = "deleteServer"
  /\ LetGo
  /\ \/ /\ power[worker.server] \in Running
        /\ power' = [power EXCEPT ![worker.server] = "stopping"]
        /\ UNCHANGED <<owner, targets>>
     \/ power[worker.server] = "off" /\ Remove(worker.server)
  /\ NoFault
  /\ UNCHANGED <<obj, cache, queue, phase, cluster>>

\* Mutant: a running server is waited for like any other.
DeleteServerOff ==
  /\ worker.step = "deleteServer"
  /\ \/ worker.seen = "off" /\ Remove(worker.server) /\ LetGo
     \/ worker.seen # "off" /\ Leave(TRUE) /\ UNCHANGED cloud
  /\ NoFault
  /\ UNCHANGED <<obj, cache, queue, phase, cluster>>

\* By the status findServer saw: shut down a running server and come back,
\* delete one that is off, wait for any other.  The two calls fail for a
\* server that somebody removed in between.
DeleteServer ==
  /\ worker.step = "deleteServer"
  /\ LET s == worker.server IN
       \/ /\ worker.seen \in Running /\ power[s] \in Running
          /\ power' = [power EXCEPT ![s] = "stopping"]
          /\ Leave(TRUE) /\ (Fault \/ NoFault)
          /\ UNCHANGED <<owner, targets>>
       \/ /\ worker.seen = "off" /\ power[s] # "absent"
          /\ Remove(s)
          /\ \/ LetGo /\ NoFault
             \/ Leave(TRUE) /\ Fault
       \/ /\ \/ worker.seen \notin Running \cup {"off"}
             \/ worker.seen \in Running /\ power[s] \notin Running
             \/ worker.seen = "off" /\ power[s] = "absent"
          /\ Leave(TRUE) /\ NoFault /\ UNCHANGED cloud
       \/ Leave(TRUE) /\ Fault /\ UNCHANGED cloud
  /\ UNCHANGED <<obj, cache, queue, phase, cluster>>

\* The deferred Close persists what changed in memory.  Its error counts only
\* if the reconcile had none, and either one puts the name back in the queue.
Close ==
  /\ worker.step = "close"
  /\ LET m == worker.m IN
       \/ /\ PatchDone(m, worker.snap, worker.work)
          /\ queue' = IF worker.requeue THEN queue \cup {m} ELSE queue
       \/ /\ PatchNotFound(m, worker.snap, worker.work)
             \/ PatchFails(m, worker.snap, worker.work)
          /\ queue' = queue \cup {m}
  /\ worker' = Idle
  /\ UNCHANGED <<cache, phase, cluster, cloud>>

\* A panic runs the deferred Close on its way up and ends the process:
\* controller-runtime does not recover it.
Panic ==
  /\ worker.step = "panic"
  /\ LET m == worker.m IN
       \/ PatchDone(m, worker.snap, worker.work)
       \/ PatchNotFound(m, worker.snap, worker.work)
       \/ PatchFails(m, worker.snap, worker.work)
  /\ Restart
  /\ UNCHANGED <<phase, cluster, cloud>>

WorkerStep ==
  \/ AddFinalizer \/ Prepare \/ FindServer \/ CreateServer
  \/ AttachToLoadBalancer \/ CheckAddresses
  \/ DeleteFind \/ Detach \/ DeleteServer \/ Close \/ Panic

\* The manager dies, or loses its lease, and another takes over.  With
\* LateCreates, a create that was on its way stays so.
Crash ==
  /\ Fault
  /\ UNCHANGED obj /\ Restart
  /\ \/ UNCHANGED <<owner, power>>
     \/ /\ LateCreates /\ worker.step = "create"
        /\ \E s \in Servers :
             /\ Unused(s)
             /\ owner' = [owner EXCEPT ![s] = worker.m]
             /\ power' = [power EXCEPT ![s] = "requested"]
  /\ UNCHANGED <<phase, cluster, targets>>

-----------------------------------------------------------------------------
(* What the worker lives with: users, Cluster API, the informer, the cloud. *)

Create(m) ==
  /\ obj[m].life = "absent"
  /\ obj' = [obj EXCEPT ![m] = Fresh]
  /\ phase' = [phase EXCEPT ![m] = "unowned"]
  /\ UNCHANGED <<cache, queue, cluster, cloud, worker, faults>>

Delete(m) ==
  /\ obj[m].life = "live"
  /\ obj' = [obj EXCEPT ![m] = Collected([@ EXCEPT !.life = "deleting"])]
  /\ UNCHANGED <<cache, queue, phase, cluster, cloud, worker, faults>>

\* The informer delivers an object's latest state, and queues its name.
Watch(m) ==
  /\ cache[m] # obj[m]
  /\ cache' = [cache EXCEPT ![m] = obj[m]]
  /\ queue' = queue \cup {m}
  /\ UNCHANGED <<obj, phase, cluster, cloud, worker, faults>>

\* The informer's periodic resync.
Resync(m) ==
  /\ cache[m].life # "absent" /\ m \notin queue
  /\ queue' = queue \cup {m}
  /\ UNCHANGED <<obj, cache, phase, cluster, cloud, worker, faults>>

\* Cluster API sets the owner, and later the bootstrap secret; the Machine
\* watch queues the HcloudMachine each time.
AdvancePhase(m) ==
  /\ obj[m].life # "absent" /\ phase[m] # "bootstrapped"
  /\ phase' = [phase EXCEPT ![m] = IF @ = "unowned" THEN "owned" ELSE "bootstrapped"]
  /\ queue' = queue \cup {m}
  /\ UNCHANGED <<obj, cache, cluster, cloud, worker, faults>>

SetPaused ==
  /\ paused' = ~paused
  /\ UNCHANGED <<obj, cache, queue, phase, imageBuilt, volumeReady, lb, teardown,
                 cloud, worker, faults>>

BuildImage ==
  /\ ~imageBuilt /\ imageBuilt' = TRUE
  /\ UNCHANGED <<obj, cache, queue, phase, paused, volumeReady, lb, teardown,
                 cloud, worker, faults>>

CreateVolume ==
  /\ WithVolumes # {} /\ ~volumeReady /\ volumeReady' = TRUE
  /\ UNCHANGED <<obj, cache, queue, phase, paused, imageBuilt, lb, teardown,
                 cloud, worker, faults>>

\* The HcloudCluster controller attaches the load balancer, or makes a new one,
\* unless the cluster is being deleted; the cluster's watch queues the workers
\* only (HcloudClusterToHcloudMachines).
WakeWorkers ==
  queue' = queue \cup {m \in Machines \ ControlPlanes : obj[m].life # "absent"}

JoinNetwork ==
  /\ HasNetwork /\ lb.at = "outside" /\ ~teardown
  /\ lb' = [lb EXCEPT !.at = "inside"]
  /\ WakeWorkers
  /\ UNCHANGED <<obj, cache, phase, paused, imageBuilt, volumeReady, teardown,
                 cloud, worker, faults>>

RestoreLoadBalancer ==
  /\ lb.at = "none" /\ ~teardown
  /\ \E place \in Places : lb' = [lb EXCEPT !.at = place]
  /\ WakeWorkers
  /\ UNCHANGED <<obj, cache, phase, paused, imageBuilt, volumeReady, teardown,
                 cloud, worker, faults>>

BeginTeardown ==
  /\ ~teardown /\ teardown' = TRUE
  /\ WakeWorkers
  /\ UNCHANGED <<obj, cache, phase, paused, imageBuilt, volumeReady, lb,
                 cloud, worker, faults>>

\* Somebody deletes the load balancer in the provider's console, or the cluster
\* controller does, whose list of machines may be older than a machine.
LoseLoadBalancer ==
  /\ lb.at # "none" /\ Fault
  /\ lb' = [at |-> "none", id |-> lb.id + 1]
  /\ targets' = {}
  /\ UNCHANGED <<obj, cache, queue, phase, paused, imageBuilt, volumeReady, teardown,
                 owner, power, worker>>

Boot(s) ==
  /\ \/ power[s] = "requested" /\ power' = [power EXCEPT ![s] = "starting"]
     \/ power[s] = "starting" /\ power' = [power EXCEPT ![s] = "running"]
     \/ power[s] = "stopping" /\ power' = [power EXCEPT ![s] = "off"]
  /\ UNCHANGED <<obj, cache, queue, phase, cluster, owner, targets, worker, faults>>

Serve(s) ==
  /\ power[s] = "running" /\ owner[s] \in ControlPlanes
  /\ power' = [power EXCEPT ![s] = "serving"]
  /\ UNCHANGED <<obj, cache, queue, phase, cluster, owner, targets, worker, faults>>

\* Somebody powers a server off, or removes it, in the provider's console.
PowerOff(s) ==
  /\ power[s] \in Running /\ Fault
  /\ power' = [power EXCEPT ![s] = "off"]
  /\ UNCHANGED <<obj, cache, queue, phase, cluster, owner, targets, worker>>

LoseServer(s) ==
  /\ power[s] \notin {"absent", "requested"} /\ Fault /\ Remove(s)
  /\ UNCHANGED <<obj, cache, queue, phase, cluster, worker>>

Environment ==
  \/ \E m \in Machines : Create(m) \/ Delete(m) \/ Watch(m) \/ Resync(m) \/ AdvancePhase(m)
  \/ SetPaused \/ BuildImage \/ CreateVolume
  \/ JoinNetwork \/ RestoreLoadBalancer \/ BeginTeardown \/ LoseLoadBalancer
  \/ \E s \in Servers : Boot(s) \/ Serve(s) \/ PowerOff(s) \/ LoseServer(s)

Next ==
  \/ \E m \in Machines : Reconcile(m)
  \/ WorkerStep \/ Crash \/ Environment

Spec == Init /\ [][Next]_vars

\* What the code's scheduling justifies: a worker that has started goes on;
\* the work queue is first in, first out, so a queued name is taken; the
\* informer delivers and resyncs; packer, the volume controller, the cluster
\* controller and Cluster API do their part; servers boot, and obey a shutdown.
\* Users, pauses and faults have no fairness, and faults are finitely many.
Fairness ==
  /\ WF_vars(WorkerStep)
  /\ \A m \in Machines :
       /\ SF_vars(Reconcile(m))
       /\ WF_vars(Watch(m)) /\ WF_vars(Resync(m)) /\ WF_vars(AdvancePhase(m))
  /\ WF_vars(BuildImage) /\ WF_vars(CreateVolume)
  /\ WF_vars(JoinNetwork) /\ WF_vars(RestoreLoadBalancer)
  /\ \A s \in Servers : WF_vars(Boot(s))

FairSpec == Spec /\ Fairness

-----------------------------------------------------------------------------
(* Safety.                                                                 *)

\* "Register the finalizer immediately to avoid orphaning Hcloud resources on
\* delete" (hcloudmachine_controller.go:185): no server outlives its object's
\* finalizer, whatever the cache showed, wherever the manager crashed, and
\* even when the call that created the server lost its answer.
NoOrphanServer ==
  \A s \in Servers : owner[s] # NoMachine => obj[owner[s]].fin

\* A machine has at most one server: a create whose answer was lost is found
\* again by its labels before another create is sent (findServer).
OneServerPerMachine ==
  \A s, t \in Servers :
    owner[s] = owner[t] /\ owner[s] # NoMachine => s = t

\* Service.Delete takes a server off the load balancer before it shuts it
\* down or deletes it, in every order of retries: clients of the API server
\* are never sent to a server the controller is taking away.
DrainBeforeStop ==
  [][\A s \in Servers :
       /\ worker' # worker
       /\ power'[s] # power[s] /\ power'[s] \in {"stopping", "absent"}
       => s \notin targets]_vars

\* A machine's provider id is not moved to another server while the first one
\* is there: Cluster API takes it for the identity of the node.
ProviderIDKept ==
  [][\A m \in Machines :
       /\ obj[m].pid # NoServer /\ obj'[m].life # "absent"
       /\ obj'[m].pid # obj[m].pid
       => owner[obj[m].pid] # m]_vars

\* Two machines never have the same provider id: the labels tell their servers
\* apart, though one worker serves both.
ProviderIDsDistinct ==
  \A m, n \in Machines :
    obj[m].pid = obj[n].pid /\ obj[m].pid # NoServer => m = n

\* A reconcile stops, deletes and detaches only the server of its own machine.
TouchesOwnServerOnly ==
  [][\A s \in Servers :
       /\ worker' # worker
       /\ power'[s] # power[s] \/ targets \ targets' = {s}
       => worker.m \in {owner[s], owner'[s]}]_vars

\* "All control planes have to be attached to the load balancer"
\* (server.go:111): one is not reported ready before, unless its server has
\* been removed by somebody else in between.  It is not so: with a private
\* network, the attachment is passed over while the load balancer is outside it.
ReadyControlPlanesAreTargets ==
  [][\A m \in ControlPlanes :
       ~obj[m].ready /\ obj'[m].ready
       => worker.work.pid \in targets \/ power[worker.work.pid] = "absent"]_vars

\* What the reconcile in flight has found for server s: it is a target, or is
\* gone, or the load balancer is lost, or was one s could not be attached to.
Served(s) == \/ s \in targets \/ power[s] = "absent"
             \/ Unreachable(worker.lb) \/ worker.lb.id # lb.id

\* What is left of it: a control plane that becomes ready is a target of the
\* load balancer that was found for it, unless its server has been removed, or
\* that load balancer was outside the private network or is lost by now.  A
\* call that failed, an answer that was lost, or a load balancer that was not
\* there never let it become ready.
ReadyMeansAttached ==
  [][\A m \in ControlPlanes :
       ~obj[m].ready /\ obj'[m].ready => Served(worker.work.pid)]_vars

\* "Check if at least one of the adresses is ready" (server.go:116): a control
\* plane is marked ready only while its API server answers /readyz.
ReadyMeansServing ==
  [][worker.step = "health" /\ worker' # worker /\ ~worker.work.ready
       /\ worker'.work.ready
       => power[worker.server] = "serving"]_vars

\* "HcloudVolume is not existing yet" (server.go:173) is a reason to wait, as
\* the log line and the nil error say: no reconcile takes the process down.
NoPanic == worker.step # "panic"

\* The controller keeps the promise of OwnedResource: what its variables are.
lifeOf == [m \in Machines |-> obj[m].life]
held   == {m \in Machines : obj[m].fin}
served == {m \in Machines : ServersOf(m) # {}}

Abstract == INSTANCE OwnedResource WITH
  Objects <- Machines, life <- lifeOf, held <- held, resource <- served

\* Every behaviour is one of OwnedResource: what the machine controller does
\* in many calls, with retries, is creating, holding and letting go in order.
KeepsPromise == Abstract!Spec

-----------------------------------------------------------------------------
(* Why no server is orphaned: the inductive invariant.                     *)

\* The object keeps its finalizer while it has a server, and is there while
\* it has its finalizer.
Held ==
  /\ NoOrphanServer
  /\ \A m \in Machines : obj[m].life = "absent" => ~obj[m].fin
  /\ \A m \in Machines : obj[m].life = "deleting" => obj[m].fin

\* The cache may be old, but a finalizer it shows on a live object is still
\* there, and once it shows the deletion the object is not held alive again.
CacheSafe ==
  \A m \in Machines :
    /\ cache[m].life = "live" /\ cache[m].fin => obj[m].fin
    /\ cache[m].life = "deleting" => ~(obj[m].life = "live" /\ obj[m].fin)

NormalSteps == {"register", "prepare", "find", "create", "attach", "health", "panic"}
DeleteSteps == {"deleteFind", "detach", "deleteServer", "panic"}

\* A reconcile that started from a live object has the finalizer in the API
\* before it does anything else, and never takes it back.
NormalSafe ==
  worker.step # "idle" /\ worker.snap.life = "live" =>
    LET m == worker.m IN
      /\ m \in Machines
      /\ worker.step \in NormalSteps \cup {"close"}
      /\ worker.snap.fin => worker.work.fin /\ obj[m].fin
      /\ worker.step # "register" => worker.work.fin
      /\ worker.step \notin {"register", "close"} => obj[m].fin
      /\ worker.step = "create" => \A s \in Servers : owner[s] # m
      /\ cache[m].life = "deleting" => obj[m].life = "deleting"

\* A reconcile that started from a deleted object lets go only when no server
\* is left, and the one it found is the only one there is.
DeleteSafe ==
  worker.step # "idle" /\ worker.snap.life = "deleting" =>
    LET m == worker.m IN
      /\ m \in Machines
      /\ worker.step \in DeleteSteps \cup {"close"}
      /\ worker.work.fin => worker.snap.fin
      /\ worker.step # "close" /\ worker.snap.fin => worker.work.fin
      /\ ~(obj[m].life = "live" /\ obj[m].fin)
      /\ ~(cache[m].life = "live" /\ cache[m].fin)
      /\ worker.step \in {"detach", "deleteServer"} =>
           \A s \in Servers : owner[s] = m => s = worker.server
      /\ worker.step = "close" /\ worker.snap.fin /\ ~worker.work.fin =>
           \A s \in Servers : owner[s] # m

\* Why nothing is orphaned or doubled, when no create is executed late.
IInv ==
  /\ Held /\ CacheSafe /\ OneServerPerMachine
  /\ worker.step # "idle" => worker.snap.life \in {"live", "deleting"}
  /\ NormalSafe /\ DeleteSafe
  /\ \A s \in Servers : power[s] # "requested"

-----------------------------------------------------------------------------
(* Why no two machines share a provider id.                                *)

\* Where the id of a server can be written down next to a machine's name: the
\* server's labels, the object, its copy in the cache, the reconcile in flight.
Names(m, s) ==
  \/ owner[s] = m \/ obj[m].pid = s \/ cache[m].pid = s
  \/ worker.m = m /\ s \in {worker.snap.pid, worker.work.pid, worker.server}

\* However old, no two of them name one server next to two machines.
NamedOnce ==
  \A m, n \in Machines : \A s \in Servers : Names(m, s) /\ Names(n, s) => m = n

\* Why a server is drained before it is stopped: a server that is there has its
\* machine in the labels, one that is a target is there, and from the detachment
\* to the end of the reconcile the worker's server is not a target again.
Drained ==
  /\ \A s \in Servers : owner[s] = NoMachine <=> power[s] = "absent"
  /\ \A s \in targets : power[s] # "absent"
  /\ worker.step = "deleteServer" => worker.server \notin targets

\* Why a control plane that becomes ready is a target: its server is served as
\* above from the attachment to the end of the reconcile.  Nothing but that end
\* sets Ready, and a load balancer that is lost does not come back.
Attached ==
  /\ worker.step \notin {"idle", "close"} => worker.work.ready = worker.snap.ready
  /\ worker.step = "health" => Served(worker.server)
  /\ /\ worker.step = "close" /\ worker.m \in ControlPlanes
     /\ worker.work.ready /\ ~worker.snap.ready
     => worker.work.pid \in Servers /\ Served(worker.work.pid)

Remembered == worker.lb.id <= lb.id

\* Why a provider id stays: the server it names is not one that is still to
\* come, so findServer lists it as long as it is there; and the id a reconcile is
\* about to write is the one server that was listed, or the old one is gone.
ToWrite(s) ==
  \/ worker.step \in {"attach", "health"} /\ s = worker.server
  \/ worker.step = "close" /\ s = worker.work.pid /\ s # worker.snap.pid

Identified ==
  /\ \A m \in Machines :
       /\ obj[m].life = "absent" => obj[m].pid = NoServer
       /\ \A s \in Servers : obj[m].pid = s /\ owner[s] = m => power[s] # "requested"
  /\ worker.step \notin {"idle", "close"} => worker.work.pid = worker.snap.pid
  /\ worker.step = "close" => worker.work.pid \in Servers \cup {worker.snap.pid}
  /\ \A s, t \in Servers :
       /\ ToWrite(s) /\ owner[s] = worker.m => power[s] # "requested"
       /\ ToWrite(s) /\ obj[worker.m].pid = t /\ owner[t] = worker.m => s = t

-----------------------------------------------------------------------------
(* Liveness, under FairSpec.                                               *)

\* The load balancer is gone and nothing makes a new one: every reconcile that
\* comes to it, to attach or to detach a server, takes the process down.
Stranded == teardown /\ lb.at = "none"

\* An object whose deletion was requested goes, server and all, unless the
\* cluster is paused, a create executed late has given it a second server, or
\* the cluster is being deleted and has lost its load balancer.
DeletedMachineGoes ==
  \A m \in Machines :
    obj[m].life = "deleting"
    ~> obj[m].life = "absent" \/ paused \/ ~OneServerPerMachine \/ Stranded

\* A machine becomes ready, unless it is deleted, the cluster is paused, its
\* server was powered off by somebody, the quota left it without a server, a
\* create executed late gave it two, or it is stranded as above.
MachineBecomesReady ==
  \A m \in Machines :
    obj[m].life = "live" ~> \/ obj[m].life # "live" \/ obj[m].ready \/ paused
                            \/ \E s \in ServersOf(m) : power[s] = "off"
                            \/ ServersOf(m) = {} /\ \A s \in Servers : ~Unused(s)
                            \/ ~OneServerPerMachine \/ Stranded

\* A running control plane becomes a target in the end, even one that was
\* marked ready while the load balancer was outside the network.  Nothing
\* wakes its controller up for it but the informer's resync.  As above, a create
\* that is executed late can prevent it: two servers of one name are an error.
\* While the cluster is being deleted no load balancer is made or moved.
ControlPlaneJoinsLoadBalancer ==
  \A m \in ControlPlanes : \A s \in Servers :
    obj[m].life = "live" /\ owner[s] = m /\ power[s] \in Running
    ~> \/ obj[m].life # "live" \/ paused \/ s \in targets
       \/ owner[s] # m \/ power[s] \notin Running \/ ~OneServerPerMachine
       \/ teardown /\ (lb.at = "none" \/ Unreachable(lb))
=============================================================================
