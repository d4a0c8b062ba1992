# cluster-api-provider-hcloud in TLA+

The provider is one Kubernetes controller manager that brings Cluster API
objects in line with Hetzner Cloud (servers, load balancers, networks, volumes)
and with Hetzner Robot (bare metal servers). This directory holds TLA+ models of
its controllers, the TLC configurations that check them on small instances, and
proofs, checked by TLAPS, of what matters most for every instance.

All paths of the repository below are relative to `src/`.

## 1. The system

### Components, their state and their operations

| component | source | state | operations |
|---|---|---|---|
| HcloudMachine controller | `controllers/hcloudmachine_controller.go`, `pkg/scope/machine.go` | the object in the API (finalizer, `Spec.ProviderID`, `Status.Ready`), the informer cache, the work queue, the scope of the reconcile in flight | `Reconcile`, `reconcileNormal`, `reconcileDelete`, `PatchObject`, `Close`, the watches |
| server service | `pkg/cloud/resources/server/server.go` | servers and their labels, power states, targets of the load balancer (at Hetzner) | `Reconcile` (find, create, attach, health), `Delete` (drain, shut down, delete) |
| HcloudCluster controller | `controllers/hcloudcluster_controller.go`, `pkg/scope/cluster.go` | the object (finalizer, endpoint, readiness, network, applied hash), its cache, the cached list of machines | `Reconcile`, `reconcileNormal`, `reconcileDelete`, `reconcileManifests`, `ListMachines`, `Close` |
| load balancer, network, location services | `pkg/cloud/resources/{loadbalancer,network,location}` | the resources with the cluster's label | `Reconcile`, `Delete` |
| target cluster managers | `controllers/hcloudcluster_controller.go:247-289` | a map of stop channels behind a lock, one goroutine per cluster | start, stop, clean up |
| GuestCSR controller | `controllers/cluster_csr_controller.go`, `pkg/csr` | the conditions of a signing request in the target cluster | validate, approve or deny |
| HcloudVolume controller, volume service | `controllers/hcloudvolume_controller.go`, `pkg/cloud/resources/volume` | the object, the volume at Hetzner | `Reconcile`, `Delete` by reclaim policy |
| packer | `pkg/packer` | the table of running builds, the path of the configuration | `Initialize`, `EnsureImage`, the goroutine of a build |
| BareMetalMachine controller and service | `controllers/baremetalmachine_controller.go`, `pkg/baremetal` | the object; the name of a server at Robot says whose it is | `Reconcile` (find, provision over SSH, name), `Delete` (rename), choice of the drive |
| manifests | `pkg/manifests` | none | hash, render, apply with kubectl |
| user data | `pkg/userdata` | none | edits cloud-init files |
| API types and webhooks | `api/v1alpha3` | none | immutability of spec fields, defaults |
| process | `cmd/cluster-api-provider-hcloud/main.go` | what all of them keep in memory | leader election, start |

### How they interact

The controllers never call each other. They meet in the API server, which each
reads through an informer cache that lags and writes through the patch helper of
Cluster API, and in the Hetzner project, where a resource is told to belong to
an object by its labels alone. A machine needs the HcloudCluster of its cluster
for as long as it exists; the HcloudCluster waits for its machines before it
gives up the load balancer and the network. The HcloudCluster controller starts
a second controller manager per target cluster, in a goroutine of the process.

Three conventions of the code carry most of the weight, and most of the risk:

* *Patches.* A scope takes a snapshot of the object and, when it is closed,
  sends the difference of the object to the snapshot: metadata and spec in one
  call, status in another. Nothing checks that the API's object still is what
  the snapshot was.
* *Finalizers.* A finalizer is what keeps an object until its resources are
  given back. The machine controllers persist it before they do anything; the
  cluster and volume controllers keep it in memory until the scope is closed.
* *Labels.* What was created is found again by label. Creation is retried only
  after a search that found nothing.

### What is hard

A call that fails after it had its effect; a process that ends between two
calls, and whose successor (leader election) starts from the API server alone; a
request of a dead process that is executed late; caches that show an old object,
or no object; a user who deletes an object, or a server, in the middle of a
reconcile; retries over several reconciles, each of which somebody has to ask
for; goroutines that share a map. `PROJECT.json` lists these hazards one by one
at the line where they bite.

### What makes the components correct

| component | properties |
|---|---|
| machine | no server without an object that holds it; one server per machine; drained before it is stopped; a provider id is kept; a control plane becomes ready only as a target of the load balancer found for it; deletion, readiness and attachment come about |
| cluster | nothing is left behind; one network and one load balancer; the endpoint is kept; initialized means that manifests were applied; readiness and deletion come about |
| target cluster managers | no channel is closed twice; the map speaks of goroutines that live; one manager per cluster; a cluster that stays is managed; a manager can be stopped |
| volume | an object has one volume; its data is removed only if Delete has been the policy during the deletion, and an object that had it throughout goes after its volume; creation and deletion come about |
| packer | an image of the container is built from its own configuration, and one of a URL from its archive; one build per hash; an image comes in the end |
| bare metal | a server belongs to one machine; a server that is given up can be found again; a cancelled machine is not ready; the drive that carries the system is the one chosen, and partitions of others are kept |
| GuestCSR | a decision stands, whichever manager made it; a node gets its certificate |
| locations, drives, user data | what is chosen and written is found again, and the same, the next time |

## 2. Modules

```
OwnedResource            what a controller with a finalizer promises
   ^  implemented by
   |-- HcloudMachine          MCHcloudMachine (TLC)     HcloudMachineProofs (TLAPS)
   |-- BareMetalMachine       MCBareMetalMachine        BareMetalMachineProofs

HcloudCluster                 MCHcloudCluster           HcloudClusterProofs
HcloudVolume                  MCHcloudVolume            HcloudVolumeProofs
Packer                        MCPacker                  PackerProofs

TargetClusterManagers         MCTargetClusterManagers   TargetClusterManagersProofs
   ^  extended by
   |-- TargetCluster          MCTargetCluster           TargetClusterProofs
       (the GuestCSR controller in them)

BlockDevices, Locations, UserData                       pure algorithms
   ^  instantiated by
   |-- MCOperators            (bounded inputs)          OperatorProofs (of any size)
```

In each module a step of the worker is one remote call that changes something
together with the reads that lead to it, or one acquisition of a lock. Between
two steps everything else may happen. controller-runtime runs one worker per
controller, so there is one `worker` variable; the second and third controllers
of the process are part of the environment of the first. `Fault` counts failed
calls, lost answers, crashes and interventions together, up to `MaxFaults`.

### OwnedResource

Objects are created, held by a finalizer, acquire one resource each, release it
and are let go. Both machine modules implement it (`KeepsPromise`), under the
mapping `lifeOf`, `held` (the objects with the finalizer) and `served` (those for
which a server can be found: by its label, or by its name at Robot).

### HcloudMachine

| state | code |
|---|---|
| `obj`, `cache` | the HcloudMachine in the API server and in the informer |
| `queue` | the work queue of the controller |
| `phase`, `paused`, `imageBuilt`, `volumeReady` | what the controller waits for: owner and bootstrap data, pause, packer, volumes |
| `lb`, `teardown` | the load balancer of the cluster controller: whether there is one, in the private network or outside it, and that the HcloudCluster is being deleted, after which none is made |
| `owner`, `power`, `targets` | the servers by their labels, their status, the load balancer's targets |
| `worker.snap`, `worker.work` | the patch helper's snapshot and the object in memory |
| `worker.lb` | the load balancer `FindLoadBalancer` returned for the attachment |

| action | code |
|---|---|
| `Reconcile` | the handler up to the scope and its early returns |
| `AddFinalizer` | `reconcileNormal` up to its `PatchObject` |
| `Prepare`, `FindServer`, `CreateServer` | `server.Reconcile`: image, bootstrap data, search by label, create |
| `AttachToLoadBalancer`, `CheckAddresses` | attachment of control planes, `/readyz`, `Status.Ready` |
| `DeleteFind`, `Detach`, `DeleteServer` | `server.Delete` |
| `Close`, `Panic`, `Crash` | the deferred `Close`, a panic on its way through it, the end of the process |

`AttachToLoadBalancer` and `Detach` panic where there is no load balancer:
`FindLoadBalancer` returns nil without an error (`loadbalancer.go:255`), and its
result is dereferenced (`server.go:453`, `:459`, `:492`). The load balancer can be
lost at any time, by somebody's hand or by a cluster controller that has not seen
the machine; unless the HcloudCluster is being deleted, a new one is made
(`RestoreLoadBalancer`).

### HcloudCluster

One action per service call, in the order of `reconcileNormal` and
`reconcileDelete`. `Patch` has the two calls of the patch helper, of which a
fault leaves any part, and `Denied`: the webhook refuses the first one when
`SetStatusLocations` has changed `spec.locations` (`obj.defaults` says that the
user left them empty). `machines` and `mcache` are the HcloudMachines and the
other informer's view of them, which lags. A reconcile finds an API server among
the machines it lists (`Answering`), and one that answers may stop to. A
reconcile that returns before it has a scope, for want of an owner or because the
cluster is paused (lines 86-104), changes nothing: it is no step, and `Reconcile`
has no fairness. Flags (constants) switch on what only some deployments meet:
`ExtraServices`, `DefaultLocations`, `LateAddress`, `EarlyDelete`.

### TargetClusterManagers

`stopCh` is the map, `lock` its mutex, `manager` the goroutines, `closed` the
channels that are closed. The two critical sections of the worker (`Enter`, then
`CreateManager` or `StopManager`) and that of a goroutine (`Lock`, `CleanUp`)
are split where they block; `ReadChannel` is the read of the map outside the
lock, which may also end the process when it meets a write. A `Reconcile` of a
live cluster may close before it comes to the manager: on an error of a service,
or for want of a ready API server (lines 184-245). The error of
`SetupWithManager` is dropped (lines 335-337), so a manager may be registered
without its controller (`csr` is false).

### TargetCluster

Composes the GuestCSR controller with the managers that run it: every step of
`TargetClusterManagers` is a step here too (`ManagersStep`, `ProcessEnds`),
together with what it does to the work queues (`QueuesFollow`). `Consider` is
`Reconcile` up to the update, with `ValidateKubeletCSR`; `Decide` is
`UpdateApproval`, whose error the code logs and forgets. A reconcile is kept in
`decider[i]` when its manager is stopped, since nothing waits for it, and a
successor may decide meanwhile. `address` and `known` are the server's address
and what the cache of the management cluster says of it. The kubelet (external)
asks again after a denial, for a new address, and when nobody has its request in
hand. A manager without the controller sees no request.

### BareMetalMachine

`srv[s].name` is the name of the server at Robot: `Free` for "type--anything", a
machine for "cluster--type--machine". `rescue`, `system` and `running` are the
next boot, what is installed and what has been booted; `drives` is what is on
each drive: nothing, a file system right on it (`PlainDrives`), somebody's
partitions (`DataDrives`), or a system. `UsedServers` carry the system of an
earlier machine (`Former`). As `lsblk` lists no children of a drive with a plain
file system, `CorrectDevice` takes it for a free one. The steps of
`provisionMachine` are actions, from `ActivateRescue` to `SetName`, one per call
or group of SSH commands with the same effect; each can fail before or after it
had its effect, end the process by the panic of `runSSH`, or, for a reboot, seem
to succeed and not happen. `Delete` renames the server and touches nothing else,
so the next machine finds it as it was left. Machines have an owner and a
cluster, and are not paused: those early returns are those of `HcloudMachine`.
The preference among several free drives (the smallest, then the last name) is a
choice here; it is in `BlockDevices`.

### HcloudVolume

`owner[i]` is the object in the name of volume `i`, `terms[v]` the policies the
object has had since its deletion was requested, which nothing in the code
knows: users change the policy whenever they like (`Edit`), also then.
`Reconcile` ends early as long as the Cluster is coming, and for ever once it is
gone. `Locate`, `ReconcileVolume` and `CreateVolume` are the calls of
`reconcileNormal`; `DeleteFind` and `DeleteVolume` those of `reconcileDelete`,
which always looks for the volume and then decides by the policy it has read
when it began (`volume.go:101`). The finalizer is in memory until `Close`. Sizes
are counted in halves of a Gi, to see `Value() / 1024^3` round down (`SizeOf`).

### Packer

`Initialize` and `EnsureImage` are one step each of the machine controller's
reconcile, `ReturnEarly` the ways out between them. `path` is the one field all
machines share, `folder` what was extracted below `/tmp`. A build is a child
process (`Save`, `Exit`) and a goroutine (`Terminate`); `table` is the map of
builds. The goroutine does not take the lock, so `EnsureImage` may see a build
terminated and its error not yet. `snapshots` are the images at Hetzner by label,
each with the configuration it really comes from.

### BlockDevices, Locations, UserData

`FindCorrectDevice` with the reading of sizes, `Reconcile` of the location
service, and the functions of `userdata.go` with their two callers, as operators.
None is recursive: a selection is the least or the greatest index with a property,
and sorting is the choice of the arrangement that ascends.
`MCOperators` makes every input within bounds a state: lists of up to three
devices of nine kinds in every order, specs of up to three of five locations,
documents of up to two files.

## 3. What is checked

| run | shows | bounds |
|---|---|---|
| `machine_safety` | no orphan, no double, ready only as a target of the load balancer found, drained before it is stopped, refinement of `OwnedResource` | one control plane with a private network and a load balancer that may be lost, two server ids, three faults |
| `machine_pair` | one worker and two machines: no provider id twice | a control plane and a worker, no fault |
| `machine_liveness` | deletion, readiness, attachment, and the provider id kept, also where a create is executed late | one control plane with a private network, one fault, `LateCreates` |
| `managers` | no double close; one manager per cluster whose name is not used again; every cluster that stays, and whose reconciles keep coming to its manager, is managed | two clusters, one of them with a name that is used again, three managers, one fault |
| `cluster` | nothing left, nothing doubled, endpoint kept, initialized means applied; readiness (where the user named locations), deletion, manifests | two networks, two load balancers, two manifests, a machine, locations given or not, further services, a late address, one fault |
| `bare_metal` | a server gets its name last and runs nothing of an earlier machine, one server per machine, partitions kept, refinement of `OwnedResource`, readiness and deletion | one machine that comes and goes, two servers of three drives, one with partitions and one with a plain file system, one server with an earlier machine's system, two faults |
| `volume` | one volume per object, data removed only under the policy Delete, nothing left; creation and deletion | one object that comes and goes, whose policy changes at any time, two volumes, three faults |
| `packer` | one build per image, own images from their own configuration, an image comes | an image of the container and one of a URL, two builds, two faults |
| `target_cluster` | a decision stands; a node gets its certificate, unless its manager stays without the controller | one cluster, three managers, two addresses, two faults |
| `operators` | the drive chosen is right and is chosen again; locations are stable; the kubeadm configuration gets through the user data and the rest of it stays | 29,915 inputs |
| `managers_nil_channel` | *violation*: a manager that can never be stopped | one cluster, two managers, no fault |
| `cluster_early_delete` | *violation*: resources of a cluster deleted during its first reconcile stay | one of each, no fault |

The inductive invariants (`IInv`, `OneInv`, `PInv`, `Drained`, `NamedOnce`,
`Attached`, `Identified`) were checked with the configurations of these runs
before they were proved.

Why the bounds are enough: a second server, network or load balancer is what a
double needs; a loss needs one fault at the worst moment, and the retry that
could make it worse a second; the third lets a server be lost, or the process
crash, on top of that. Two machines interact through their labels and the worker
only, and `machine_pair` has both. A name used twice needs a manager of the old
cluster, one of the new and one more that the old one's clean-up makes room for.
A bare metal server is used again after its machine was deleted, or after a
provisioning that broke off: one machine that is created again meets both, and a
server of an earlier machine what a name must not hide; two free drives are what a
second label needs. A volume's reconcile can act on
a deletion that is over only if the object comes again, which it does; three
faults are a lost create, a lost patch and a crash. The packer's path is wrong
when a second image initializes in between, and a table entry is wrong when a
second build exists. A request is decided twice only by two managers, and the
third is started after both. Users in `cluster` and `volume` delete an object
once it has its finalizer (`EarlyDelete = FALSE`; the contrary is
`cluster_early_delete` and `VolumeEarlyDelete`). `ManifestsApplied` is about
manifests that differ from the recorded ones and are not changed again; those
that change back after a lost record are not applied, which is `ClusterRollback`.
What the bounds could hide is what the theorems of section 4 are for.

### Disagreements between the code and what it says

Two are runs (above, and under "findings" in `PROJECT.json`). Others were met
while modelling; each is stated in its module and has a configuration that shows
a trace when TLC is run on it by hand, as in
`tlc -config HardDisk.cfg MCOperators`:

| property | configuration | what happens |
|---|---|---|
| `HcloudMachine!ReadyControlPlanesAreTargets` | `MachineLateNetwork` | while the load balancer is outside the private network `server.go:453-456` returns nil without attaching, and the control plane is reported ready without being a target |
| `HcloudMachine!ReadyMeansServing` | `MachineNotServing` | `server.go:131-137` keeps the error of `/readyz` in a list and marks the control plane ready anyway |
| `HcloudMachine!NoPanic` | `MachineVolume` | `server.go:174` returns neither a server nor an error when a volume is not there yet; `server.go:89` dereferences the server |
| `BareMetalMachine!NamedMeansProvisioned` | `BareMetalHalfDone` | the error of `ResetBMServer` is dropped (`baremetal.go:293`) and the loss of the connection is taken for a reboot (`baremetal.go:395`): the user data is written into the rescue system, and the server is named, and reported ready, without it |
| `BareMetalMachine!FailedNotReady` | `BareMetalFailedReady` | a cancelled machine is failed and not ready (`baremetal.go:120-122`), and ready again before `Reconcile` returns (`baremetal.go:162`) |
| `BareMetalMachine!DriveLeft` | `BareMetalNoDrive` | a process that ends between the installation and the label leaves a drive that is neither labelled nor empty (the wipe of `baremetal.go:351` is for errors only); after that has happened to every drive the server can never be used again |
| `BareMetalMachine!DataKept` | `BareMetalPlain` | a drive is free when it has no children (`baremetal.go:631`); `lsblk` is asked for the file system (`baremetal.go:309`) and the answer is not looked at, so a file system right on a drive is installed over |
| `BlockDevices!HardDiskIsTaken` | `HardDisk` | without an SSD the hard disks are put into a list that is not looked at (`baremetal.go:636-646`): the drive is the empty name, and there is no error |
| `HcloudVolume!SizeIsMinimum` | `VolumeSize` | a size between whole Gi is rounded down (`volume.go:118`) where `hcloudvolume_types.go:50` calls it the minimum |
| `HcloudVolume!PolicyKept` | `VolumePolicy` | the default policy, set on an object read from an old cache (`volume.go:68`), overwrites the one its user has given meanwhile |
| `HcloudVolume!LastWordKept` | `VolumeLastWord` | the policy that decides is that of the cache when the reconcile began (`volume.go:101`): a Retain that its user gives during the deletion may come too late, and the volume of an object made anew under the name may go |
| `HcloudVolume!DeleteLeavesNothing` | `VolumeEarlyDelete` | an object deleted before its first reconcile has closed leaves its volume, as with clusters |
| `Packer!LabelIsTrue` | `PackerForeign` | an image of a URL whose directory is there already is built from whatever configuration another machine initialized last, and labelled with its own hash |
| `HcloudCluster!EveryClusterBecomesReady` | `ClusterWebhook` | defaulted locations are written into a spec that the webhook keeps from changing: every patch is denied |
| `HcloudCluster!MachinesGoFirst` | `ClusterLag` | `ListMachines` reads a cache of its own: a machine it has not seen loses its network, and is never reconciled again once the HcloudCluster is gone |
| `HcloudCluster!AppliedHashIsTrue` | `ClusterRollback` | manifests are applied, the patch that records it is lost, and the manifests return to what was recorded before: they are not applied |
| `HcloudCluster!ReadyMeansAllServices` | `ClusterServices` | services after the first are added by `createLoadBalancer` alone; when that fails once they are never added |
| `HcloudCluster!NoPanic` | `ClusterNoAddress` | without an IPv4 `reconcileNormal` goes on to `scope/cluster.go:260`, which dereferences the endpoint that was not set |

Four more are exceptions that a property of a run names, not properties of their
own. A create that is executed late makes a second resource: the search then
returns an error for load balancers and servers, and the first one for networks
(`~OneServerPerMachine`). A goroutine of a deleted cluster may delete the map
entry of a cluster created again under its name, so that a second manager is
started beside the first (`Recreate`). A machine whose load balancer is lost while
the cluster is being deleted takes the process down with every reconcile
(`Stranded`; `server.go:492`). A manager whose controller could not be set up is
registered and started all the same, and none takes its place
(`WithoutController`; `hcloudcluster_controller.go:335-337`).

### Fairness, and why the code justifies it

A worker that has started goes on (a goroutine, and every remote call returns in
the end). A reconcile that has something left asks for another one by returning
an error or `RequeueAfter`, the work queue is first in, first out, and the
informers resync; `Reconcile` is strongly fair for machines and volumes, whose
early returns are steps of the model. A paused cluster, or one without an owner, is
not reconciled to any effect, and a reconcile may return before it comes to the
target cluster's manager for as long as no API server is ready; so for clusters
and managers nothing is assumed, and a property says what it needs: `NotHeldUp`
(reconciles come past those returns again and again), `[]<>Reached(k)` (they come
to the manager of `k`) and `[]<>~WithoutController(k)`. Caches catch up.
Servers boot and obey a shutdown, packer finishes, and the provider gives
addresses; that an API server comes up is not assumed. A mutex is handed to whoever
waits for it, so taking it is strongly fair. Users, pauses and faults have no
fairness, and faults are finitely many, by `MaxFaults`. `FairSpec` states this in
every module, `FairAllSpec` in `TargetCluster`, where in addition a kubelet asks
again (client-go does so with backoff, and waits for longer than a reconcile
takes). A machine without an image is reconciled every few seconds and does reach
`EnsureImage`, which is strongly fair in `Packer`; a build's process and goroutine
go on.

`CHECK_DEADLOCK FALSE` stands in the configurations of `TargetClusterManagers`
and `TargetCluster` only: when every cluster is gone and no name is used again
nothing is left to do.

## 4. What is proved

| theorem | says | assumes |
|---|---|---|
| `HcloudMachineProofs!TypeCorrect` | `Spec => []TypeOK` | the named assumptions on the constants |
| `HcloudMachineProofs!NoOrphans` | `Spec => []NoOrphanServer` | `LateCreates = FALSE` |
| `HcloudMachineProofs!NoDuplicates` | `Spec => []OneServerPerMachine` | `LateCreates = FALSE` |
| `HcloudMachineProofs!DistinctProviderIDs` | `Spec => []ProviderIDsDistinct` | the named assumptions |
| `HcloudMachineProofs!DrainedFirst`, `OwnServersOnly` | `Spec => DrainBeforeStop`, `Spec => TouchesOwnServerOnly` | the same |
| `HcloudMachineProofs!ReadyMeansTarget` | `Spec => ReadyMeansAttached`, an action property | the same |
| `HcloudMachineProofs!ProviderIDStays` | `Spec => ProviderIDKept`, an action property | the same |
| `HcloudMachineProofs!Implements` | `Spec => KeepsPromise`, that is `OwnedResource!Spec` under the mapping | `LateCreates = FALSE` |
| `TargetClusterManagersProofs!TypeCorrect` | `Spec => []TypeOK` | the named assumptions on the constants |
| `TargetClusterManagersProofs!NoDoubleClose` | `Spec => []RegisteredChannelOpen` | the same |
| `TargetClusterManagersProofs!NoStaleEntry` | `Spec => []RegisteredManagerLives` | the same |
| `TargetClusterManagersProofs!OneManager` | `Spec => []OneManagerPerCluster` | the same |
| `TargetClusterProofs!AllTypeCorrect` | `AllSpec => []AllTypeOK` | the named assumptions on the constants |
| `TargetClusterProofs!NoDoubleCloseThere`, `OneManagerThere` | `AllSpec => []RegisteredChannelOpen`, `AllSpec => []OneManagerPerCluster` | the same |
| `TargetClusterProofs!DecisionsStand` | `AllSpec => DecisionStands`, an action property | the same |
| `BareMetalMachineProofs!TypeCorrect`, `Invariance` | `Spec => []TypeOK`, `Spec => [](TypeOK /\ IInv)` | the named assumptions on the constants |
| `BareMetalMachineProofs!NamesComeLast` | `Spec => []NamedMeansInstalled` | the same |
| `BareMetalMachineProofs!NoDuplicates` | `Spec => []OneServerPerMachine` | the same |
| `BareMetalMachineProofs!OneLabel` | `Spec => []OneSystemDrive` | the same |
| `BareMetalMachineProofs!PartitionsSafe` | `Spec => PartitionsKept`, an action property | the same |
| `BareMetalMachineProofs!Implements` | `Spec => KeepsPromise` | the same |
| `HcloudClusterProofs!TypeCorrect` | `Spec => []TypeOK` | the named assumptions on the constants |
| `HcloudClusterProofs!OneResource` | `Spec => []OneOfEach` | the same |
| `HcloudClusterProofs!NoLeftovers`, `Initialized` | `Spec => []ResourcesHaveCluster`, `Spec => []InitializedMeansApplied` | `EarlyDelete = FALSE` |
| `HcloudClusterProofs!EndpointStays` | `Spec => EndpointKept` | `EarlyDelete = FALSE` |
| `HcloudVolumeProofs!TypeCorrect` | `Spec => []TypeOK` | the named assumptions on the constants |
| `HcloudVolumeProofs!OneVolume`, `DataSafe` | `Spec => []OneVolumePerObject`, `Spec => DataKept` | the same |
| `HcloudVolumeProofs!NothingLeft` | `Spec => DeleteLeavesNothing` | `EarlyDelete = FALSE` |
| `PackerProofs!TypeCorrect` | `Spec => []TypeOK` | the named assumptions on the constants |
| `PackerProofs!OneBuild`, `OwnImages` | `Spec => []OneBuildPerImage`, `Spec => []OwnImagesAreOwn` | the same |
| `OperatorProofs!ConfigAlwaysArrives`, `RestIsAlwaysKept` | `ConfigArrives` and `RestIsKept`, for any number of files, any paths, owners and settings | nothing |
| `OperatorProofs!OrderIsIrrelevant` | two lists of the same devices give the same drive | the names in a list differ |
| `OperatorProofs!DriveIsAlwaysRight`, `DriveIsAlwaysKept` | `DriveIsRight` and `DriveIsKept`, for lists of any length and sizes | the names in a list differ |
| `OperatorProofs!LocationsStayTheSame` | `LocationsAreStable`, for specs of any length | the locations and zones of the run |
| `OperatorProofs!BoundedDataArrives`, `BoundedDrivesAreRight`, `BoundedDrivesAreKept`, `BoundedLocationsStay` | the invariants of the run `operators` | nothing |

*Machines.* `NoOrphanServer` is not inductive: a reconcile that started from an
old object could take the finalizer away, or create a server for an object that
is gone. `IInv` says why it does not. `Held`: the finalizer is there while the
object is deleting or has a server. `CacheSafe`: a finalizer the cache shows on a
live object is still there, and what it shows as deleted is not held alive.
`NormalSafe`: past its first patch a reconcile of a live object has the finalizer
in the API and never takes it back, and at the point of creating the machine has
no server. `DeleteSafe`: a reconcile of a deleted object lets go only when no
server is left, and the one it found is the only one. `PatchIInv`, the step in
which the snapshot's differences meet whatever the API holds by now, is the heart
of the proof. A create executed late breaks it, and the properties, which is why
the theorems assume there is none: nothing in the code could prevent it.

That provider ids differ holds with late creates too. A server's id can be written
down in its labels (as a machine's name), in an object, in the cache and in the
reconcile in flight (`Names`), and however old these are, they never name one
server next to two machines (`NamedOnce`): every step copies an id from one of
them to another of the same machine (`AddsNoName`), and only a create adds a name,
to a server that no object or cache names (`Unused`, which is Hetzner's promise
not to use ids twice as far as the model needs it). With `Drained` (a server that
is there has an owner, a target is there, and from the detachment on the worker's
server is no target) it follows that the controller touches its own machine's
servers only, and stops none that is a target.

A control plane that becomes ready is a target because nothing but the end of a
reconcile sets `Ready`, and from the attachment on its server is `Served`
(`Attached`): it is a target, or gone, or the load balancer found for it was
outside the private network or is lost by now. The last two are needed: the code
reports success from the attachment for a load balancer outside the network,
which is what `MachineLateNetwork` shows (section 3), and a load balancer takes
its targets with it. A lost one does not come back under its identity
(`Remembered`), so a new one never hides that an attachment was missed.

A provider id stays although the machine is looked up by label each time. The
server an object names is not one that is still to come, so the search lists it
for as long as it is there; what a reconcile is about to write (`ToWrite`) is the
one server that was listed, and then the old one is the same or is gone
(`Identified`). A second server by a late create makes the search return an error,
so late creates are allowed here.

*Refinement.* `Implements` maps every step to one of `OwnedResource` or to a
stutter. Three facts carry it: a patch changes `lifeOf` and `held` only as the
abstract object may (`PatchMaps`), a server gets its owner while its object is held
and has none, and the finalizer goes after the last server. For `HcloudMachine`
they follow from `IInv`. The bare metal machines need an invariant of their own,
`PInv`, with the same parts, where the name at Robot takes the place of the label;
that `Delete`, which renames one server, leaves none with the name rests on
`OneServerPerMachine`.

*Managers.* `RegisteredChannelOpen` needs that an entry belongs to a goroutine
that lives and was started for that key (so a channel that is made again is not
in the map), and that the lock is held between the look-up and the write, by one
party (`LockHeld`). That a name is used again is allowed. For
`OneManagerPerCluster` it is not: `OneInv` says that a goroutine is the registered
one, or has been stopped and its cluster is ending (`Ending`), so that no reconcile
will make another.

In `TargetCluster` a step is one of the managers, or leaves all they have alone but
for the count of faults (`StepSplits`), so their invariants hold there too.
`DecisionStands` then rests on `Decide`, which the API server refuses for a request
that has changed since it was read, and on the kubelet, whose next request begins
undecided.

*Clusters.* `OneOfEach` is inductive with the types alone: the service that
creates has just searched by label and found nothing. The others need `IInv`:
the object goes only by the `Close` of a reconcile of its deletion, so a live
object in the cache is the one in the API (`ObjectInv`; without
`EarlyDelete = FALSE` it could be gone, which is where `ResourcesHaveCluster`
fails); a reconcile of a live object writes an endpoint or a hash down only after
what it stands for (`NormalInv`); one of a deletion gives things up in order, the
finalizer last (`DeleteInv`). That machines go first is not true of the code
(`ClusterLag`), and nothing here rests on it.

*Volumes.* What the cache or a reconcile knows of a deletion may be of an earlier
object of the same name, and its policy one that the user has taken back. `Seen`
says what it is worth then: the policy is one the object had during that deletion
(`terms`); an object made anew meanwhile has no finalizer yet; and if the policy
was Delete throughout, there is no volume any more, or the object is still the
one that is being deleted. `NormalInv` and `DeleteInv` carry it through a
reconcile.

*Packer.* A build that runs is in the table under its image, so a second is not
started (`OneBuild`); an image of the container sets the path itself, in the
`Initialize` of the reconcile that comes to its `EnsureImage`, so that it does not
matter what earlier ones have left there (`OwnImages`).

*Bare metal.* `NamedMeansInstalled` needs to know what the step before the name
leaves behind: `Progress` says it for every step, `ServerFree` that the server is
nobody's and the machine has no other, which is also why a machine never gets a
second one (`NamesDiffer`). That there is one label (`LabelsDiffer`) and that
partitions are kept need that the drive chosen is the labelled one, or one
without partitions, and that it is still what was installed when it gets the
label. `OtherStep` shows that
every action outside the provisioning changes at most a name, to `Free`.

*Operators.* The library's induction theorems take an operator as a parameter, which
the provers here cannot instantiate. What they would be used for follows from one
consequence of well-foundedness instead: a set of numbers that is not empty has a
least one (`Least`). From it come a bound of finitely many numbers (`Bounded`), the
greatest element of a bounded set (`Greatest`) and a sorted arrangement of every
list (`AllSortable`: a shortest list without one would have one by `OneMore`, its
greatest element put last). Documents need none of it: what is written at a path is
read there again, however many files there are (`WrittenIsRead`), and a file at
another path is untouched (`PutFacts`). The order of the devices does not matter
because the best drive is the one that comes before all others (`BestIsFirst`,
`BestIsOne`), and a labelled drive, or the lack of any, is seen in every order
(`NotChosen`). The invariants of the run are these theorems, applied to its inputs.

Only model-checked are the liveness properties, which are beyond the prover:
`DeletedMachineGoes` and `MachineBecomesReady` of both kinds of machines,
`ControlPlaneJoinsLoadBalancer`, `LiveClusterManaged`, `ClusterBecomesReady`,
`DeletedClusterGoes`, `ManifestsApplied`, `ImageComes`, `VolumeComes`,
`DeletedVolumeGoes` and `CertificateComes`. Every invariant and every action
property of a run that passes, both refinements included, is stated by a theorem.
What a run or a configuration shows violated is not proved, of course; the theorems
name the conditions (`LateCreates = FALSE`, `EarlyDelete = FALSE`) under which it
is true after all, where there is such a condition.

## 5. What is not modelled, and why

* Generated code, mocks, the cloud clients (a call is an action of its caller).
* Rendering of manifests, kubectl, cloud-init, packer and SSH: external programs,
  present as calls that succeed or fail.
* `SkipKubeProxy` of the user data, which only a test calls.
* Two installations that share a Robot account or a Hetzner project, and clusters
  of one name in two namespaces: their labels and names are the same, and nothing
  in the code tells them apart.
* Creates that are executed late for load balancers, networks, volumes and bare
  metal servers; `HcloudMachine` has them for servers.
* Flags, registration and TLS of `main.go`; certificates and hooks of the
  webhooks; the early returns of bare metal machines, which are those of
  `HcloudMachine`.
* Names, CIDR blocks, placement, SSH keys, server types: data no property tells
  apart.
* `config/`, `demo/`, `hack/`, image scripts: not part of the process.

## 6. What could follow

1. Composition of the teardown: `HcloudCluster` with the machines of
   `HcloudMachine`, abstracted to `OwnedResource`.
2. Two managers that share a Robot account, in `BareMetalMachine`.
3. Late creates of networks and load balancers.
4. Proofs: what `HcloudMachine` promises where creates can be executed late (a
   second server is found, and nothing else is done until somebody removes it),
   and the composition of item 1.
