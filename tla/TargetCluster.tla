----------------------------- MODULE TargetCluster -----------------------------
(***************************************************************************)
(* The GuestCSR controller (controllers/cluster_csr_controller.go) in the  *)
(* target cluster managers that run it: it decides the certificate signing *)
(* requests of the kubelets by what the HcloudMachine says of the server.  *)
(*                                                                         *)
(* Managers come and go as TargetClusterManagers has it.  A manager that   *)
(* has been stopped may still have a reconcile in flight when the next one *)
(* for the cluster has begun.  One node per cluster is followed; requests  *)
(* of other nodes and users do not touch it.                               *)
(***************************************************************************)
EXTENDS TargetClusterManagers

CONSTANTS
  Addresses,  \* the addresses servers can have
  Nodes       \* the clusters that get a node

ASSUME AddressesAssumption == None \notin Addresses
ASSUME NodesAssumption == Nodes \subseteq Clusters

VARIABLES
  address,   \* address[k]: that of the node's server; its kubelet asks for it
  known,     \* known[k]: Status.Addresses in the management cluster's cache
  request,   \* request[k]: the node's latest certificate signing request
  queued,    \* the managers that have the request in their work queue
  decider    \* decider[i]: the reconcile of manager i that is in flight

csrVars == <<address, known, request, queued, decider>>
allVars == <<vars, csrVars>>

Decisions == {"approved", "denied"}
Request == [state : {"none", "pending"} \cup Decisions, claims : Addresses \cup {None}]
NoRequest == [state |-> "none", claims |-> None]

\* latest: what it decides on has not been replaced by a newer request.
Decider == [k : Clusters \cup {None}, latest : BOOLEAN, verdict : Decisions]
NoDecider == [k |-> None, latest |-> FALSE, verdict |-> "denied"]

AllTypeOK ==
  /\ TypeOK
  /\ address \in [Clusters -> Addresses \cup {None}]
  /\ known \in [Clusters -> Addresses \cup {None}]
  /\ request \in [Clusters -> Request]
  /\ queued \subseteq Managers
  /\ decider \in [Managers -> Decider]

AllInit ==
  /\ Init
  /\ address = [k \in Clusters |-> None] /\ known = address
  /\ request = [k \in Clusters |-> NoRequest]
  /\ queued = {}
  /\ decider = [i \in Managers |-> NoDecider]

-----------------------------------------------------------------------------
(* What becomes of the controllers when managers come and go.              *)

\* A manager that begins to run lists the requests, if it has the controller;
\* one that ends forgets its queue, but not what its worker is doing.
QueuesFollow ==
  queued' = {i \in Managers : /\ manager'[i].state = "running" /\ manager'[i].csr
                              /\ i \in queued \/ manager[i].state # "running"}

\* (A manager's name is not used again while its worker is busy.)
ManagersStep ==
  /\ \/ \E k \in Clusters : Reconcile(k) \/ CreateCluster(k) \/ DeleteCluster(k)
     \/ WorkerStep
     \/ \E i \in Managers : ReadChannel(i) /\ faults' = faults
     \/ \E i \in Managers : Lock(i) \/ CleanUp(i) \/ Return(i)
  /\ \A i \in Managers : manager'[i].state = "spawned" => decider[i] = NoDecider
  /\ QueuesFollow
  /\ UNCHANGED <<address, known, request, decider>>

\* The process ends: by a crash, or by the read of the map that meets a write.
ProcessEnds ==
  /\ Crash \/ \E i \in Managers : ReadChannel(i) /\ faults' # faults
  /\ queued' = {} /\ decider' = [i \in Managers |-> NoDecider]
  /\ UNCHANGED <<address, known, request>>

-----------------------------------------------------------------------------
(* The controller.                                                         *)

\* ValidateKubeletCSR, for a well-formed request of the node: every address it
\* claims is one of the machine's.
Validate(k) == IF request[k].claims = known[k] THEN "approved" ELSE "denied"

\* Reconcile up to the update.  A request that is decided is skipped, if the
\* informer of this manager shows it; the machine may not be found yet, or the
\* read fails, and is tried again.
Consider(i) ==
  /\ manager[i].state = "running" /\ i \in queued /\ decider[i] = NoDecider
  /\ LET k == manager[i].k IN
       \/ /\ request[k].state # "pending"
          /\ queued' = queued \ {i} /\ NoFault /\ UNCHANGED decider
       \/ /\ request[k].state # "none"
          /\ queued' = queued \ {i} /\ NoFault
          /\ decider' = [decider EXCEPT ![i] =
               [k |-> k, latest |-> TRUE, verdict |-> Validate(k)]]
       \/ Fault /\ UNCHANGED <<queued, decider>>
  /\ UNCHANGED <<cluster, worker, lock, stopCh, closed, manager>>
  /\ UNCHANGED <<address, known, request>>

\* Mutant: the condition is added to the request as it is now.
DecideLatest(i) ==
  /\ decider[i] # NoDecider
  /\ decider' = [decider EXCEPT ![i] = NoDecider]
  /\ request' = [request EXCEPT ![decider[i].k].state = decider[i].verdict]
  /\ UNCHANGED <<vars, address, known, queued>>

\* Mutant: Update, which leaves the status as it is, for UpdateApproval.
DecideByUpdate(i) ==
  /\ decider[i] # NoDecider
  /\ decider' = [decider EXCEPT ![i] = NoDecider]
  /\ UNCHANGED <<vars, address, known, request, queued>>

\* UpdateApproval carries the resource version that was read: the API server
\* refuses it for a request that has been decided.  Its error, whatever it is,
\* is logged and forgotten; the call may have been executed nonetheless.
Decide(i) ==
  /\ decider[i] # NoDecider
  /\ LET d == decider[i]
         fits == d.latest /\ request[d.k].state = "pending"
     IN \/ /\ fits
           /\ request' = [request EXCEPT ![d.k].state = d.verdict]
           /\ (NoFault \/ Fault)
        \/ ~fits /\ NoFault /\ UNCHANGED request
        \/ fits /\ Fault /\ UNCHANGED request
  /\ decider' = [decider EXCEPT ![i] = NoDecider]
  /\ UNCHANGED <<cluster, worker, lock, stopCh, closed, manager>>
  /\ UNCHANGED <<address, known, queued>>

-----------------------------------------------------------------------------
(* The machine and its kubelet.                                            *)

\* The server gets an address, or is replaced and gets another one.
Address(k) ==
  /\ \/ address[k] = None /\ NoFault
     \/ address[k] # None /\ Fault
  /\ \E a \in Addresses \ {address[k]} : address' = [address EXCEPT ![k] = a]
  /\ UNCHANGED <<cluster, worker, lock, stopCh, closed, manager>>
  /\ UNCHANGED <<known, request, queued, decider>>

\* The machine controller has written it, and the informer has it.
Learn(k) ==
  /\ known[k] # address[k] /\ known' = [known EXCEPT ![k] = address[k]]
  /\ UNCHANGED <<vars, address, request, queued, decider>>

\* Somebody will still decide the request.
InHand(k) ==
  \/ \E i \in queued : manager[i].k = k
  \/ \E i \in Managers : decider[i].k = k /\ decider[i].latest

\* The kubelet asks, for the first time, after a denial, for a new address, or
\* when it has waited in vain; it waits much longer than a reconcile takes.
Ask(k) ==
  /\ cluster[k] = "held" /\ address[k] # None
  /\ \/ request[k].state \in {"none", "denied"}
     \/ request[k].claims # address[k]
     \/ request[k].state = "pending" /\ ~InHand(k)
  /\ request' = [request EXCEPT ![k] = [state |-> "pending", claims |-> address[k]]]
  /\ queued' = queued \cup {i \in Managers : /\ manager[i].state = "running"
                                             /\ manager[i].k = k /\ manager[i].csr}
  /\ decider' = [i \in Managers |->
       IF decider[i].k = k THEN [decider[i] EXCEPT !.latest = FALSE] ELSE decider[i]]
  /\ UNCHANGED <<vars, address, known>>

AllNext ==
  \/ ManagersStep \/ ProcessEnds
  \/ \E i \in Managers : Consider(i) \/ Decide(i)
  \/ \E k \in Nodes : Address(k) \/ Learn(k) \/ Ask(k)

AllSpec == AllInit /\ [][AllNext]_allVars

\* The fairness of TargetClusterManagers for the steps as they are here; a
\* worker of each manager that goes on, a cache that catches up, and kubelets
\* that ask again.
AllFairness ==
  /\ WF_allVars(CreateManager /\ ManagersStep) /\ WF_allVars(StopManager /\ ManagersStep)
  /\ WF_allVars(Close /\ ManagersStep) /\ SF_allVars(Enter /\ ManagersStep)
  /\ \A k \in Nodes :
       /\ WF_allVars(Address(k) /\ NoFault) /\ WF_allVars(Learn(k)) /\ WF_allVars(Ask(k))
  /\ \A i \in Managers :
       /\ WF_allVars(ReadChannel(i) /\ ManagersStep) /\ WF_allVars(CleanUp(i) /\ ManagersStep)
       /\ SF_allVars(Lock(i) /\ ManagersStep)
       /\ WF_allVars(Return(i) /\ manager[i].ch \in closed /\ ManagersStep)
       /\ WF_allVars(Consider(i) /\ NoFault) /\ WF_allVars(Decide(i))

FairAllSpec == AllSpec /\ AllFairness

-----------------------------------------------------------------------------
(* Properties.                                                             *)

\* "skip CSR that have already been decided" (cluster_csr_controller.go:70): a
\* decision stands, though a manager that was stopped and its successor can have
\* come to different ones.
DecisionStands ==
  [][\A k \in Clusters :
       request[k].state \in Decisions /\ request'[k].state \in Decisions
       => request'[k].state = request[k].state]_allVars

\* The cluster's manager is one whose controller could not be set up.  It is
\* registered, so no reconcile replaces it.
WithoutController(k) ==
  \E i \in Managers : stopCh[k] = i /\ ~manager[i].csr

\* The node of a cluster that stays is given its certificate in the end, though
\* it may ask before the machine's addresses are known and be denied, though
\* updates fail and nobody repeats them, and whatever ends the managers: if the
\* cluster's reconciles come to its manager again and again, and it is not left
\* with one that has no controller.
CertificateComes ==
  \A k \in Nodes :
    []<>Reached(k) /\ []<>~WithoutController(k) =>
      (cluster[k] = "held" ~>
         \/ cluster[k] # "held"
         \/ request[k].state = "approved" /\ request[k].claims = address[k])
=============================================================================
