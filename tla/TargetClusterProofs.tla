-------------------------- MODULE TargetClusterProofs --------------------------
(***************************************************************************)
(* The GuestCSR controllers and the managers that run them, together: what *)
(* is proved of the managers alone holds of them, and a decided request    *)
(* stays as it was decided, for any clusters, managers, addresses, nodes   *)
(* and faults.                                                             *)
(***************************************************************************)
EXTENDS TargetCluster, TargetClusterManagersProofs

-----------------------------------------------------------------------------
(* The managers, as a part of the whole.                                   *)

\* A step of the whole is one of the managers, or leaves them alone but for a
\* fault that it counts.
LEMMA StepSplits ==
  ASSUME [AllNext]_allVars
  PROVE  \/ [Next]_vars
         \/ Fault /\ UNCHANGED <<cluster, worker, lock, stopCh, closed, manager>>
<1>1. CASE ManagersStep
  BY <1>1 DEF ManagersStep, Next, GoroutineStep
<1>2. CASE ProcessEnds
  BY <1>2 DEF ProcessEnds, Next, GoroutineStep
<1>3. ASSUME NEW i \in Managers, Consider(i) \/ Decide(i)
      PROVE  /\ Fault \/ NoFault
             /\ UNCHANGED <<cluster, worker, lock, stopCh, closed, manager>>
  BY <1>3 DEF Consider, Decide
<1>4. ASSUME NEW k \in Nodes, Address(k) \/ Learn(k) \/ Ask(k)
      PROVE  /\ Fault \/ NoFault
             /\ UNCHANGED <<cluster, worker, lock, stopCh, closed, manager>>
  BY <1>4 DEF Address, Learn, Ask, NoFault, vars
<1>5. CASE UNCHANGED allVars
  BY <1>5 DEF allVars
<1>6. QED BY <1>1, <1>2, <1>3, <1>4, <1>5 DEF AllNext, NoFault, vars

\* Their invariants speak of nothing else, so they are kept.
LEMMA ManagersStepInv ==
  ASSUME TypeOK, IInv, OneInv, [AllNext]_allVars
  PROVE  TypeOK' /\ IInv' /\ OneInv'
<1>1. CASE [Next]_vars
  BY <1>1, StepType, StepIInv, StepOneInv
<1>2. CASE Fault /\ UNCHANGED <<cluster, worker, lock, stopCh, closed, manager>>
  <2>1. TypeOK'
    BY <1>2, FaultsType DEF TypeOK
  <2>2. IInv' /\ OneInv'
    BY <1>2 DEF IInv, RegisteredChannelOpen, RegisteredManagerLives, LockHeld,
                OneInv, Registered, Ending
  <2>3. QED BY <2>1, <2>2
<1>3. QED BY <1>1, <1>2, StepSplits

LEMMA ManagersInvariance == AllSpec => [](TypeOK /\ IInv /\ OneInv)
<1>1. AllInit => TypeOK /\ IInv /\ OneInv
  BY InitType, InitIInv, InitOneInv DEF AllInit
<1>2. QED BY <1>1, ManagersStepInv, PTL DEF AllSpec

\* The controllers cannot make the managers close a channel twice, though a
\* manager that is stopped leaves its reconcile behind.
THEOREM NoDoubleCloseThere == AllSpec => []RegisteredChannelOpen
<1>1. IInv => RegisteredChannelOpen
  BY DEF IInv
<1>2. QED BY <1>1, ManagersInvariance, PTL

\* Nor that two managers serve one cluster, both of them not told to stop.
THEOREM OneManagerThere == AllSpec => []OneManagerPerCluster
<1>1. OneInv /\ TypeOK => OneManagerPerCluster
  BY NamesAssumption DEF OneInv, Registered, OneManagerPerCluster, TypeOK
<1>2. QED BY <1>1, ManagersInvariance, PTL

-----------------------------------------------------------------------------
(* Types.                                                                  *)

LEMMA AllInitType == AllInit => AllTypeOK
<1> SUFFICES ASSUME AllInit PROVE AllTypeOK
  OBVIOUS
<1>1. NoRequest \in Request /\ NoDecider \in Decider
  BY DEF NoRequest, Request, NoDecider, Decider, Decisions
<1>2. TypeOK
  BY InitType DEF AllInit
<1>3. QED BY <1>1, <1>2 DEF AllInit, AllTypeOK

\* A reconcile that goes on has one of the clusters, since its manager runs.
LEMMA ConsiderType ==
  ASSUME AllTypeOK, NEW i \in Managers, Consider(i)
  PROVE  decider' \in [Managers -> Decider]
<1>1. manager[i].k \in Clusters
  BY DEF Consider, AllTypeOK, TypeOK
<1>2. Validate(manager[i].k) \in Decisions
  BY DEF Validate, Decisions
<1>3. [k |-> manager[i].k, latest |-> TRUE, verdict |-> Validate(manager[i].k)] \in Decider
  BY <1>1, <1>2 DEF Decider
<1>4. QED BY <1>3 DEF Consider, AllTypeOK

LEMMA AllStepType ==
  ASSUME AllTypeOK, TypeOK', [AllNext]_allVars
  PROVE  AllTypeOK'
<1>1. NoRequest \in Request /\ NoDecider \in Decider
  BY DEF NoRequest, Request, NoDecider, Decider, Decisions
<1>2. CASE ManagersStep
  BY <1>2 DEF ManagersStep, QueuesFollow, AllTypeOK
<1>3. CASE ProcessEnds
  BY <1>1, <1>3 DEF ProcessEnds, AllTypeOK
<1>4. ASSUME NEW i \in Managers, Consider(i) PROVE AllTypeOK'
  BY <1>4, ConsiderType DEF Consider, AllTypeOK
<1>5. ASSUME NEW i \in Managers, Decide(i) PROVE AllTypeOK'
  <2>1. decider[i].verdict \in {"none", "pending"} \cup Decisions
    BY DEF AllTypeOK, Decider
  <2>2. request' \in [Clusters -> Request]
    <3>1. \A k \in Clusters : [request[k] EXCEPT !.state = decider[i].verdict] \in Request
      BY <2>1 DEF AllTypeOK, Request
    <3>2. QED BY <1>5, <3>1 DEF Decide, AllTypeOK
  <2>3. decider' \in [Managers -> Decider]
    BY <1>1, <1>5 DEF Decide, AllTypeOK
  <2>4. QED BY <1>5, <2>2, <2>3 DEF Decide, AllTypeOK
<1>6. ASSUME NEW k \in Nodes, Address(k) \/ Learn(k) PROVE AllTypeOK'
  BY <1>6, NodesAssumption DEF Address, Learn, AllTypeOK
<1>7. ASSUME NEW k \in Nodes, Ask(k) PROVE AllTypeOK'
  <2>1. request' \in [Clusters -> Request]
    <3>1. [state |-> "pending", claims |-> address[k]] \in Request
      BY NodesAssumption DEF AllTypeOK, Request
    <3>2. QED BY <1>7, <3>1 DEF Ask, AllTypeOK
  <2>2. decider' \in [Managers -> Decider]
    <3>1. \A i \in Managers : [decider[i] EXCEPT !.latest = FALSE] \in Decider
      BY DEF AllTypeOK, Decider
    <3>2. QED BY <1>7, <3>1 DEF Ask, AllTypeOK
  <2>3. queued' \subseteq Managers
    BY <1>7 DEF Ask, AllTypeOK
  <2>4. QED BY <1>7, <2>1, <2>2, <2>3 DEF Ask, AllTypeOK
<1>8. CASE UNCHANGED allVars
  BY <1>8 DEF allVars, csrVars, AllTypeOK
<1>9. QED BY <1>2, <1>3, <1>4, <1>5, <1>6, <1>7, <1>8 DEF AllNext

\* Type correctness of the managers and the controllers together.
THEOREM AllTypeCorrect == AllSpec => []AllTypeOK
<1>1. AllTypeOK /\ TypeOK' /\ [AllNext]_allVars => AllTypeOK'
  BY AllStepType
<1>2. QED BY <1>1, AllInitType, ManagersInvariance, PTL DEF AllSpec

-----------------------------------------------------------------------------
(* Decisions.                                                              *)

\* Only Decide decides, and what it decides was pending.
LEMMA DecidePending ==
  ASSUME AllTypeOK, [AllNext]_allVars, NEW k \in Clusters,
         request'[k].state \in Decisions
  PROVE  request'[k] = request[k] \/ request[k].state = "pending"
<1>1. CASE UNCHANGED request
  BY <1>1
<1>2. ASSUME NEW i \in Managers, Decide(i)
      PROVE  request'[k] = request[k] \/ request[k].state = "pending"
  BY <1>2 DEF Decide, AllTypeOK
<1>3. ASSUME NEW n \in Nodes, Ask(n) PROVE request'[k] = request[k]
  BY <1>3 DEF Ask, AllTypeOK, Decisions
<1>4. CASE ManagersStep \/ ProcessEnds
  BY <1>1, <1>4 DEF ManagersStep, ProcessEnds
<1>5. ASSUME \/ \E i \in Managers : Consider(i)
             \/ \E n \in Nodes : Address(n) \/ Learn(n)
      PROVE  UNCHANGED request
  BY <1>5 DEF Consider, Address, Learn
<1>6. CASE UNCHANGED allVars
  BY <1>1, <1>6 DEF allVars, csrVars
<1>7. QED BY <1>1, <1>2, <1>3, <1>4, <1>5, <1>6 DEF AllNext

\* A stopped manager's reconcile that comes late, its successor's, a call that
\* was executed though it failed: none of them turns a decision over
\* (cluster_csr_controller.go:70).
THEOREM DecisionsStand == AllSpec => DecisionStands
<1>1. ASSUME AllTypeOK, [AllNext]_allVars
      PROVE  \A k \in Clusters :
               request[k].state \in Decisions /\ request'[k].state \in Decisions
               => request'[k].state = request[k].state
  BY <1>1, DecidePending DEF Decisions
<1>2. AllTypeOK /\ [AllNext]_allVars =>
        [\A k \in Clusters :
           request[k].state \in Decisions /\ request'[k].state \in Decisions
           => request'[k].state = request[k].state]_allVars
  BY <1>1
<1>3. QED BY <1>2, AllTypeCorrect, PTL DEF AllSpec, DecisionStands
=============================================================================
