---------------------------- MODULE OwnedResource ----------------------------
(***************************************************************************)
(* What every infrastructure controller of this provider promises: a       *)
(* Kubernetes object stands for one cloud resource, and a finalizer on the *)
(* object keeps it in the API until the resource has been given back.      *)
(*                                                                         *)
(* The promise is written down at the finalizers' declarations ("allows    *)
(* ... to clean up Hcloud resources ... before removing it from the        *)
(* apiserver", api/v1alpha3/hcloudmachine_types.go:25).  The module keeps  *)
(* nothing of how a controller does it; HcloudMachine implements it.       *)
(***************************************************************************)

CONSTANT Objects      \* the names an object can have

VARIABLES
  life,      \* life[o]: "absent", "live" or "deleting" (deletionTimestamp set)
  held,      \* the objects that carry the finalizer
  resource   \* the objects whose cloud resource exists

vars == <<life, held, resource>>

Init ==
  /\ life = [o \in Objects |-> "absent"]
  /\ held = {}
  /\ resource = {}

\* A user creates the object.
Create(o) ==
  /\ life[o] = "absent"
  /\ life' = [life EXCEPT ![o] = "live"]
  /\ UNCHANGED <<held, resource>>

\* A user deletes the object: it goes at once unless the finalizer holds it.
Delete(o) ==
  /\ life[o] = "live"
  /\ life' = [life EXCEPT ![o] = IF o \in held THEN "deleting" ELSE "absent"]
  /\ UNCHANGED <<held, resource>>

\* The controller takes hold of an object that is still there.
Hold(o) ==
  /\ life[o] # "absent"
  /\ held' = held \cup {o}
  /\ UNCHANGED <<life, resource>>

\* The cloud resource is created, for an object that is held and has none.
Acquire(o) ==
  /\ o \in held
  /\ o \notin resource
  /\ resource' = resource \cup {o}
  /\ UNCHANGED <<life, held>>

\* The cloud resource goes: the controller deletes it, or somebody else does.
Release(o) ==
  /\ resource' = resource \ {o}
  /\ UNCHANGED <<life, held>>

\* The controller lets the object go, which has no resource any more.
LetGo(o) ==
  /\ life[o] = "deleting"
  /\ o \notin resource
  /\ life' = [life EXCEPT ![o] = "absent"]
  /\ held' = held \ {o}
  /\ UNCHANGED resource

Next ==
  \E o \in Objects :
    \/ Create(o) \/ Delete(o) \/ Hold(o)
    \/ Acquire(o) \/ Release(o) \/ LetGo(o)

Spec == Init /\ [][Next]_vars

=============================================================================
