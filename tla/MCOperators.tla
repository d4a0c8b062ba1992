------------------------------ MODULE MCOperators ------------------------------
(* BlockDevices, Locations and UserData over bounded inputs: a state is an       *)
(* input, tagged with the module it is for, and nothing happens to it.           *)
EXTENDS Integers, Sequences

Known == 1 .. 4
Default == "eu-central"
ZoneOf == [l \in Known |-> IF l = 3 THEN "us-east" ELSE "eu-central"]

D == INSTANCE BlockDevices
L == INSTANCE Locations
U == INSTANCE UserData

VARIABLE input

\* Devices without their names: free SSDs of four sizes, two of them the same
\* in different units; a hard disk; devices with partitions; and others than sd.
Big  == [tenths |-> 10, unit |-> "T", comma |-> FALSE]
Same == [tenths |-> 10000, unit |-> "G", comma |-> FALSE]
Half == [tenths |-> 5000, unit |-> "G", comma |-> FALSE]
Odd  == [tenths |-> 35, unit |-> "T", comma |-> TRUE]
Kinds ==
  [sd : {TRUE}, rotates : {FALSE}, parts : {"none"}, size : {Big, Same, Half, Odd}]
  \cup [sd : {TRUE}, rotates : {FALSE}, parts : {"plain", "os"}, size : {Half}]
  \cup [sd : {TRUE}, rotates : {TRUE}, parts : {"none", "os"}, size : {Half}]
  \cup [sd : {FALSE}, rotates : {FALSE}, parts : {"none", "os"}, size : {Half}]

DeviceLists ==
  UNION { {[i \in 1 .. n |-> [name |-> p[i], sd |-> k[i].sd, rotates |-> k[i].rotates,
                              parts |-> k[i].parts, size |-> k[i].size]] :
             k \in [1 .. n -> Kinds],
             p \in {q \in [1 .. n -> 1 .. n] : \A i, j \in 1 .. n : q[i] = q[j] => i = j}} :
          n \in 0 .. 3 }

\* Specs of at most three locations; the fifth is unknown.
Specs == UNION {[1 .. n -> 1 .. 5] : n \in 0 .. 3}

\* Documents of at most two files, with everything a configuration can contain.
Args == {<<>>, [cloud |-> "user"], [other |-> "user"]}
ObjectsOf == {U!Nil} \cup {U!Object(a) : a \in Args}
Contents ==
  {U!MissingContent, U!Text}
  \cup {U!Rendered([cluster |-> c, init |-> U!Nil, join |-> j]) : c, j \in ObjectsOf}
Files ==
  {U!File(path, content, owner) :
     path \in {U!InitPath, U!JoinPath, "ca.crt"}, content \in Contents,
     owner \in {"missing", "root"}}
Documents == {U!NoDocument} \cup {U!Document(fs) : fs \in UNION {[1 .. n -> Files] : n \in 0 .. 2}}
Settings == [cloud |-> "external", issuer |-> "endpoint"]

Init ==
  input \in [for : {"drive"}, ds : DeviceLists] \cup [for : {"location"}, spec : Specs]
            \cup [for : {"data"}, doc : Documents, controlPlane : BOOLEAN]
Next == UNCHANGED input
Spec == Init /\ [][Next]_input

\* Of every list of devices, the drive chosen is the right one (BlockDevices).
DrivesAreRight == input.for = "drive" => D!DriveIsRight(input.ds)

\* It is chosen again after it has been installed.
DrivesAreKept == input.for = "drive" => D!DriveIsKept(input.ds)

\* A free hard disk is used where there is no SSD.
HardDisksAreTaken == input.for = "drive" => D!HardDiskIsTaken(input.ds)

\* The locations of a cluster do not change when they are reconciled again.
LocationsAreStable == input.for = "location" => L!LocationsAreStable(input.spec)

\* The kubeadm configuration gets through the user data, and the rest of the
\* document is left as it is (ConfigArrives and RestIsKept of UserData).
UserDataArrives ==
  input.for = "data" =>
    /\ U!ConfigArrives(input.doc, input.controlPlane, Settings)
    /\ U!RestIsKept(input.doc, input.controlPlane, Settings)
=============================================================================
