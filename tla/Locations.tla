------------------------------- MODULE Locations -------------------------------
(***************************************************************************)
(* The location service (pkg/cloud/resources/location/location.go) and the *)
(* two SetStatusLocations that take its result: of a cluster, which writes *)
(* it back to the spec, and of a volume, which has one location.           *)
(***************************************************************************)
EXTENDS Integers, Sequences, FiniteSets, SequencesExt

CONSTANTS Known,   \* the locations Hetzner has; a number, for its place in the order
          ZoneOf,  \* ZoneOf[l]: its network zone
          Default  \* the zone of a cluster without locations

Zones == {ZoneOf[l] : l \in Known}
Error == [err |-> TRUE, locations |-> <<>>, zone |-> Default]
Answer(ls, zone) == [err |-> FALSE, locations |-> ls, zone |-> zone]

\* What a list can be rearranged to.
Arrangements(ls) ==
  {[n \in DOMAIN ls |-> ls[p[n]]] : p \in Bijection(DOMAIN ls, DOMAIN ls)}

\* sort.Strings: what is listed twice stays twice.
Sorted(ls) ==
  CHOOSE s \in Arrangements(ls) : \A n, m \in DOMAIN ls : n < m => s[n] <= s[m]

\* In some order, in which Hetzner lists them.
InZone(zone) == SetToSeq({l \in Known : ZoneOf[l] = zone})

\* Mutant: the zone of the default locations is not looked at.
ReconcileAnyZone(spec) ==
  LET ls == IF spec = <<>> THEN SetToSeq(Known) ELSE spec
  IN IF \E n \in DOMAIN spec : spec[n] \notin Known THEN Error
     ELSE IF \E n \in DOMAIN spec : ZoneOf[spec[n]] # ZoneOf[spec[1]] THEN Error
     ELSE IF ls = <<>> THEN Error
     ELSE Answer(Sorted(ls), IF spec = <<>> THEN Default ELSE ZoneOf[spec[1]])

\* Reconcile, for the locations of a spec.
Reconcile(spec) ==
  LET ls == IF spec = <<>> THEN InZone(Default) ELSE spec
  IN IF \E n \in DOMAIN spec : spec[n] \notin Known THEN Error
     ELSE IF \E n \in DOMAIN spec : ZoneOf[spec[n]] # ZoneOf[spec[1]] THEN Error
     ELSE IF ls = <<>> THEN Error
     ELSE Answer(Sorted(ls), IF spec = <<>> THEN Default ELSE ZoneOf[spec[1]])

-----------------------------------------------------------------------------

\* The result is written to the spec of the cluster and read from there by the
\* next reconcile, which must come to the same: defaults included, a cluster is
\* never found to span two zones by what it wrote itself.
LocationsAreStable(spec) ==
  LET r == Reconcile(spec) IN ~r.err => Reconcile(r.locations) = r
=============================================================================
