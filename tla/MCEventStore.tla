---------------------------- MODULE MCEventStore ----------------------------
(* A small instance of EventStore for TLC. *)
EXTENDS EventStore, TLC

CONSTANTS p1, p2, p3, a1, u1, u2, c1

ThreeProcs == {p1, p2, p3}
OneAgg == {a1}
TwoUuids == {u1, u2}
OneCaller == {c1}

Alike == Permutations(ThreeProcs) \cup Permutations(TwoUuids)
=============================================================================
