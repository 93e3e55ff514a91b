---------------------------- MODULE MCStoreOpen -----------------------------
(* Small instances of StoreOpen for TLC. *)
EXTENDS StoreOpen, TLC

CONSTANTS p1, p2, p3

TwoProcs == {p1, p2}
ThreeProcs == {p1, p2, p3}

ProcsAreAlike == Permutations(ThreeProcs)
=============================================================================
