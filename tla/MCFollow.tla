------------------------------ MODULE MCFollow ------------------------------
(* Small instances of Follow for TLC. *)
EXTENDS Follow, TLC

CONSTANTS f1, f2

TwoFollowers == {f1, f2}

FollowersAreAlike == Permutations(TwoFollowers)
=============================================================================
