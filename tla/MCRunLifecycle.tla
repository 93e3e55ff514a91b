--------------------------- MODULE MCRunLifecycle ---------------------------
(* Small instances of RunLifecycle for TLC. *)
EXTENDS RunLifecycle, TLC

CONSTANTS c1, c2

TwoClients == {c1, c2}

ClientsAreAlike == Permutations(TwoClients)
=============================================================================
