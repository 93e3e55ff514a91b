------------------------------- MODULE MCSetup -------------------------------
(* A small instance of Setup for TLC. *)
EXTENDS Setup, TLC

CONSTANTS p1, p2, skill, prompt, h1, h2, h3

TwoProcs == {p1, p2}
Paths == {skill, prompt}
Hashes == {h1, h2, h3}

File(path, hash) == [path |-> path, sha256 |-> hash]

\* The second release changes one file of the first, the third drops the other.
Releases ==
  {<<File(skill, h1), File(prompt, h2)>>,
   <<File(skill, h3), File(prompt, h2)>>,
   <<File(skill, h3)>>}

ProcsAreAlike == Permutations(TwoProcs)
=============================================================================
