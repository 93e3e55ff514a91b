------------------------------ MODULE MCConfig ------------------------------
(* A small instance of Config for TLC. *)
EXTENDS Config, TLC

CONSTANTS c1, c2, c3, profile, extra, dev, v

ThreeCommands == {c1, c2, c3}
TwoKeys == {profile, extra}
TwoValues == {dev, v}

\* The profile has a default, other keys have none.
NewHome == profile :> dev @@ extra :> Unset

CommandsAreAlike == Permutations(ThreeCommands)
=============================================================================
