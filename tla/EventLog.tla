------------------------------ MODULE EventLog ------------------------------
(***************************************************************************)
(* What the event store promises its callers: one append-only log per      *)
(* aggregate.  An event is recorded at the end of the log of its aggregate,*)
(* nothing is ever removed, moved or overwritten, and no event identifier  *)
(* is recorded twice in the whole store.                                   *)
(*                                                                         *)
(* A log is a function on 1..n, so "contiguous sequences" (docs/           *)
(* architecture.md) is part of what this specification says.               *)
(***************************************************************************)
EXTENDS Naturals

CONSTANTS Agg,     \* aggregates: sessions, and the bootstrap aggregate
          Id       \* event identifiers

VARIABLE log       \* log[a] : 1..n -> Id, the events of aggregate a in order

Length(l) == IF DOMAIN l = {} THEN 0
             ELSE CHOOSE n \in DOMAIN l : \A m \in DOMAIN l : m <= n

Recorded(i) == \E a \in Agg : \E n \in DOMAIN log[a] : log[a][n] = i

Init == log = [a \in Agg |-> [n \in {} |-> n]]

Record(a, i) ==
  /\ ~ Recorded(i)
  /\ log' = [log EXCEPT ![a] =
               [n \in DOMAIN log[a] \cup {Length(log[a]) + 1} |->
                  IF n \in DOMAIN log[a] THEN log[a][n] ELSE i]]

Next == \E a \in Agg, i \in Id : Record(a, i)

Spec == Init /\ [][Next]_log
=============================================================================
