----------------------------- MODULE SessionLog -----------------------------
(***************************************************************************)
(* What a session promises to those who watch it: a log of events that     *)
(* only grows, and a status that starts at running and changes only to a   *)
(* terminal status whose event is in the log.                              *)
(***************************************************************************)
EXTENDS Naturals, Sequences

CONSTANTS Type,       \* event types
          Terminal    \* terminal statuses; the type of the event has that name

VARIABLES log,        \* the types of the session's events
          status      \* sessions.status, "none" if there is no row

Recorded(t) == \E i \in DOMAIN log : log[i] = t

Init == log = <<>> /\ status = "none"

Create == status = "none" /\ status' = "running" /\ UNCHANGED log

Record(t) == log' = Append(log, t) /\ UNCHANGED status

End(t) == status # "none" /\ Recorded(t) /\ status' = t /\ UNCHANGED log

Next == Create \/ (\E t \in Type : Record(t)) \/ (\E t \in Terminal : End(t))

Spec == Init /\ [][Next]_<<log, status>>
=============================================================================
