-------------------------- MODULE EventStoreProofs --------------------------
(***************************************************************************)
(* Proofs about the event store, for any number of processes, aggregates   *)
(* and events.                                                             *)
(***************************************************************************)
EXTENDS EventStore, TLAPS

-----------------------------------------------------------------------------
(* The inductive invariant *)

\* The arguments of an operation are those its next statement needs.
ArgumentsOK ==
  \A p \in Proc :
    /\ pc[p] = "begin" => op[p].kind \in {"append", "create", "end"}
    /\ pc[p] \in {"insert", "upsert"} => op[p].kind = "append"
    /\ pc[p] = "create" => op[p].kind = "create"
    /\ pc[p] = "end" => op[p].kind = "end"
    /\ pc[p] = "commit" => op[p].kind \in {"append", "create", "end"}
    /\ pc[p] \in FastStatement => op[p].kind = "fast"
    /\ pc[p] \in {"idle"} => op[p] = NoOp
    /\ op[p].kind \in {"append", "fast"} => op[p].id \in Id /\ op[p].agg \in Agg
    /\ op[p].kind \in {"create", "end"} => op[p].agg \in Agg
    /\ op[p].kind \in {"create", "end", "fast"} => op[p].status \in Status

\* The write lock is held exactly by the process inside its transaction, and
\* a transaction's view extends the committed events.
LockOK ==
  /\ \A p \in Proc : pc[p] \in InTransaction <=> lock = p
  /\ lock # None => events \subseteq txEvents

\* MAX(sequence) exists: the tables start empty and grow row by row.
HasMax(rows) ==
  \A a \in Agg : SequencesOf(rows, a) # {} =>
    \E m \in SequencesOf(rows, a) :
      \A k \in SequencesOf(rows, a) : k <= m

IInv == TypeOK /\ ArgumentsOK /\ LockOK /\ HasMax(events) /\ HasMax(txEvents)

-----------------------------------------------------------------------------
(* Lemmas about the tables *)

LEMMA NextSequenceIsNext ==
  ASSUME NEW rows \in SUBSET Row, HasMax(rows), NEW a \in Agg
  PROVE  /\ NextSequence(rows, a) \in Nat \ {0}
         /\ \A k \in SequencesOf(rows, a) : k < NextSequence(rows, a)
         /\ SequencesOf(rows, a) # {}
              => NextSequence(rows, a) - 1 \in SequencesOf(rows, a)
<1> DEFINE S == SequencesOf(rows, a)
           Top == CHOOSE n \in S : \A m \in S : m <= n
<1>1. S \subseteq Nat
  BY DEF SequencesOf, Row
<1>2. CASE S = {}
  BY <1>2 DEF NextSequence
<1>3. CASE S # {}
  <2>1. \E n \in S : \A m \in S : m <= n
    BY <1>3 DEF HasMax
  <2>2. Top \in S /\ \A m \in S : m <= Top
    BY <2>1
  <2>3. NextSequence(rows, a) = 1 + Top
    BY <1>3 DEF NextSequence
  <2> QED BY <1>1, <2>2, <2>3
<1> QED BY <1>2, <1>3

LEMMA SequencesOfInsert ==
  ASSUME NEW rows, NEW row \in Row, NEW a \in Agg
  PROVE  SequencesOf(rows \cup {row}, a) =
           IF row.agg = a THEN SequencesOf(rows, a) \cup {row.seq}
           ELSE SequencesOf(rows, a)
BY DEF SequencesOf

LEMMA InsertKeepsMax ==
  ASSUME NEW rows \in SUBSET Row, HasMax(rows), NEW row \in Row
  PROVE  HasMax(rows \cup {row})
<1> SUFFICES ASSUME NEW a \in Agg, SequencesOf(rows \cup {row}, a) # {}
             PROVE  \E m \in SequencesOf(rows \cup {row}, a) :
                      \A k \in SequencesOf(rows \cup {row}, a) : k <= m
  BY DEF HasMax
<1> DEFINE S == SequencesOf(rows, a)
<1>1. S \subseteq Nat /\ row.seq \in Nat
  BY DEF SequencesOf, Row
<1>2. S # {} => \E m \in S : \A k \in S : k <= m
  BY DEF HasMax
<1>3. CASE row.agg # a
  BY <1>2, <1>3, SequencesOfInsert, ZenonT(30)
<1>4. CASE row.agg = a
  <2>1. SequencesOf(rows \cup {row}, a) = S \cup {row.seq}
    BY <1>4, SequencesOfInsert
  <2>2. CASE S = {}
    BY <1>1, <2>1, <2>2
  <2>3. CASE S # {}
    <3>1. PICK m \in S : \A k \in S : k <= m
      BY <1>2, <2>3
    <3>2. CASE m <= row.seq
      BY <1>1, <2>1, <3>1, <3>2
    <3>3. CASE ~ (m <= row.seq)
      BY <1>1, <2>1, <3>1, <3>3
    <3> QED BY <3>2, <3>3
  <2> QED BY <2>2, <2>3
<1> QED BY <1>3, <1>4

-----------------------------------------------------------------------------
(* The invariant is inductive *)

LEMMA InitIInv == ASSUME ConstantsOK PROVE Init => IInv
<1> SUFFICES ASSUME ConstantsOK, Init PROVE IInv
  OBVIOUS
<1> USE DEF Init
<1>1. TypeOK
  BY DEF TypeOK, Row, Label, Operation, NoOp, Op
<1>2. ArgumentsOK
  BY DEF ArgumentsOK, NoOp, Op, FastStatement
<1>3. LockOK
  BY DEF ConstantsOK, LockOK, InTransaction
<1>4. HasMax(events) /\ HasMax(txEvents)
  BY DEF HasMax, SequencesOf
<1> QED BY <1>1, <1>2, <1>3, <1>4 DEF IInv

LEMMA NextIInv ==
  ASSUME ConstantsOK, IInv, [Next]_vars
  PROVE  IInv'
<1> USE ConstantsOK DEF IInv
<1> USE DEF Id, vars, committed, view
<1>1. ASSUME NEW p \in Proc, NEW a \in Agg, NEW i \in Id, NEW s \in CallerSeq \cup {0}, AppendEvent(p, a, i, s)
      PROVE  IInv'
  <2> USE <1>1 DEF AppendEvent, Call, Op, Goto
  <2>1. TypeOK'
    BY DEF ConstantsOK, TypeOK, ArgumentsOK, Row, Label, Operation, InTransaction, FastStatement
  <2>2. ArgumentsOK'
    BY DEF ConstantsOK, TypeOK, ArgumentsOK, Operation, Label, FastStatement
  <2>3. LockOK'
    BY DEF ConstantsOK, TypeOK, ArgumentsOK, LockOK, InTransaction, FastStatement
  <2>4. HasMax(events)' /\ HasMax(txEvents)'
    BY DEF HasMax, TypeOK
  <2> QED BY <2>1, <2>2, <2>3, <2>4
<1>2. ASSUME NEW p \in Proc, NEW a \in Agg, NEW status \in Status, CreateSession(p, a, status)
      PROVE  IInv'
  <2> USE <1>2 DEF CreateSession, Call, Op, Goto
  <2>1. TypeOK'
    BY DEF ConstantsOK, TypeOK, ArgumentsOK, Row, Label, Operation, InTransaction, FastStatement
  <2>2. ArgumentsOK'
    BY DEF ConstantsOK, TypeOK, ArgumentsOK, Operation, Label, FastStatement
  <2>3. LockOK'
    BY DEF ConstantsOK, TypeOK, ArgumentsOK, LockOK, InTransaction, FastStatement
  <2>4. HasMax(events)' /\ HasMax(txEvents)'
    BY DEF HasMax, TypeOK
  <2> QED BY <2>1, <2>2, <2>3, <2>4
<1>3. ASSUME NEW p \in Proc, NEW a \in Agg, NEW status \in Status, EndSession(p, a, status)
      PROVE  IInv'
  <2> USE <1>3 DEF EndSession, Call, Op, Goto
  <2>1. TypeOK'
    BY DEF ConstantsOK, TypeOK, ArgumentsOK, Row, Label, Operation, InTransaction, FastStatement
  <2>2. ArgumentsOK'
    BY DEF ConstantsOK, TypeOK, ArgumentsOK, Operation, Label, FastStatement
  <2>3. LockOK'
    BY DEF ConstantsOK, TypeOK, ArgumentsOK, LockOK, InTransaction, FastStatement
  <2>4. HasMax(events)' /\ HasMax(txEvents)'
    BY DEF HasMax, TypeOK
  <2> QED BY <2>1, <2>2, <2>3, <2>4
<1>4. ASSUME NEW p \in Proc, BeginImmediate(p)
      PROVE  IInv'
  <2> USE <1>4 DEF BeginImmediate, Goto
  <2>1. TypeOK'
    BY DEF ConstantsOK, TypeOK, ArgumentsOK, Row, Label, Operation, InTransaction, FastStatement
  <2>2. ArgumentsOK'
    BY DEF ConstantsOK, TypeOK, ArgumentsOK, Operation, Label, FastStatement
  <2>3. LockOK'
    BY DEF ConstantsOK, TypeOK, ArgumentsOK, LockOK, InTransaction, FastStatement
  <2>4. HasMax(events)' /\ HasMax(txEvents)'
    BY DEF HasMax, TypeOK
  <2> QED BY <2>1, <2>2, <2>3, <2>4
<1>5. ASSUME NEW p \in Proc, BeginTimeout(p)
      PROVE  IInv'
  <2> USE <1>5 DEF BeginTimeout, Done, Goto, NoOp, Op
  <2>1. TypeOK'
    BY DEF ConstantsOK, TypeOK, ArgumentsOK, Row, Label, Operation, InTransaction, FastStatement
  <2>2. ArgumentsOK'
    BY DEF ConstantsOK, TypeOK, ArgumentsOK, Operation, Label, FastStatement
  <2>3. LockOK'
    BY DEF ConstantsOK, TypeOK, ArgumentsOK, LockOK, InTransaction, FastStatement
  <2>4. HasMax(events)' /\ HasMax(txEvents)'
    BY DEF HasMax, TypeOK
  <2> QED BY <2>1, <2>2, <2>3, <2>4
<1>6. ASSUME NEW p \in Proc, InsertEvent(p)
      PROVE  IInv'
  <2> USE <1>6 DEF InsertEvent, At, Op, RowOf, InsertOrIgnore, Goto
  <2> DEFINE n == IF op[p].seq # 0 THEN op[p].seq
                  ELSE NextSequence(txEvents, op[p].agg)
             row == RowOf(At(op[p], n))
  <2>a. op[p].id \in Id /\ op[p].agg \in Agg /\ op[p].kind = "append"
        /\ op[p].seq \in Nat /\ op[p].status \in Status \cup {None}
    BY DEF TypeOK, ArgumentsOK, Operation
  <2>b. n \in Nat
    BY <2>a, NextSequenceIsNext DEF TypeOK
  <2>c. row \in Row
    BY <2>a, <2>b DEF Row
  <2>d. At(op[p], n) \in Operation
    BY <2>a, <2>b DEF Operation
  <2>e. /\ op' = [op EXCEPT ![p] = At(@, n)]
        /\ txEvents' = InsertOrIgnore(txEvents, row)
        /\ pc' = [pc EXCEPT ![p] = "upsert"]
        /\ UNCHANGED <<committed, txLast, txSessions, lock, acked>>
    OBVIOUS
  <2> HIDE DEF n, row, InsertEvent, At
  <2>1. TypeOK'
    BY <2>c, <2>d, <2>e DEF TypeOK, Label, InTransaction
  <2>2. ArgumentsOK'
    BY <2>a, <2>b, <2>e DEF ConstantsOK, TypeOK, ArgumentsOK, Operation, Label, FastStatement, At
  <2>3. LockOK'
    BY <2>e, <1>6, SMTT(30) DEF InsertEvent, ConstantsOK, TypeOK, ArgumentsOK, LockOK, InTransaction, FastStatement
  <2>4. HasMax(events)' /\ HasMax(txEvents)'
    <3>1. HasMax(txEvents \cup {row})
      BY <2>c, InsertKeepsMax DEF TypeOK
    <3> QED BY <2>e, <3>1 DEF HasMax
  <2> QED BY <2>1, <2>2, <2>3, <2>4
<1>7. ASSUME NEW p \in Proc, UpsertEvent(p)
      PROVE  IInv'
  <2> USE <1>7 DEF UpsertEvent, UpsertAggregate, Goto
  <2>1. TypeOK'
    BY DEF ConstantsOK, TypeOK, ArgumentsOK, Row, Label, Operation, InTransaction, FastStatement
  <2>2. ArgumentsOK'
    BY DEF ConstantsOK, TypeOK, ArgumentsOK, Operation, Label, FastStatement
  <2>3. LockOK'
    BY DEF ConstantsOK, TypeOK, ArgumentsOK, LockOK, InTransaction, FastStatement
  <2>4. HasMax(events)' /\ HasMax(txEvents)'
    BY DEF HasMax, TypeOK
  <2> QED BY <2>1, <2>2, <2>3, <2>4
<1>8. ASSUME NEW p \in Proc, WriteSession(p)
      PROVE  IInv'
  <2> USE <1>8 DEF WriteSession, InsertSession, UpdateSession, Goto
  <2>1. TypeOK'
    BY DEF ConstantsOK, TypeOK, ArgumentsOK, Row, Label, Operation, InTransaction, FastStatement
  <2>2. ArgumentsOK'
    BY DEF ConstantsOK, TypeOK, ArgumentsOK, Operation, Label, FastStatement
  <2>3. LockOK'
    BY DEF ConstantsOK, TypeOK, ArgumentsOK, LockOK, InTransaction, FastStatement
  <2>4. HasMax(events)' /\ HasMax(txEvents)'
    BY DEF HasMax, TypeOK
  <2> QED BY <2>1, <2>2, <2>3, <2>4
<1>9. ASSUME NEW p \in Proc, Commit(p)
      PROVE  IInv'
  <2> USE <1>9 DEF Commit, Persisted, Done, Goto, NoOp, Op
  <2>a. acked' \subseteq Row
    BY DEF TypeOK
  <2>b. op' \in [Proc -> Operation]
    BY DEF TypeOK, Operation
  <2>c. pc' \in [Proc -> Label]
    BY DEF TypeOK, Label
  <2>1. TypeOK'
    BY <2>a, <2>b, <2>c DEF TypeOK
  <2>2. ArgumentsOK'
    BY DEF ConstantsOK, TypeOK, ArgumentsOK, Operation, Label, FastStatement
  <2>3. LockOK'
    BY DEF ConstantsOK, TypeOK, ArgumentsOK, LockOK, InTransaction, FastStatement
  <2>4. HasMax(events)' /\ HasMax(txEvents)'
    BY DEF HasMax, TypeOK
  <2> QED BY <2>1, <2>2, <2>3, <2>4
<1>10. ASSUME NEW p \in Proc, Rollback(p)
      PROVE  IInv'
  <2> USE <1>10 DEF Rollback, Done, Goto, NoOp, Op
  <2>1. TypeOK'
    BY DEF ConstantsOK, TypeOK, ArgumentsOK, Row, Label, Operation, InTransaction, FastStatement
  <2>2. ArgumentsOK'
    BY DEF ConstantsOK, TypeOK, ArgumentsOK, Operation, Label, FastStatement
  <2>3. LockOK'
    BY DEF ConstantsOK, TypeOK, ArgumentsOK, LockOK, InTransaction, FastStatement
  <2>4. HasMax(events)' /\ HasMax(txEvents)'
    BY DEF HasMax, TypeOK
  <2> QED BY <2>1, <2>2, <2>3, <2>4
<1>11. ASSUME NEW p \in Proc, NEW a \in Agg, NEW i \in Uuid, FastCrash(p, a, i)
      PROVE  IInv'
  <2> USE <1>11 DEF FastCrash, Op, Goto
  <2>1. TypeOK'
    BY DEF ConstantsOK, TypeOK, ArgumentsOK, Row, Label, Operation, InTransaction, FastStatement
  <2>2. ArgumentsOK'
    BY DEF ConstantsOK, TypeOK, ArgumentsOK, Operation, Label, FastStatement
  <2>3. LockOK'
    BY DEF ConstantsOK, TypeOK, ArgumentsOK, LockOK, InTransaction, FastStatement
  <2>4. HasMax(events)' /\ HasMax(txEvents)'
    BY DEF HasMax, TypeOK
  <2> QED BY <2>1, <2>2, <2>3, <2>4
<1>12. ASSUME NEW p \in Proc, FastCreate(p)
      PROVE  IInv'
  <2> USE <1>12 DEF FastCreate, InsertSession, Goto
  <2>1. TypeOK'
    BY DEF ConstantsOK, TypeOK, ArgumentsOK, Row, Label, Operation, InTransaction, FastStatement
  <2>2. ArgumentsOK'
    BY DEF ConstantsOK, TypeOK, ArgumentsOK, Operation, Label, FastStatement
  <2>3. LockOK'
    BY DEF ConstantsOK, TypeOK, ArgumentsOK, LockOK, InTransaction, FastStatement
  <2>4. HasMax(events)' /\ HasMax(txEvents)'
    BY DEF HasMax, TypeOK
  <2> QED BY <2>1, <2>2, <2>3, <2>4
<1>13. ASSUME NEW p \in Proc, FastSelect(p)
      PROVE  IInv'
  <2> USE <1>13 DEF FastSelect, At, Op, Goto
  <2>a. op[p].id \in Id /\ op[p].agg \in Agg /\ op[p].kind = "fast"
        /\ op[p].status \in Status
    BY DEF TypeOK, ArgumentsOK, FastStatement
  <2>b. NextSequence(events, op[p].agg) \in Nat
    BY <2>a, NextSequenceIsNext DEF TypeOK
  <2>1. TypeOK'
    BY <2>a, <2>b DEF TypeOK, Operation, Label, FastStatement
  <2>2. ArgumentsOK'
    BY DEF ConstantsOK, TypeOK, ArgumentsOK, Operation, Label, FastStatement
  <2>3. LockOK'
    BY DEF ConstantsOK, TypeOK, ArgumentsOK, LockOK, InTransaction, FastStatement
  <2>4. HasMax(events)' /\ HasMax(txEvents)'
    BY DEF HasMax, TypeOK
  <2> QED BY <2>1, <2>2, <2>3, <2>4
<1>14. ASSUME NEW p \in Proc, FastInsert(p)
      PROVE  IInv'
  <2> USE <1>14 DEF FastInsert, RowOf, Done, Goto, NoOp, Op
  <2>1. TypeOK'
    BY DEF ConstantsOK, TypeOK, ArgumentsOK, Row, Label, Operation, InTransaction, FastStatement
  <2>2. ArgumentsOK'
    BY DEF ConstantsOK, TypeOK, ArgumentsOK, Operation, Label, FastStatement
  <2>3. LockOK'
    BY DEF ConstantsOK, TypeOK, ArgumentsOK, LockOK, InTransaction, FastStatement
  <2>4. HasMax(events)' /\ HasMax(txEvents)'
    <3>1. RowOf(op[p]) \in Row
      BY DEF TypeOK, ArgumentsOK, FastStatement, Operation, Row
    <3>2. HasMax(events \cup {RowOf(op[p])})
      BY <3>1, InsertKeepsMax DEF TypeOK
    <3> QED BY <3>2 DEF HasMax
  <2> QED BY <2>1, <2>2, <2>3, <2>4
<1>15. ASSUME NEW p \in Proc, FastUpsert(p)
      PROVE  IInv'
  <2> USE <1>15 DEF FastUpsert, UpsertAggregate, Goto
  <2>1. TypeOK'
    BY DEF ConstantsOK, TypeOK, ArgumentsOK, Row, Label, Operation, InTransaction, FastStatement
  <2>2. ArgumentsOK'
    BY DEF ConstantsOK, TypeOK, ArgumentsOK, Operation, Label, FastStatement
  <2>3. LockOK'
    BY DEF ConstantsOK, TypeOK, ArgumentsOK, LockOK, InTransaction, FastStatement
  <2>4. HasMax(events)' /\ HasMax(txEvents)'
    BY DEF HasMax, TypeOK
  <2> QED BY <2>1, <2>2, <2>3, <2>4
<1>16. ASSUME NEW p \in Proc, FastEnd(p)
      PROVE  IInv'
  <2> USE <1>16 DEF FastEnd, UpdateSession, Done, Goto, NoOp, Op
  <2>1. TypeOK'
    BY DEF ConstantsOK, TypeOK, ArgumentsOK, Row, Label, Operation, InTransaction, FastStatement
  <2>2. ArgumentsOK'
    BY DEF ConstantsOK, TypeOK, ArgumentsOK, Operation, Label, FastStatement
  <2>3. LockOK'
    BY DEF ConstantsOK, TypeOK, ArgumentsOK, LockOK, InTransaction, FastStatement
  <2>4. HasMax(events)' /\ HasMax(txEvents)'
    BY DEF HasMax, TypeOK
  <2> QED BY <2>1, <2>2, <2>3, <2>4
<1>17. ASSUME NEW p \in Proc, FastTimeout(p)
      PROVE  IInv'
  <2> USE <1>17 DEF FastTimeout, Done, Goto, NoOp, Op
  <2>1. TypeOK'
    BY DEF ConstantsOK, TypeOK, ArgumentsOK, Row, Label, Operation, InTransaction, FastStatement
  <2>2. ArgumentsOK'
    BY DEF ConstantsOK, TypeOK, ArgumentsOK, Operation, Label, FastStatement
  <2>3. LockOK'
    BY DEF ConstantsOK, TypeOK, ArgumentsOK, LockOK, InTransaction, FastStatement
  <2>4. HasMax(events)' /\ HasMax(txEvents)'
    BY DEF HasMax, TypeOK
  <2> QED BY <2>1, <2>2, <2>3, <2>4
<1>18. ASSUME NEW p \in Proc, Crash(p)
      PROVE  IInv'
  <2> USE <1>18 DEF Crash, Done, Goto, NoOp, Op
  <2>1. TypeOK'
    BY DEF ConstantsOK, TypeOK, ArgumentsOK, Row, Label, Operation, InTransaction, FastStatement
  <2>2. ArgumentsOK'
    BY DEF ConstantsOK, TypeOK, ArgumentsOK, Operation, Label, FastStatement
  <2>3. LockOK'
    BY DEF ConstantsOK, TypeOK, ArgumentsOK, LockOK, InTransaction, FastStatement
  <2>4. HasMax(events)' /\ HasMax(txEvents)'
    BY DEF HasMax, TypeOK
  <2> QED BY <2>1, <2>2, <2>3, <2>4
<1>19. ASSUME NEW p \in Proc, Exit(p)
      PROVE  IInv'
  <2> USE <1>19 DEF Exit, Done, Goto, NoOp, Op
  <2>1. TypeOK'
    BY DEF ConstantsOK, TypeOK, ArgumentsOK, Row, Label, Operation, InTransaction, FastStatement
  <2>2. ArgumentsOK'
    BY DEF ConstantsOK, TypeOK, ArgumentsOK, Operation, Label, FastStatement
  <2>3. LockOK'
    BY DEF ConstantsOK, TypeOK, ArgumentsOK, LockOK, InTransaction, FastStatement
  <2>4. HasMax(events)' /\ HasMax(txEvents)'
    BY DEF HasMax, TypeOK
  <2> QED BY <2>1, <2>2, <2>3, <2>4
<1>20. CASE UNCHANGED vars
  BY <1>20 DEF vars, committed, view, TypeOK, ArgumentsOK, LockOK, HasMax, InTransaction
<1> QED BY <1>1, <1>2, <1>3, <1>4, <1>5, <1>6, <1>7, <1>8, <1>9, <1>10, <1>11, <1>12, <1>13, <1>14, <1>15, <1>16, <1>17, <1>18, <1>19, <1>20 DEF Next, Statement, Start

\* Every variable has its type in every reachable state.
THEOREM TypeCorrect == Spec => []TypeOK
<1>1. Init => IInv
  BY InitIInv, ConstantsOK
<1>2. IInv /\ [Next]_vars => IInv'
  BY NextIInv, ConstantsOK
<1>3. IInv => TypeOK
  BY DEF IInv
<1> QED BY <1>1, <1>2, <1>3, PTL DEF Spec

LEMMA InvariantHolds == Spec => []IInv
<1>1. Init => IInv
  BY InitIInv, ConstantsOK
<1>2. IInv /\ [Next]_vars => IInv'
  BY NextIInv, ConstantsOK
<1> QED BY <1>1, <1>2, PTL DEF Spec

-----------------------------------------------------------------------------
(* The log only grows, and what was returned stays in it *)

\* How a step may change the committed events: a commit publishes the view of
\* the lock holder, a fast-path INSERT adds a row that conflicts with none.
LEMMA EventsStep ==
  ASSUME ConstantsOK, IInv, [Next]_vars
  PROVE  \/ UNCHANGED events
         \/ \E p \in Proc : Commit(p) /\ lock = p /\ events' = txEvents
         \/ \E p \in Proc : /\ FastInsert(p) /\ lock = None
                            /\ RowOf(op[p]) \in Row
                            /\ ~ Conflicts(events, RowOf(op[p]))
                            /\ events' = events \cup {RowOf(op[p])}
<1>1. ASSUME NEW p \in Proc, Commit(p)
      PROVE  lock = p /\ events' = txEvents
  BY <1>1 DEF Commit, IInv, LockOK, InTransaction
<1>2. ASSUME NEW p \in Proc, FastInsert(p)
      PROVE  \/ UNCHANGED events
             \/ /\ lock = None /\ RowOf(op[p]) \in Row
                /\ ~ Conflicts(events, RowOf(op[p]))
                /\ events' = events \cup {RowOf(op[p])}
  <2>1. RowOf(op[p]) \in Row
    BY <1>2 DEF FastInsert, IInv, TypeOK, ArgumentsOK, FastStatement, Operation,
                Row, RowOf
  <2> QED BY <1>2, <2>1 DEF FastInsert
<1>3. ASSUME NEW p \in Proc, Statement(p), ~ Commit(p), ~ FastInsert(p)
      PROVE  UNCHANGED events
  BY <1>3 DEF Statement, committed, BeginImmediate, BeginTimeout, InsertEvent,
              UpsertEvent, WriteSession, FastCreate, FastSelect, FastUpsert,
              FastEnd, FastTimeout, Exit
<1>4. ASSUME NEW p \in Proc, Start(p) \/ Rollback(p) \/ Crash(p)
      PROVE  UNCHANGED events
  BY <1>4 DEF Start, committed, AppendEvent, CreateSession, EndSession, Call,
              FastCrash, Rollback, Crash
<1>5. CASE UNCHANGED vars
  BY <1>5 DEF vars, committed
<1> QED BY <1>1, <1>2, <1>3, <1>4, <1>5 DEF Next

LEMMA EventsGrow ==
  ASSUME ConstantsOK, IInv, [Next]_vars
  PROVE  events \subseteq events'
<1>1. ASSUME NEW p \in Proc, lock = p
      PROVE  events \subseteq txEvents
  BY <1>1 DEF IInv, LockOK, ConstantsOK
<1> QED BY <1>1, EventsStep

\* No committed event is ever removed or rewritten.
THEOREM LogIsAppendOnly == Spec => AppendOnly
<1>1. IInv /\ [Next]_vars => [events \subseteq events']_vars
  BY EventsGrow, ConstantsOK
<1> QED BY <1>1, InvariantHolds, PTL DEF Spec, AppendOnly

\* An event append_event has returned stays committed, whatever crashes and
\* rollbacks follow.
THEOREM AppendsAreDurable == Spec => []AckedIsDurable
<1>1. Init => AckedIsDurable
  BY DEF Init, AckedIsDurable
<1>2. IInv /\ AckedIsDurable /\ [Next]_vars => AckedIsDurable'
  <2> SUFFICES ASSUME IInv, AckedIsDurable, [Next]_vars PROVE AckedIsDurable'
    OBVIOUS
  <2>1. acked \subseteq events'
    BY EventsGrow, ConstantsOK DEF AckedIsDurable
  <2>2. ASSUME NEW p \in Proc, Commit(p)
        PROVE  acked' \subseteq events'
    BY <2>1, <2>2 DEF Commit, Persisted
  <2>3. ASSUME NEW p \in Proc, Statement(p), ~ Commit(p)
        PROVE  acked' = acked
    BY <2>3 DEF Statement, BeginImmediate, BeginTimeout, InsertEvent, UpsertEvent,
                WriteSession, FastCreate, FastSelect, FastInsert, FastUpsert,
                FastEnd, FastTimeout, Exit
  <2>4. ASSUME NEW p \in Proc, Start(p) \/ Rollback(p) \/ Crash(p)
        PROVE  acked' = acked
    BY <2>4 DEF Start, AppendEvent, CreateSession, EndSession, Call, FastCrash,
                Rollback, Crash
  <2>5. CASE UNCHANGED vars
    BY <2>1, <2>5 DEF vars, AckedIsDurable
  <2> QED BY <2>1, <2>2, <2>3, <2>4, <2>5 DEF Next, AckedIsDurable
<1> QED BY <1>1, <1>2, InvariantHolds, PTL DEF Spec

-----------------------------------------------------------------------------
(* No gaps: when no caller chooses a sequence, the fast path's unprotected  *)
(* read of the maximum is made harmless by the unique index.               *)

Contiguous(rows) ==
  \A a \in Agg : SequencesOf(rows, a) = 1..(NextSequence(rows, a) - 1)

\* No two rows agree on an identifier or on a position.
UniqueRows(rows) ==
  \A d, e \in rows :
    d.id = e.id \/ (d.agg = e.agg /\ d.seq = e.seq) => d = e

\* The position a fast-path process read is at most the next free one.
PositionsOK ==
  \A p \in Proc :
    /\ pc[p] \in {"begin", "insert"} => op[p].seq \in {0, 1}
    /\ pc[p] = "fast_insert" =>
         op[p].seq \in 1..NextSequence(events, op[p].agg)

\* A transaction has inserted nothing, or one new row at the end of a log.
OneRow(rows) ==
  \/ rows = events
  \/ \E row \in Row : /\ ~ Conflicts(events, row)
                      /\ row.seq = NextSequence(events, row.agg)
                      /\ rows = events \cup {row}

ViewOK ==
  \A p \in Proc :
    lock = p => /\ OneRow(txEvents)
                /\ pc[p] = "insert" => txEvents = events

LogInv ==
  /\ Contiguous(events)
  /\ UniqueRows(events)
  /\ PositionsOK
  /\ ViewOK

LEMMA NextOfInterval ==
  ASSUME NEW rows, NEW a \in Agg, NEW n \in Nat, SequencesOf(rows, a) = 1..n
  PROVE  NextSequence(rows, a) = n + 1
<1>1. CASE n = 0
  BY <1>1 DEF NextSequence
<1>2. CASE n # 0
  <2> DEFINE S == SequencesOf(rows, a)
             Top == CHOOSE k \in S : \A m \in S : m <= k
  <2>1. n \in S /\ \A m \in S : m <= n
    BY <1>2
  <2>2. Top \in S /\ \A m \in S : m <= Top
    BY <2>1
  <2>3. Top = n
    BY <2>1, <2>2
  <2>4. NextSequence(rows, a) = 1 + Top
    BY <2>1 DEF NextSequence
  <2> HIDE DEF Top
  <2> QED BY <2>3, <2>4
<1> QED BY <1>1, <1>2

\* Adding the next row of a log without gaps leaves it without gaps.
LEMMA AddNextRow ==
  ASSUME NEW rows \in SUBSET Row, HasMax(rows), Contiguous(rows),
         UniqueRows(rows), NEW row \in Row, ~ Conflicts(rows, row),
         row.seq = NextSequence(rows, row.agg)
  PROVE  /\ Contiguous(rows \cup {row})
         /\ UniqueRows(rows \cup {row})
         /\ \A a \in Agg : NextSequence(rows \cup {row}, a) =
              IF a = row.agg THEN NextSequence(rows, a) + 1
              ELSE NextSequence(rows, a)
<1>1. UniqueRows(rows \cup {row})
  BY DEF UniqueRows, Conflicts
<1>2. ASSUME NEW a \in Agg
      PROVE  /\ SequencesOf(rows \cup {row}, a) =
                  1..(NextSequence(rows \cup {row}, a) - 1)
             /\ NextSequence(rows \cup {row}, a) =
                  IF a = row.agg THEN NextSequence(rows, a) + 1
                  ELSE NextSequence(rows, a)
  <2> DEFINE n == NextSequence(rows, a)
  <2>1. n \in Nat \ {0} /\ SequencesOf(rows, a) = 1..(n - 1)
    BY NextSequenceIsNext DEF Contiguous
  <2>2. CASE a = row.agg
    <3>1. SequencesOf(rows \cup {row}, a) = 1..n
      <4>0. row.seq = n
        BY <2>2
      <4> HIDE DEF n
      <4>1. SequencesOf(rows \cup {row}, a) = SequencesOf(rows, a) \cup {n}
        BY <2>2, <4>0, SequencesOfInsert
      <4>2. 1..(n - 1) \cup {n} = 1..n
        BY <2>1
      <4> QED BY <2>1, <4>1, <4>2
    <3>2. NextSequence(rows \cup {row}, a) = n + 1
      BY <2>1, <3>1, NextOfInterval
    <3> QED BY <2>1, <2>2, <3>1, <3>2
  <2>3. CASE a # row.agg
    <3>1. SequencesOf(rows \cup {row}, a) = SequencesOf(rows, a)
      BY <2>3, SequencesOfInsert
    <3>2. NextSequence(rows \cup {row}, a) = n
      BY <2>1, <3>1, NextOfInterval, n - 1 \in Nat
    <3> QED BY <2>1, <2>3, <3>1, <3>2
  <2> QED BY <2>2, <2>3
<1> QED BY <1>1, <1>2 DEF Contiguous

\* Every step leaves the committed events alone or adds the next row of one log.
AddsOneRow ==
  \/ UNCHANGED events
  \/ \E row \in Row : /\ ~ Conflicts(events, row)
                      /\ row.seq = NextSequence(events, row.agg)
                      /\ events' = events \cup {row}

LEMMA StepAddsOneRow ==
  ASSUME ConstantsOK, IInv, LogInv, [Next]_vars
  PROVE  AddsOneRow
<1>1. ASSUME NEW p \in Proc, lock = p, events' = txEvents
      PROVE  AddsOneRow
  BY <1>1 DEF LogInv, ViewOK, OneRow, AddsOneRow
<1>2. ASSUME NEW p \in Proc, FastInsert(p), RowOf(op[p]) \in Row,
             ~ Conflicts(events, RowOf(op[p])),
             events' = events \cup {RowOf(op[p])}
      PROVE  AddsOneRow
  <2> DEFINE a == op[p].agg
             n == NextSequence(events, a)
  <2>1. a \in Agg /\ op[p].seq \in 1..n
    BY <1>2 DEF FastInsert, IInv, TypeOK, ArgumentsOK, FastStatement, Operation,
                LogInv, PositionsOK
  <2>2. n \in Nat \ {0} /\ SequencesOf(events, a) = 1..(n - 1)
    BY <2>1, NextSequenceIsNext DEF IInv, TypeOK, LogInv, Contiguous
  <2>3. op[p].seq \notin SequencesOf(events, a)
    BY <1>2 DEF Conflicts, RowOf, SequencesOf
  <2>4. op[p].seq = n
    BY <2>1, <2>2, <2>3
  <2> QED BY <1>2, <2>4 DEF AddsOneRow, RowOf
<1> QED BY <1>1, <1>2, EventsStep DEF AddsOneRow

LEMMA LogSafeStep ==
  ASSUME ConstantsOK, IInv, LogInv, [Next]_vars
  PROVE  /\ Contiguous(events')
         /\ UniqueRows(events')
         /\ \A a \in Agg : NextSequence(events, a) <= NextSequence(events', a)
<1>1. \A a \in Agg : NextSequence(events, a) \in Nat
  BY NextSequenceIsNext DEF IInv, TypeOK
<1>2. CASE UNCHANGED events
  BY <1>1, <1>2 DEF LogInv
<1>3. ASSUME NEW row \in Row, ~ Conflicts(events, row),
             row.seq = NextSequence(events, row.agg),
             events' = events \cup {row}
      PROVE  /\ Contiguous(events')
             /\ UniqueRows(events')
             /\ \A a \in Agg : NextSequence(events, a) <= NextSequence(events', a)
  <2>1. /\ Contiguous(events \cup {row})
        /\ UniqueRows(events \cup {row})
        /\ \A a \in Agg : NextSequence(events \cup {row}, a) =
             IF a = row.agg THEN NextSequence(events, a) + 1
             ELSE NextSequence(events, a)
    BY <1>3, AddNextRow DEF IInv, TypeOK, LogInv
  <2> DEFINE new == events \cup {row}
  <2>2. events' = new
    BY <1>3
  <2>3. Contiguous(new) /\ UniqueRows(new)
    BY <2>1
  <2>4. \A a \in Agg : NextSequence(events, a) <= NextSequence(new, a)
    BY <1>1, <2>1, SMTT(30)
  <2> HIDE DEF new
  <2> QED BY <2>2, <2>3, <2>4
<1> QED BY <1>2, <1>3, StepAddsOneRow DEF AddsOneRow

LEMMA ViewStep ==
  ASSUME ConstantsOK, CallerSeq \subseteq {1}, IInv, LogInv, [Next]_vars
  PROVE  ViewOK'
<1> USE ConstantsOK DEF IInv
<1>1. ASSUME NEW p \in Proc, BeginImmediate(p)
      PROVE  ViewOK'
  BY <1>1 DEF BeginImmediate, ViewOK, OneRow, committed
<1>2. ASSUME NEW p \in Proc, InsertEvent(p)
      PROVE  ViewOK'
  <2> DEFINE a == op[p].agg
             next == NextSequence(events, a)
             s == IF op[p].seq # 0 THEN op[p].seq ELSE next
             row == RowOf(At(op[p], s))
  <2>1. lock = p /\ lock' = p /\ events' = events /\ txEvents = events
    BY <1>2 DEF InsertEvent, LockOK, InTransaction, LogInv, ViewOK, committed
  <2>2. pc' = [pc EXCEPT ![p] = "upsert"] /\ txEvents' = InsertOrIgnore(events, row)
    BY <1>2, <2>1 DEF InsertEvent, Goto
  <2>3. op[p].id \in Id /\ a \in Agg /\ op[p].seq \in {0, 1}
    BY <1>2 DEF InsertEvent, ArgumentsOK, LogInv, PositionsOK
  <2>4. next \in Nat \ {0} /\ SequencesOf(events, a) = 1..(next - 1)
    BY <2>3, NextSequenceIsNext DEF TypeOK, LogInv, Contiguous
  <2>5. s \in Nat /\ (s = next \/ s \in SequencesOf(events, a))
    BY <2>3, <2>4
  <2>6. row \in Row /\ row.agg = a /\ row.seq = s
    BY <2>3, <2>5 DEF RowOf, At, Op, Row
  <2> HIDE DEF row, s, a
  <2>9. Conflicts(events, row) \/ row.seq = NextSequence(events, row.agg)
    BY <2>5, <2>6 DEF Conflicts, SequencesOf
  <2>10. \/ txEvents' = events
         \/ /\ ~ Conflicts(events, row) /\ row.seq = NextSequence(events, row.agg)
            /\ txEvents' = events \cup {row}
    BY <2>2, <2>9 DEF InsertOrIgnore
  <2>7. OneRow(txEvents)'
    <3>1. CASE txEvents' = events
      BY <2>1, <3>1 DEF OneRow
    <3>2. CASE /\ ~ Conflicts(events, row) /\ row.seq = NextSequence(events, row.agg)
               /\ txEvents' = events \cup {row}
      BY <2>1, <2>6, <3>2 DEF OneRow
    <3> QED BY <2>10, <3>1, <3>2
  <2>8. pc'[p] # "insert"
    BY <2>2 DEF TypeOK
  <2> QED BY <2>1, <2>7, <2>8 DEF ViewOK
<1>3. ASSUME NEW p \in Proc, UpsertEvent(p) \/ WriteSession(p)
      PROVE  ViewOK'
  BY <1>3 DEF UpsertEvent, WriteSession, Goto, TypeOK, LogInv, ViewOK, OneRow,
              committed
<1>4. ASSUME NEW p \in Proc, Commit(p) \/ Rollback(p)
      PROVE  ViewOK'
  BY <1>4 DEF Commit, Rollback, ViewOK, ConstantsOK
<1>5. ASSUME NEW p \in Proc,
             FastCreate(p) \/ FastInsert(p) \/ FastUpsert(p) \/ FastEnd(p)
      PROVE  ViewOK'
  BY <1>5 DEF FastCreate, FastInsert, FastUpsert, FastEnd, ViewOK, ConstantsOK
<1>6. ASSUME NEW p \in Proc,
             BeginTimeout(p) \/ FastSelect(p) \/ FastTimeout(p) \/ Exit(p)
               \/ Start(p)
      PROVE  ViewOK'
  <2>1. UNCHANGED <<events, txEvents, lock>>
    BY <1>6 DEF BeginTimeout, FastSelect, FastTimeout, Exit, Start, AppendEvent,
                CreateSession, EndSession, Call, FastCrash, committed, view
  <2>2. \A q \in Proc : pc'[q] = "insert" => pc[q] = "insert"
    BY <1>6 DEF BeginTimeout, FastSelect, FastTimeout, Exit, Start, AppendEvent,
                CreateSession, EndSession, Call, FastCrash, Goto, Done, TypeOK
  <2> QED BY <2>1, <2>2 DEF LogInv, ViewOK, OneRow
<1>7. ASSUME NEW p \in Proc, Crash(p)
      PROVE  ViewOK'
  <2>1. UNCHANGED <<events, txEvents>> /\ (lock' = None \/ lock' = lock)
    BY <1>7 DEF Crash, committed, view
  <2>2. \A q \in Proc : pc'[q] = "insert" => pc[q] = "insert"
    BY <1>7 DEF Crash, Goto, Done, TypeOK
  <2> QED BY <2>1, <2>2 DEF LogInv, ViewOK, OneRow, ConstantsOK
<1>8. CASE UNCHANGED vars
  BY <1>8 DEF vars, committed, view, LogInv, ViewOK, OneRow
<1> QED BY <1>1, <1>2, <1>3, <1>4, <1>5, <1>6, <1>7, <1>8 DEF Next, Statement

LEMMA PositionsStep ==
  ASSUME ConstantsOK, CallerSeq \subseteq {1}, IInv, LogInv, [Next]_vars
  PROVE  PositionsOK'
<1> USE ConstantsOK DEF IInv
<1>1. \A a \in Agg : /\ NextSequence(events, a) \in Nat \ {0}
                     /\ NextSequence(events', a) \in Nat
                     /\ NextSequence(events, a) <= NextSequence(events', a)
  <2>1. IInv'
    BY NextIInv
  <2>2. HasMax(events') /\ events' \in SUBSET Row
    BY <2>1 DEF HasMax, TypeOK, Row, Id
  <2> QED BY <2>2, LogSafeStep, NextSequenceIsNext DEF TypeOK
<1>2. ASSUME NEW q \in Proc, op'[q] = op[q], pc'[q] = pc[q]
      PROVE  /\ pc'[q] \in {"begin", "insert"} => op'[q].seq \in {0, 1}
             /\ pc'[q] = "fast_insert" =>
                  op'[q].seq \in 1..NextSequence(events', op'[q].agg)
  <2>1. pc[q] = "fast_insert" => op[q].agg \in Agg /\ op[q].seq \in Nat
    BY DEF TypeOK, ArgumentsOK, FastStatement, Operation
  <2> QED BY <1>1, <1>2, <2>1 DEF LogInv, PositionsOK
<1>3. ASSUME NEW p \in Proc,
             \A q \in Proc \ {p} : op'[q] = op[q] /\ pc'[q] = pc[q],
             pc'[p] \in {"begin", "insert"} => op'[p].seq \in {0, 1},
             pc'[p] = "fast_insert" =>
               op'[p].seq \in 1..NextSequence(events', op'[p].agg)
      PROVE  PositionsOK'
  BY <1>2, <1>3 DEF PositionsOK
<1>4. ASSUME NEW p \in Proc, FastSelect(p)
      PROVE  PositionsOK'
  <2> DEFINE n == NextSequence(events, op[p].agg)
  <2>1. op[p].agg \in Agg
    BY <1>4 DEF FastSelect, ArgumentsOK, FastStatement
  <2>2. op'[p] = At(op[p], n) /\ pc'[p] = "fast_insert" /\ events' = events
    BY <1>4 DEF FastSelect, Goto, TypeOK, committed
  <2>3. op'[p].agg = op[p].agg /\ op'[p].seq = n
    BY <2>2 DEF At, Op
  <2>4. n \in Nat \ {0}
    BY <1>1, <2>1
  <2>5. NextSequence(events', op'[p].agg) = n
    BY <2>2, <2>3
  <2>6. \A q \in Proc \ {p} : op'[q] = op[q] /\ pc'[q] = pc[q]
    BY <1>4 DEF FastSelect, Goto, TypeOK
  <2> HIDE DEF n
  <2> QED BY <1>3, <2>2, <2>3, <2>4, <2>5, <2>6
<1>5. ASSUME NEW p \in Proc, Start(p)
      PROVE  PositionsOK'
  <2>1. /\ \A q \in Proc \ {p} : op'[q] = op[q] /\ pc'[q] = pc[q]
        /\ pc'[p] \in {"begin", "fast_create", "fast_select"}
        /\ op'[p].seq \in {0, 1}
    BY <1>5 DEF Start, AppendEvent, CreateSession, EndSession, Call, FastCrash, Op,
                Goto, TypeOK
  <2> QED BY <1>3, <2>1
<1>6. ASSUME NEW p \in Proc, BeginImmediate(p)
      PROVE  PositionsOK'
  <2>1. op' = op /\ op[p].seq \in {0, 1}
    BY <1>6 DEF BeginImmediate, LogInv, PositionsOK
  <2>2. /\ \A q \in Proc \ {p} : pc'[q] = pc[q]
        /\ pc'[p] \in {"insert", "create", "end"}
    BY <1>6 DEF BeginImmediate, Goto, TypeOK, ArgumentsOK
  <2> QED BY <1>3, <2>1, <2>2
<1>7. ASSUME NEW p \in Proc,
             \/ InsertEvent(p) \/ UpsertEvent(p) \/ WriteSession(p) \/ FastCreate(p)
             \/ FastUpsert(p) \/ FastInsert(p)
      PROVE  PositionsOK'
  <2>1. /\ \A q \in Proc \ {p} : op'[q] = op[q] /\ pc'[q] = pc[q]
        /\ pc'[p] \in {"upsert", "commit", "fast_select", "fast_end",
                       "fast_upsert", "idle"}
    BY <1>7 DEF InsertEvent, UpsertEvent, WriteSession, FastCreate, FastUpsert,
                FastInsert, Done, Goto, TypeOK
  <2> QED BY <1>3, <2>1
<1>8. ASSUME NEW p \in Proc,
             \/ Commit(p) \/ Rollback(p) \/ BeginTimeout(p) \/ FastTimeout(p)
             \/ FastEnd(p) \/ Exit(p) \/ Crash(p)
      PROVE  PositionsOK'
  <2>1. /\ \A q \in Proc \ {p} : op'[q] = op[q] /\ pc'[q] = pc[q]
        /\ pc'[p] \in {"idle", "raised"}
    BY <1>8 DEF Commit, Rollback, BeginTimeout, FastTimeout, FastEnd, Exit, Crash,
                Done, Goto, TypeOK
  <2> QED BY <1>3, <2>1
<1>9. CASE UNCHANGED vars
  BY <1>2, <1>9 DEF vars, PositionsOK
<1> QED BY <1>4, <1>5, <1>6, <1>7, <1>8, <1>9 DEF Next, Statement

LEMMA LogInvHolds == ASSUME CallerSeq \subseteq {1} PROVE Spec => []LogInv
<1>1. Init => LogInv
  <2> SUFFICES ASSUME Init PROVE LogInv
    OBVIOUS
  <2>1. \A a \in Agg : SequencesOf(events, a) = {} /\ NextSequence(events, a) = 1
    BY DEF Init, SequencesOf, NextSequence
  <2>2. Contiguous(events)
    BY <2>1 DEF Contiguous
  <2> QED BY <2>2, ConstantsOK
          DEF ConstantsOK, Init, LogInv, UniqueRows, PositionsOK, ViewOK, NoOp, Op
<1>2. IInv /\ LogInv /\ [Next]_vars => LogInv'
  <2> SUFFICES ASSUME IInv, LogInv, [Next]_vars PROVE LogInv'
    OBVIOUS
  <2>1. PositionsOK' /\ ViewOK'
    BY PositionsStep, ViewStep, ConstantsOK
  <2>2. Contiguous(events)' /\ UniqueRows(events)'
    BY LogSafeStep, ConstantsOK DEF Contiguous, UniqueRows
  <2> QED BY <2>1, <2>2 DEF LogInv
<1> QED BY <1>1, <1>2, InvariantHolds, PTL DEF Spec

\* The events of every aggregate are numbered 1..n without a gap.
THEOREM LogIsContiguous ==
  ASSUME CallerSeq \subseteq {1} PROVE Spec => []ContiguousLog
<1>1. LogInv => ContiguousLog
  BY DEF LogInv, Contiguous, ContiguousLog
<1> QED BY <1>1, LogInvHolds, PTL

-----------------------------------------------------------------------------
(* Retries and the aggregate index, whatever sequences callers choose *)

UniqueInv == UniqueRows(events) /\ UniqueRows(txEvents)

LEMMA InsertKeepsUnique ==
  ASSUME NEW rows, NEW row, UniqueRows(rows)
  PROVE  UniqueRows(InsertOrIgnore(rows, row))
BY DEF UniqueRows, InsertOrIgnore, Conflicts

\* An append repeated with the same identifier writes its event only once.
THEOREM RetriesWriteOnce == Spec => []RetryWritesOnce
<1>1. Init => UniqueInv
  BY DEF Init, UniqueInv, UniqueRows
<1>2. IInv /\ UniqueInv /\ [Next]_vars => UniqueInv'
  <2> SUFFICES ASSUME IInv, UniqueInv, [Next]_vars PROVE UniqueInv'
    OBVIOUS
  <2>1. UniqueRows(events)'
    BY EventsStep, ConstantsOK DEF UniqueInv, UniqueRows, Conflicts
  <2>2. UniqueRows(txEvents)'
    <3>1. ASSUME NEW p \in Proc, InsertEvent(p)
          PROVE  UniqueRows(txEvents)'
      <4>1. PICK row : txEvents' = InsertOrIgnore(txEvents, row)
        BY <3>1 DEF InsertEvent
      <4>2. UniqueRows(InsertOrIgnore(txEvents, row))
        BY InsertKeepsUnique DEF UniqueInv
      <4> QED BY <4>1, <4>2 DEF UniqueRows
    <3>2. ASSUME NEW p \in Proc, Statement(p), ~ InsertEvent(p)
          PROVE  txEvents' = txEvents \/ txEvents' = events
      BY <3>2 DEF Statement, view, BeginImmediate, BeginTimeout, UpsertEvent,
                  WriteSession, Commit, FastCreate, FastSelect, FastInsert,
                  FastUpsert, FastEnd, FastTimeout, Exit
    <3>3. ASSUME NEW p \in Proc, Start(p) \/ Rollback(p) \/ Crash(p)
          PROVE  txEvents' = txEvents
      BY <3>3 DEF Start, view, AppendEvent, CreateSession, EndSession, Call,
                  FastCrash, Rollback, Crash
    <3>4. CASE UNCHANGED vars
      BY <3>4 DEF vars, view, UniqueInv, UniqueRows
    <3> QED BY <3>1, <3>2, <3>3, <3>4 DEF Next, UniqueInv, UniqueRows
  <2> QED BY <2>1, <2>2 DEF UniqueInv
<1>3. UniqueInv => RetryWritesOnce
  BY DEF UniqueInv, UniqueRows, RetryWritesOnce
<1> QED BY <1>1, <1>2, <1>3, InvariantHolds, PTL DEF Spec

\* The view of a transaction is never behind the committed index.
IndexInv == lock # None => \A a \in Agg : last[a] <= txLast[a]

LEMMA UpsertRaises ==
  ASSUME NEW index \in [Agg -> Nat], NEW b \in Agg, NEW n \in Nat
  PROVE  \A a \in Agg : index[a] <= UpsertAggregate(index, b, n)[a]
BY DEF UpsertAggregate

\* aggregates.last_sequence never decreases.
THEOREM IndexNeverDecreases == Spec => IndexMonotone
<1>1. Init => IndexInv
  BY DEF Init, IndexInv
<1>2. IInv /\ IndexInv /\ [Next]_vars =>
        IndexInv' /\ \A a \in Agg : last[a] <= last'[a]
  <2> SUFFICES ASSUME IInv, IndexInv, [Next]_vars
               PROVE  IndexInv' /\ \A a \in Agg : last[a] <= last'[a]
    OBVIOUS
  <2> USE ConstantsOK DEF IInv
  <2>0. last \in [Agg -> Nat] /\ txLast \in [Agg -> Nat]
    BY DEF TypeOK
  <2>1. ASSUME NEW p \in Proc, BeginImmediate(p)
        PROVE  IndexInv' /\ \A a \in Agg : last[a] <= last'[a]
    BY <2>0, <2>1 DEF BeginImmediate, IndexInv, committed
  <2>2. ASSUME NEW p \in Proc, UpsertEvent(p)
        PROVE  IndexInv' /\ \A a \in Agg : last[a] <= last'[a]
    <3>1. lock = p /\ lock' = lock /\ last' = last
          /\ txLast' = UpsertAggregate(txLast, op[p].agg, op[p].seq)
      BY <2>2 DEF UpsertEvent, LockOK, InTransaction, committed
    <3>2. op[p].agg \in Agg /\ op[p].seq \in Nat
      BY <2>2 DEF UpsertEvent, TypeOK, ArgumentsOK, Operation
    <3>3. \A a \in Agg : txLast[a] <= txLast'[a] /\ txLast'[a] \in Nat
      BY <2>0, <3>1, <3>2, UpsertRaises DEF UpsertAggregate
    <3> QED BY <2>0, <3>1, <3>3 DEF IndexInv, ConstantsOK
  <2>3. ASSUME NEW p \in Proc, Commit(p)
        PROVE  IndexInv' /\ \A a \in Agg : last[a] <= last'[a]
    BY <2>0, <2>3 DEF Commit, IndexInv, LockOK, InTransaction, ConstantsOK
  <2>4. ASSUME NEW p \in Proc, FastUpsert(p)
        PROVE  IndexInv' /\ \A a \in Agg : last[a] <= last'[a]
    <3>1. op[p].agg \in Agg /\ op[p].seq \in Nat
      BY <2>4 DEF FastUpsert, TypeOK, ArgumentsOK, Operation, FastStatement
    <3> QED BY <2>0, <2>4, <3>1, UpsertRaises DEF FastUpsert, IndexInv
  <2>5. ASSUME NEW p \in Proc, Statement(p), ~ BeginImmediate(p),
               ~ UpsertEvent(p), ~ Commit(p), ~ FastUpsert(p)
        PROVE  UNCHANGED <<last, txLast, lock>>
    BY <2>5 DEF Statement, committed, view, BeginTimeout, InsertEvent,
                WriteSession, FastCreate, FastSelect, FastInsert, FastEnd,
                FastTimeout, Exit
  <2>6. ASSUME NEW p \in Proc, Start(p) \/ Rollback(p) \/ Crash(p)
        PROVE  UNCHANGED <<last, txLast>> /\ (lock' = None \/ lock' = lock)
    BY <2>6 DEF Start, committed, view, AppendEvent, CreateSession, EndSession,
                Call, FastCrash, Rollback, Crash
  <2>7. CASE UNCHANGED vars
    BY <2>0, <2>7 DEF vars, committed, view, IndexInv
  <2>8. CASE UNCHANGED <<last, txLast>> /\ (lock' = None \/ lock' = lock)
    BY <2>0, <2>8 DEF IndexInv
  <2> QED BY <2>1, <2>2, <2>3, <2>4, <2>5, <2>6, <2>7, <2>8 DEF Next
<1>3. IInv /\ IndexInv /\ [Next]_vars =>
        [\A a \in Agg : last[a] <= last'[a]]_vars
  BY <1>2
<1> QED BY <1>1, <1>2, <1>3, InvariantHolds, PTL DEF Spec, IndexMonotone

-----------------------------------------------------------------------------
(* The next append repairs the index.  What a fast path has not written      *)
(* leaves the index behind the log, and an append that finds its identifier  *)
(* in use leaves it one ahead; neither outlives an append that writes.       *)

\* The transaction has added the row of its operation, at the end of its log.
AddsItsRow(p) ==
  /\ op[p].seq = NextSequence(events, op[p].agg)
  /\ ~ Conflicts(events, RowOf(op[p]))
  /\ txEvents = events \cup {RowOf(op[p])}

\* Where its operation belongs, and what it has inserted so far.
Inserted(p) ==
  /\ op[p].seq \in 1..NextSequence(events, op[p].agg)
  /\ txEvents = events \/ AddsItsRow(p)

\* How the view of a transaction differs from the committed tables.
TxOK(p) ==
  /\ pc[p] \in {"insert", "create", "end"} => txEvents = events /\ txLast = last
  /\ pc[p] = "upsert" => Inserted(p) /\ txLast = last
  /\ pc[p] = "commit" =>
       IF op[p].kind = "append"
       THEN Inserted(p) /\ txLast = UpsertAggregate(last, op[p].agg, op[p].seq)
       ELSE txEvents = events /\ txLast = last

\* The index is at most one ahead of the log.
NotFarAhead == \A a \in Agg : last[a] <= NextSequence(events, a)

FastPathOK ==
  \A p \in Proc :
    pc[p] = "fast_upsert" => op[p].seq <= NextSequence(events, op[p].agg)

RepairInv == NotFarAhead /\ FastPathOK /\ \A p \in Proc : TxOK(p)

\* Nobody touches the tables while a process is inside its transaction.
LEMMA TablesAreHeld ==
  ASSUME ConstantsOK, IInv, [Next]_vars, NEW q \in Proc,
         pc[q] \in InTransaction, pc'[q] = pc[q]
  PROVE  UNCHANGED <<events, last, txEvents, txLast>> /\ op'[q] = op[q]
<1>1. lock = q /\ q # None
  BY DEF IInv, LockOK, ConstantsOK
<1>2. pc \in [Proc -> Label] /\ op \in [Proc -> Operation]
  BY DEF IInv, TypeOK
<1>3. ASSUME NEW p \in Proc, BeginImmediate(p) \/ FastInsert(p) \/ FastUpsert(p)
                               \/ FastCreate(p) \/ FastEnd(p)
      PROVE  FALSE
  BY <1>1, <1>3 DEF BeginImmediate, FastInsert, FastUpsert, FastCreate, FastEnd
<1>4. ASSUME NEW p \in Proc,
             InsertEvent(p) \/ UpsertEvent(p) \/ WriteSession(p) \/ Commit(p) \/ Rollback(p)
      PROVE  FALSE
  <2>1. p = q
    BY <1>1, <1>4 DEF InsertEvent, UpsertEvent, WriteSession, Commit, Rollback, IInv,
                      LockOK, InTransaction
  <2> QED BY <1>2, <1>4, <2>1 DEF InsertEvent, UpsertEvent, WriteSession, Commit,
                                  Rollback, Goto, Done, InTransaction
<1>5. ASSUME NEW p \in Proc, BeginTimeout(p) \/ FastSelect(p) \/ FastTimeout(p)
                               \/ Exit(p) \/ Start(p) \/ Crash(p)
      PROVE  UNCHANGED <<events, last, txEvents, txLast>> /\ op'[q] = op[q]
  <2>1. UNCHANGED <<events, last, txEvents, txLast>>
    BY <1>5 DEF BeginTimeout, FastSelect, FastTimeout, Exit, Start, AppendEvent,
                CreateSession, EndSession, Call, FastCrash, Crash, committed, view
  <2>2. p # q
    BY <1>2, <1>5 DEF BeginTimeout, FastSelect, FastTimeout, Exit, Start, AppendEvent,
                CreateSession, EndSession, Call, FastCrash, Crash, Goto, Done,
                InTransaction, FastStatement
  <2>3. op'[q] = op[q]
    BY <1>2, <1>5, <2>2 DEF BeginTimeout, FastSelect, FastTimeout, Exit, Start,
                AppendEvent, CreateSession, EndSession, Call, FastCrash, Crash, Done
  <2> QED BY <2>1, <2>3
<1>6. CASE UNCHANGED vars
  BY <1>6 DEF vars, committed, view
<1> QED BY <1>3, <1>4, <1>5, <1>6 DEF Next, Statement

LEMMA TxStep ==
  ASSUME ConstantsOK, IInv, LogInv, RepairInv, [Next]_vars, NEW q \in Proc
  PROVE  TxOK(q)'
<1>1. pc \in [Proc -> Label] /\ op \in [Proc -> Operation]
  BY DEF IInv, TypeOK
<1>2. CASE pc'[q] \notin InTransaction
  BY <1>2 DEF TxOK, InTransaction
<1>3. CASE pc[q] \in InTransaction /\ pc'[q] = pc[q]
  <2>1. UNCHANGED <<events, last, txEvents, txLast>> /\ op'[q] = op[q]
    BY <1>3, TablesAreHeld
  <2>2. TxOK(q)
    BY DEF RepairInv
  <2> QED BY <1>3, <2>1, <2>2 DEF TxOK, Inserted, AddsItsRow
<1>4. ASSUME BeginImmediate(q)
      PROVE  TxOK(q)'
  <2>1. pc'[q] \in {"insert", "create", "end"}
    BY <1>1, <1>4 DEF BeginImmediate, Goto, IInv, ArgumentsOK
  <2>2. txEvents' = events' /\ txLast' = last'
    BY <1>4 DEF BeginImmediate, committed
  <2> QED BY <2>1, <2>2 DEF TxOK
<1>5. ASSUME InsertEvent(q)
      PROVE  TxOK(q)'
  <2> DEFINE a == op[q].agg
             next == NextSequence(events, a)
             s == IF op[q].seq # 0 THEN op[q].seq ELSE NextSequence(txEvents, a)
  <2>1. txEvents = events /\ txLast = last
    BY <1>5 DEF InsertEvent, RepairInv, TxOK
  <2>2. a \in Agg /\ op[q].id \in Id /\ op[q].seq \in {0, 1}
    BY <1>5 DEF InsertEvent, IInv, ArgumentsOK, LogInv, PositionsOK
  <2>3. next \in Nat \ {0} /\ SequencesOf(events, a) = 1..(next - 1)
    BY <2>2, NextSequenceIsNext DEF IInv, TypeOK, LogInv, Contiguous
  <2>4. s \in 1..next /\ (s = next \/ s \in SequencesOf(events, a))
    BY <2>1, <2>2, <2>3
  <2>5. /\ op'[q] = At(op[q], s) /\ pc'[q] = "upsert"
        /\ txEvents' = InsertOrIgnore(events, RowOf(At(op[q], s)))
        /\ UNCHANGED <<events, last, txLast>>
    BY <1>1, <1>5, <2>1 DEF InsertEvent, Goto, committed
  <2>6. op'[q].agg = a /\ op'[q].seq = s /\ RowOf(op'[q]).seq = s /\ RowOf(op'[q]).agg = a
    BY <2>5 DEF At, Op, RowOf
  <2> HIDE DEF s
  <2>7. s \in 1..next /\ (Conflicts(events, RowOf(op'[q])) \/ s = next)
    BY <2>4, <2>6 DEF Conflicts, SequencesOf
  <2>8. txEvents' = events \/ (s = next /\ ~ Conflicts(events, RowOf(op'[q]))
                                 /\ txEvents' = events \cup {RowOf(op'[q])})
    BY <2>5, <2>7 DEF InsertOrIgnore
  <2>9. Inserted(q)'
    <3>1. (op[q].seq \in 1..NextSequence(events, op[q].agg))'
      BY <2>5, <2>6, <2>7
    <3>2. CASE txEvents' = events
      BY <2>5, <3>1, <3>2 DEF Inserted
    <3>3. CASE s = next /\ ~ Conflicts(events, RowOf(op'[q]))
                 /\ txEvents' = events \cup {RowOf(op'[q])}
      BY <2>5, <2>6, <3>1, <3>3 DEF Inserted, AddsItsRow
    <3> QED BY <2>8, <3>2, <3>3
  <2> QED BY <2>1, <2>5, <2>9 DEF TxOK
<1>6. ASSUME UpsertEvent(q)
      PROVE  TxOK(q)'
  <2>1. Inserted(q) /\ txLast = last /\ op[q].kind = "append"
    BY <1>6 DEF UpsertEvent, RepairInv, TxOK, IInv, ArgumentsOK
  <2>2. /\ pc'[q] = "commit" /\ op' = op /\ UNCHANGED <<events, last, txEvents>>
        /\ txLast' = UpsertAggregate(last, op[q].agg, op[q].seq)
    BY <1>1, <1>6, <2>1 DEF UpsertEvent, Goto, committed
  <2> QED BY <2>1, <2>2 DEF TxOK, Inserted, AddsItsRow
<1>7. ASSUME WriteSession(q)
      PROVE  TxOK(q)'
  <2>1. txEvents = events /\ txLast = last /\ op[q].kind # "append"
    BY <1>7 DEF WriteSession, RepairInv, TxOK, IInv, ArgumentsOK
  <2>2. pc'[q] = "commit" /\ op' = op /\ UNCHANGED <<events, last, txEvents, txLast>>
    BY <1>1, <1>7 DEF WriteSession, Goto, committed
  <2> QED BY <2>1, <2>2 DEF TxOK
<1>8. ASSUME pc'[q] # pc[q], pc'[q] \in InTransaction
      PROVE  BeginImmediate(q) \/ InsertEvent(q) \/ UpsertEvent(q) \/ WriteSession(q)
  <2>1. ASSUME NEW p \in Proc, Commit(p) \/ Rollback(p) \/ BeginTimeout(p) \/ FastCreate(p)
                 \/ FastSelect(p) \/ FastInsert(p) \/ FastUpsert(p) \/ FastEnd(p)
                 \/ FastTimeout(p) \/ Exit(p) \/ Start(p) \/ Crash(p)
        PROVE  FALSE
    BY <1>1, <1>8, <2>1 DEF Commit, Rollback, BeginTimeout, FastCreate, FastSelect,
         FastInsert, FastUpsert, FastEnd, FastTimeout, Exit, Start, Crash, AppendEvent,
         CreateSession, EndSession, Call, FastCrash, Goto, Done, InTransaction
  <2>2. ASSUME NEW p \in Proc,
               BeginImmediate(p) \/ InsertEvent(p) \/ UpsertEvent(p) \/ WriteSession(p)
        PROVE  p = q
    BY <1>1, <1>8, <2>2 DEF BeginImmediate, InsertEvent, UpsertEvent, WriteSession, Goto
  <2>3. ~ UNCHANGED vars
    BY <1>8 DEF vars
  <2> QED BY <2>1, <2>2, <2>3 DEF Next, Statement
<1> QED BY <1>2, <1>3, <1>4, <1>5, <1>6, <1>7, <1>8

\* Which steps change the index, and how.
LEMMA IndexStep ==
  ASSUME ConstantsOK, IInv, RepairInv, [Next]_vars
  PROVE  \/ last' = last
         \/ \E p \in Proc : /\ op[p].agg \in Agg /\ op[p].seq \in Nat
                            /\ op[p].seq <= NextSequence(events, op[p].agg)
                            /\ last' = UpsertAggregate(last, op[p].agg, op[p].seq)
<1> DEFINE Upserts(p) ==
             /\ op[p].agg \in Agg /\ op[p].seq \in Nat
             /\ op[p].seq <= NextSequence(events, op[p].agg)
             /\ last' = UpsertAggregate(last, op[p].agg, op[p].seq)
<1>1. ASSUME NEW p \in Proc, Commit(p)
      PROVE  last' = last \/ Upserts(p)
  <2>1. TxOK(p) /\ pc[p] = "commit" /\ last' = txLast
    BY <1>1 DEF Commit, RepairInv
  <2>2. CASE op[p].kind # "append"
    BY <2>1, <2>2 DEF TxOK
  <2>3. CASE op[p].kind = "append"
    <3>1. op[p].agg \in Agg /\ NextSequence(events, op[p].agg) \in Nat
      BY <2>3, NextSequenceIsNext DEF IInv, TypeOK, ArgumentsOK
    <3>2. op[p].seq \in 1..NextSequence(events, op[p].agg)
      BY <2>1, <2>3 DEF TxOK, Inserted
    <3> QED BY <2>1, <2>3, <3>1, <3>2 DEF TxOK
  <2> QED BY <2>2, <2>3
<1>2. ASSUME NEW p \in Proc, FastUpsert(p)
      PROVE  Upserts(p)
  <2>1. op[p].agg \in Agg /\ op[p].seq \in Nat
    BY <1>2 DEF FastUpsert, IInv, TypeOK, ArgumentsOK, FastStatement, Operation
  <2> QED BY <1>2, <2>1 DEF FastUpsert, RepairInv, FastPathOK
<1>3. ASSUME NEW p \in Proc, Statement(p), ~ Commit(p), ~ FastUpsert(p)
      PROVE  last' = last
  BY <1>3 DEF Statement, committed, BeginImmediate, BeginTimeout, InsertEvent,
              UpsertEvent, WriteSession, FastCreate, FastSelect, FastInsert, FastEnd,
              FastTimeout, Exit
<1>4. ASSUME NEW p \in Proc, Start(p) \/ Rollback(p) \/ Crash(p)
      PROVE  last' = last
  BY <1>4 DEF Start, committed, AppendEvent, CreateSession, EndSession, Call,
              FastCrash, Rollback, Crash
<1>5. CASE UNCHANGED vars
  BY <1>5 DEF vars, committed
<1> QED BY <1>1, <1>2, <1>3, <1>4, <1>5 DEF Next

LEMMA NextIsMonotone ==
  ASSUME ConstantsOK, IInv, LogInv, [Next]_vars, NEW a \in Agg
  PROVE  /\ NextSequence(events, a) \in Nat /\ NextSequence(events', a) \in Nat
         /\ NextSequence(events, a) <= NextSequence(events', a)
<1>1. IInv'
  BY NextIInv
<1>2. HasMax(events') /\ events' \in SUBSET Row
  BY <1>1 DEF IInv, HasMax, TypeOK, Row, Id
<1> QED BY <1>2, LogSafeStep, NextSequenceIsNext DEF IInv, TypeOK

LEMMA RepairStep ==
  ASSUME ConstantsOK, IInv, LogInv, RepairInv, [Next]_vars
  PROVE  RepairInv'
<1>1. last \in [Agg -> Nat] /\ pc \in [Proc -> Label] /\ op \in [Proc -> Operation]
  BY DEF IInv, TypeOK
<1>2. NotFarAhead'
  <2> SUFFICES ASSUME NEW a \in Agg PROVE last'[a] <= NextSequence(events', a)
    BY DEF NotFarAhead
  <2>1. last[a] \in Nat /\ last[a] <= NextSequence(events, a)
    BY <1>1 DEF RepairInv, NotFarAhead
  <2>2. last'[a] \in Nat /\ last'[a] <= NextSequence(events, a)
    BY <1>1, <2>1, IndexStep DEF UpsertAggregate
  <2> QED BY <2>2, NextIsMonotone
<1>3. FastPathOK'
  <2> SUFFICES ASSUME NEW q \in Proc, pc'[q] = "fast_upsert"
               PROVE  op'[q].seq <= NextSequence(events', op'[q].agg)
    BY DEF FastPathOK
  <2>1. op[q].kind = "fast" => op[q].agg \in Agg /\ op[q].seq \in Nat
    BY <1>1 DEF IInv, ArgumentsOK, Operation
  <2>2. CASE pc[q] = "fast_upsert" /\ op'[q] = op[q]
    BY <2>1, <2>2, NextIsMonotone DEF RepairInv, FastPathOK, IInv, ArgumentsOK, FastStatement
  <2>3. ASSUME FastInsert(q) PROVE op'[q] = op[q] /\ pc[q] = "fast_insert"
    BY <1>1, <2>3 DEF FastInsert, Done, Goto
  <2>4. CASE FastInsert(q)
    <3>1. op[q].seq \in 1..NextSequence(events, op[q].agg) /\ op[q].agg \in Agg
      BY <2>1, <2>3, <2>4 DEF LogInv, PositionsOK, IInv, ArgumentsOK, FastStatement
    <3> QED BY <2>3, <2>4, <3>1, NextIsMonotone
  <2>5. FastInsert(q) \/ (pc[q] = "fast_upsert" /\ op'[q] = op[q])
    <3>1. ASSUME NEW p \in Proc, Statement(p), p # q \/ ~ FastInsert(p)
          PROVE  pc[q] = "fast_upsert" /\ op'[q] = op[q]
      BY <1>1, <3>1 DEF Statement, BeginImmediate, BeginTimeout, InsertEvent, UpsertEvent,
           WriteSession, Commit, FastCreate, FastSelect, FastInsert, FastUpsert, FastEnd,
           FastTimeout, Exit, Goto, Done, IInv, ArgumentsOK
    <3>2. ASSUME NEW p \in Proc, Start(p) \/ Rollback(p) \/ Crash(p)
          PROVE  pc[q] = "fast_upsert" /\ op'[q] = op[q]
      BY <1>1, <3>2 DEF Start, AppendEvent, CreateSession, EndSession, Call, FastCrash,
           Rollback, Crash, Goto, Done
    <3>3. CASE UNCHANGED vars
      BY <3>3 DEF vars
    <3> QED BY <3>1, <3>2, <3>3 DEF Next
  <2> QED BY <2>2, <2>4, <2>5
<1> QED BY <1>2, <1>3, TxStep DEF RepairInv

\* A transactional append that writes its event leaves the aggregates row at the
\* end of the log, whatever half-finished fast paths and repeated calls left.
THEOREM AppendsRepairTheIndex ==
  ASSUME CallerSeq \subseteq {1} PROVE Spec => AppendRepairsIndex
<1> DEFINE Repairs(p) ==
      (pc[p] = "commit" /\ pc'[p] # "commit" /\ op[p].kind = "append" /\ events' # events)
        => last'[op[p].agg] + 1 = NextSequence(events', op[p].agg)
<1>1. Init => RepairInv
  <2> SUFFICES ASSUME Init PROVE RepairInv
    OBVIOUS
  <2>1. \A a \in Agg : last[a] = 0 /\ NextSequence(events, a) = 1
    BY DEF Init, SequencesOf, NextSequence
  <2>2. \A p \in Proc : pc[p] = "idle"
    BY DEF Init
  <2> QED BY <2>1, <2>2 DEF RepairInv, NotFarAhead, FastPathOK, TxOK
<1>2. IInv /\ LogInv /\ RepairInv /\ [Next]_vars => RepairInv'
  BY RepairStep, ConstantsOK
<1>3. IInv /\ LogInv /\ RepairInv /\ [Next]_vars => \A p \in Proc : Repairs(p)
  <2> SUFFICES ASSUME IInv, LogInv, RepairInv, [Next]_vars, NEW p \in Proc,
                      pc[p] = "commit", op[p].kind = "append", events' # events
               PROVE  last'[op[p].agg] + 1 = NextSequence(events', op[p].agg)
    OBVIOUS
  <2> DEFINE a == op[p].agg
             s == op[p].seq
  <2>1. lock = p /\ p # None
    BY ConstantsOK DEF IInv, LockOK, InTransaction, ConstantsOK
  <2>2. Commit(p)
    <3>1. ASSUME NEW q \in Proc, Commit(q), lock = q
          PROVE  Commit(p)
      BY <2>1, <3>1
    <3> QED BY <2>1, <3>1, EventsStep, ConstantsOK
  <2>3. events' = txEvents /\ last' = txLast
    BY <2>2 DEF Commit
  <2>4. AddsItsRow(p) /\ txLast = UpsertAggregate(last, a, s)
    BY <2>3 DEF RepairInv, TxOK, Inserted
  <2>5. a \in Agg /\ s \in Nat /\ RowOf(op[p]) \in Row /\ RowOf(op[p]).agg = a
        /\ RowOf(op[p]).seq = s
    BY DEF IInv, TypeOK, ArgumentsOK, Operation, RowOf, Row
  <2>6. NextSequence(events', a) = s + 1
    <3>1. NextSequence(events \cup {RowOf(op[p])}, a) = NextSequence(events, a) + 1
      BY <2>4, <2>5, AddNextRow DEF AddsItsRow, IInv, TypeOK, LogInv
    <3> QED BY <2>3, <2>4, <3>1 DEF AddsItsRow
  <2>7. last[a] <= s /\ last \in [Agg -> Nat]
    BY <2>4, <2>5 DEF AddsItsRow, RepairInv, NotFarAhead, IInv, TypeOK
  <2>8. last'[a] = s
    BY <2>3, <2>4, <2>5, <2>7 DEF UpsertAggregate
  <2> QED BY <2>6, <2>8
<1>4. IInv /\ LogInv /\ RepairInv /\ [Next]_vars => [\A p \in Proc : Repairs(p)]_vars
  BY <1>3
<1> QED BY <1>1, <1>2, <1>4, InvariantHolds, LogInvHolds, PTL DEF Spec, AppendRepairsIndex

-----------------------------------------------------------------------------
(* Refinement: what readers see is the abstract append-only log *)

LEMMA LogDomain ==
  ASSUME NEW rows, NEW a \in Agg
  PROVE  DOMAIN LogOf(rows)[a] = SequencesOf(rows, a)
BY DEF LogOf

LEMMA LogEntry ==
  ASSUME NEW rows \in SUBSET Row, UniqueRows(rows), NEW e \in rows
  PROVE  LogOf(rows)[e.agg][e.seq] = e.id
<1> DEFINE Match == CHOOSE d \in rows : d.agg = e.agg /\ d.seq = e.seq
<1>1. e.agg \in Agg /\ e.seq \in SequencesOf(rows, e.agg)
  BY DEF Row, SequencesOf
<1>2. Match \in rows /\ Match.agg = e.agg /\ Match.seq = e.seq
  OBVIOUS
<1>3. Match = e
  BY <1>2 DEF UniqueRows
<1>4. LogOf(rows)[e.agg][e.seq] = Match.id
  BY <1>1 DEF LogOf
<1> QED BY <1>3, <1>4

LEMMA EntryOfLog ==
  ASSUME NEW rows, NEW a \in Agg, NEW n \in SequencesOf(rows, a)
  PROVE  \E e \in rows : e.agg = a /\ e.seq = n
BY DEF SequencesOf

LEMMA LogLength ==
  ASSUME NEW rows \in SUBSET Row, HasMax(rows), NEW a \in Agg
  PROVE  Log!Length(LogOf(rows)[a]) + 1 = NextSequence(rows, a)
<1>1. DOMAIN LogOf(rows)[a] = SequencesOf(rows, a)
  BY LogDomain
<1>2. CASE SequencesOf(rows, a) = {}
  BY <1>1, <1>2 DEF Log!Length, NextSequence
<1>3. CASE SequencesOf(rows, a) # {}
  <2> DEFINE S == SequencesOf(rows, a)
             Top == CHOOSE n \in S : \A m \in S : m <= n
  <2>1. S \subseteq Nat
    BY DEF SequencesOf, Row
  <2>2. Top \in S
    BY <1>3 DEF HasMax
  <2>3. Log!Length(LogOf(rows)[a]) = Top
    BY <1>1, <1>3 DEF Log!Length
  <2>4. NextSequence(rows, a) = 1 + Top
    BY <1>3 DEF NextSequence
  <2> HIDE DEF Top
  <2> QED BY <2>1, <2>2, <2>3, <2>4
<1> QED BY <1>2, <1>3

\* Adding the next row of a log is the abstract action Record.
LEMMA AddingARowRecords ==
  ASSUME NEW rows \in SUBSET Row, HasMax(rows), UniqueRows(rows),
         NEW row \in Row, ~ Conflicts(rows, row),
         row.seq = NextSequence(rows, row.agg)
  PROVE  /\ ~ \E a \in Agg : \E n \in DOMAIN LogOf(rows)[a] :
                 LogOf(rows)[a][n] = row.id
         /\ LogOf(rows \cup {row}) =
              [LogOf(rows) EXCEPT ![row.agg] =
                 [n \in DOMAIN LogOf(rows)[row.agg]
                          \cup {Log!Length(LogOf(rows)[row.agg]) + 1} |->
                    IF n \in DOMAIN LogOf(rows)[row.agg]
                    THEN LogOf(rows)[row.agg][n] ELSE row.id]]
<1> DEFINE new == rows \cup {row}
           appended == [n \in SequencesOf(rows, row.agg) \cup {row.seq} |->
                          IF n \in SequencesOf(rows, row.agg)
                          THEN LogOf(rows)[row.agg][n] ELSE row.id]
<1>0. row.agg \in Agg /\ row.seq \in Nat /\ row.id \in Id
  BY DEF Row
<1>1. ASSUME NEW a \in Agg, NEW n \in DOMAIN LogOf(rows)[a]
      PROVE  LogOf(rows)[a][n] # row.id
  <2>1. PICK e \in rows : e.agg = a /\ e.seq = n
    BY <1>1, LogDomain, EntryOfLog
  <2>2. LogOf(rows)[a][n] = e.id
    BY <2>1, LogEntry
  <2> QED BY <2>2 DEF Conflicts
<1>2. UniqueRows(new) /\ new \in SUBSET Row
  BY DEF UniqueRows, Conflicts
<1>3. ASSUME NEW a \in Agg, NEW n \in SequencesOf(rows, a)
      PROVE  LogOf(new)[a][n] = LogOf(rows)[a][n]
  <2>1. PICK e \in rows : e.agg = a /\ e.seq = n
    BY <1>3, EntryOfLog
  <2>2. LogOf(rows)[a][n] = e.id
    BY <2>1, LogEntry
  <2>3. LogOf(new)[a][n] = e.id
    BY <1>2, <2>1, LogEntry
  <2> QED BY <2>2, <2>3
<1>4. row.seq \notin SequencesOf(rows, row.agg)
  BY DEF Conflicts, SequencesOf
<1>5. LogOf(new)[row.agg][row.seq] = row.id
  BY <1>2, LogEntry
<1>6. ASSUME NEW a \in Agg, a # row.agg
      PROVE  LogOf(new)[a] = LogOf(rows)[a]
  <2>1. SequencesOf(new, a) = SequencesOf(rows, a)
    BY <1>6, SequencesOfInsert
  <2>2. LogOf(new)[a] = [n \in SequencesOf(new, a) |-> LogOf(new)[a][n]]
    BY DEF LogOf
  <2>3. LogOf(rows)[a] = [n \in SequencesOf(rows, a) |-> LogOf(rows)[a][n]]
    BY DEF LogOf
  <2> HIDE DEF new
  <2> QED BY <1>3, <2>1, <2>2, <2>3
<1>7. LogOf(new)[row.agg] = appended
  <2>1. SequencesOf(new, row.agg) = SequencesOf(rows, row.agg) \cup {row.seq}
    BY <1>0, SequencesOfInsert
  <2>2. LogOf(new)[row.agg] =
          [n \in SequencesOf(new, row.agg) |-> LogOf(new)[row.agg][n]]
    <3>1. \A a \in Agg : LogOf(new)[a] =
            [n \in SequencesOf(new, a) |-> LogOf(new)[a][n]]
      BY DEF LogOf
    <3> HIDE DEF new
    <3> QED BY <1>0, <3>1
  <2>3. ASSUME NEW n \in SequencesOf(new, row.agg)
        PROVE  LogOf(new)[row.agg][n] = appended[n]
    <3>1. CASE n \in SequencesOf(rows, row.agg)
      BY <1>0, <1>3, <2>1, <3>1
    <3>2. CASE n = row.seq
      BY <1>4, <1>5, <3>2
    <3> QED BY <2>1, <2>3, <3>1, <3>2
  <2>4. appended = [n \in SequencesOf(new, row.agg) |-> appended[n]]
    BY <2>1
  <2> HIDE DEF new, appended
  <2> QED BY <2>2, <2>3, <2>4
<1>8. LogOf(new) = [LogOf(rows) EXCEPT ![row.agg] = appended]
  <2>1. LogOf(new) = [a \in Agg |-> LogOf(new)[a]]
    BY DEF LogOf
  <2>2. LogOf(rows) = [a \in Agg |-> LogOf(rows)[a]]
    BY DEF LogOf
  <2> HIDE DEF new, appended
  <2> QED BY <1>0, <1>6, <1>7, <2>1, <2>2
<1>9. /\ DOMAIN LogOf(rows)[row.agg] = SequencesOf(rows, row.agg)
      /\ Log!Length(LogOf(rows)[row.agg]) + 1 = row.seq
  BY <1>0, LogDomain, LogLength
<1> HIDE DEF new
<1>10. LogOf(new) =
         [LogOf(rows) EXCEPT ![row.agg] =
            [n \in DOMAIN LogOf(rows)[row.agg]
                     \cup {Log!Length(LogOf(rows)[row.agg]) + 1} |->
               IF n \in DOMAIN LogOf(rows)[row.agg]
               THEN LogOf(rows)[row.agg][n] ELSE row.id]]
  BY <1>8, <1>9
<1> QED BY <1>1, <1>10 DEF new

\* The store implements the abstract log.
THEOREM StoreImplementsLog ==
  ASSUME CallerSeq \subseteq {1} PROVE Spec => ImplementsLog
<1>1. Init => Log!Init
  <2> SUFFICES ASSUME Init PROVE LogOf(events) = [a \in Agg |-> [n \in {} |-> n]]
    BY DEF Log!Init
  <2>1. \A a \in Agg : SequencesOf(events, a) = {}
    BY DEF Init, SequencesOf
  <2> QED BY <2>1 DEF LogOf
<1>2. IInv /\ LogInv /\ [Next]_vars => [Log!Next]_(LogOf(events))
  <2> SUFFICES ASSUME IInv, LogInv, [Next]_vars
               PROVE  Log!Next \/ LogOf(events)' = LogOf(events)
    OBVIOUS
  <2>1. CASE UNCHANGED events
    BY <2>1 DEF LogOf, SequencesOf
  <2>2. ASSUME NEW row \in Row, ~ Conflicts(events, row),
               row.seq = NextSequence(events, row.agg),
               events' = events \cup {row}
        PROVE  Log!Next
    <3>1. row.agg \in Agg /\ row.id \in Id
      BY DEF Row
    <3>2. LogOf(events)' = LogOf(events \cup {row})
      BY <2>2 DEF LogOf, SequencesOf
    <3>3. HasMax(events) /\ UniqueRows(events) /\ events \in SUBSET Row
      BY DEF IInv, TypeOK, LogInv
    <3>4. /\ ~ Log!Recorded(row.id)
          /\ LogOf(events \cup {row}) =
               [LogOf(events) EXCEPT ![row.agg] =
                  [n \in DOMAIN LogOf(events)[row.agg]
                           \cup {Log!Length(LogOf(events)[row.agg]) + 1} |->
                     IF n \in DOMAIN LogOf(events)[row.agg]
                     THEN LogOf(events)[row.agg][n] ELSE row.id]]
      BY <2>2, <3>3, AddingARowRecords DEF Log!Recorded
    <3>5. Log!Record(row.agg, row.id)
      BY <3>2, <3>4 DEF Log!Record
    <3> QED BY <3>1, <3>5 DEF Log!Next
  <2> QED BY <2>1, <2>2, StepAddsOneRow, ConstantsOK DEF AddsOneRow
<1> QED BY <1>1, <1>2, InvariantHolds, LogInvHolds, PTL
        DEF Spec, ImplementsLog, Log!Spec
=============================================================================
