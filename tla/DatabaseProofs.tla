--------------------------- MODULE DatabaseProofs ---------------------------
(***************************************************************************)
(* Proofs about the database engine, for any number of threads, any        *)
(* statements on finitely many rows each, and any size of the pool.        *)
(***************************************************************************)
EXTENDS Database, FiniteSetTheorems, TLAPS

-----------------------------------------------------------------------------
(* The inductive invariant                                                 *)

GoodStatement == {s \in AnyStatement : IsFiniteSet(s.keys)}
Answer == Errors \cup {"none", "ok"}
ThreadState == [pc : {"idle", "waiting", "taken", "ran", "done"}, stmt : GoodStatement,
                conn : {"none", "live", "broken"}, writes : SUBSET Key, stored : SUBSET Key, answer : Answer]

Shapes ==
    /\ thread \in [Thread -> ThreadState]
    /\ table \subseteq Key
    /\ pool \in [{"live", "broken"} -> Int] /\ disturbed \in BOOLEAN
    /\ check \in {"sleep", "pool", "query"} /\ connected \in {"unknown", "yes", "no"}

\* What a transaction has written is what check_affected_rows has counted.
RanWasChecked ==
    \A t \in Thread : thread[t].pc = "ran" /\ thread[t].stmt.expected = 1 => Cardinality(thread[t].writes) = 1

\* While the test query is under way, a connection in reach of it is broken, or
\* the query fails, only by what the check has noticed.
QuietCheck ==
    check = "query" => \/ disturbed
                       \/ /\ pool["broken"] = 0 /\ thread[Monitor].conn # "broken"
                          /\ thread[Monitor].stmt = SelectOne
                          /\ thread[Monitor].pc = "done" => thread[Monitor].answer = "ok"

DbInv == Shapes /\ RanWasChecked /\ AnswerFitsEffect /\ QuietCheck

-----------------------------------------------------------------------------
(* Types                                                                   *)

LEMMA SelectOneGood == SelectOne \in GoodStatement
BY FS_EmptySet DEF SelectOne, Statement, GoodStatement, AnyStatement

\* The thread t is the only one that may have changed.
Touches(t) ==
    /\ thread' \in [Thread -> ThreadState]
    /\ \A u \in Thread : u # t => thread'[u] = thread[u]

LEMMA Touching ==
    ASSUME thread \in [Thread -> ThreadState], NEW t \in Thread, NEW q \in ThreadState,
           thread' = [thread EXCEPT ![t] = q]
    PROVE  Touches(t) /\ thread'[t] = q
BY DEF Touches

LEMMA IdleGood == Idle \in ThreadState
BY SelectOneGood DEF Idle, ThreadState, Answer

\* A statement is refused, or affects as many rows as its caller expects.
LEMMA Outcomes ==
    ASSUME table \subseteq Key, NEW s \in GoodStatement
    PROVE  /\ Outcome(s) \in {"ok", "AlreadyExists", "NoRowsAffected", "TooManyRowsAffected"}
           /\ Matched(s) \subseteq Key
           /\ Outcome(s) = "ok" /\ s.expected = 1 => Cardinality(Matched(s)) = 1
           /\ Outcome(s) = "NoRowsAffected" => Matched(s) = {}
<1>1. s.keys \subseteq Key /\ IsFiniteSet(s.keys) /\ s.expected \in {0, 1}
  BY DEF GoodStatement, AnyStatement
<1>2. Matched(s) \subseteq s.keys
  BY DEF Matched
<1>3. IsFiniteSet(Matched(s)) /\ Cardinality(Matched(s)) \in Nat
  BY <1>1, <1>2, FS_Subset, FS_CardinalityType
<1>4. Cardinality(Matched(s)) = 0 => Matched(s) = {}
  BY <1>3, FS_EmptySet
<1>5. /\ check_affected_rows(s.expected, Cardinality(Matched(s))) \in {"ok", "NoRowsAffected", "TooManyRowsAffected"}
      /\ check_affected_rows(s.expected, Cardinality(Matched(s))) = "ok" /\ s.expected = 1 => Cardinality(Matched(s)) = 1
      /\ check_affected_rows(s.expected, Cardinality(Matched(s))) = "NoRowsAffected" => Cardinality(Matched(s)) = 0
  <2>1. CASE s.expected = 0
    BY <2>1 DEF check_affected_rows
  <2>2. CASE s.expected = 1 /\ Cardinality(Matched(s)) = 1
    BY <2>2 DEF check_affected_rows
  <2>3. CASE s.expected = 1 /\ Cardinality(Matched(s)) > 1
    BY <2>3, <1>3 DEF check_affected_rows
  <2>4. CASE s.expected = 1 /\ Cardinality(Matched(s)) = 0
    BY <2>4, <1>3 DEF check_affected_rows
  <2>5. QED
    BY <1>1, <1>3, <2>1, <2>2, <2>3, <2>4
<1>6. QED
  BY <1>1, <1>2, <1>4, <1>5 DEF Outcome

\* The test query affects nothing, and that is what is expected of it.
LEMMA TestQuery == Outcome(SelectOne) = "ok"
<1>1. SelectOne.kind = "select" /\ SelectOne.expected = 0
  BY DEF SelectOne, Statement
<1>2. \A n : check_affected_rows(0, n) = "ok"
  BY DEF check_affected_rows
<1>3. QED
  BY <1>1, <1>2 DEF Outcome

-----------------------------------------------------------------------------
(* The statement of one thread                                             *)

\* What a thread says at its end fits what became of its statement.
Fits(t, th, lost) ==
    th[t].pc = "done" =>
        IF th[t].answer = "ok"
        THEN th[t].stmt.expected = 1 => Cardinality(th[t].stored) = 1
        ELSE \/ th[t].stored = {}
             \/ t \in lost
             \/ engine = "sqlite" /\ th[t].answer = "TooManyRowsAffected"

\* When one thread goes on, the others keep what the invariant says of them.
LEMMA OneThread ==
    ASSUME RanWasChecked, AnswerFitsEffect, NEW t \in Thread, Touches(t),
           engine' = engine, unanswered \subseteq unanswered',
           thread'[t].pc = "ran" /\ thread'[t].stmt.expected = 1 => Cardinality(thread'[t].writes) = 1,
           Fits(t, thread', unanswered')
    PROVE  RanWasChecked' /\ AnswerFitsEffect'
<1>1. RanWasChecked'
  <2> SUFFICES ASSUME NEW u \in Thread, thread'[u].pc = "ran", thread'[u].stmt.expected = 1
               PROVE  Cardinality(thread'[u].writes) = 1
    BY DEF RanWasChecked
  <2>1. CASE u = t
    BY <2>1
  <2>2. CASE u # t
    BY <2>2 DEF RanWasChecked, Touches
  <2>3. QED
    BY <2>1, <2>2
<1>2. AnswerFitsEffect'
  <2> SUFFICES ASSUME NEW w \in Worker
               PROVE  Fits(w, thread', unanswered')
    BY DEF AnswerFitsEffect, Fits
  <2>1. CASE w = t
    BY <2>1
  <2>2. CASE w # t
    <3>1. Fits(w, thread, unanswered)
      BY DEF AnswerFitsEffect, Fits
    <3>2. thread'[w] = thread[w]
      BY <2>2 DEF Touches, Thread
    <3>3. QED
      BY <3>1, <3>2 DEF Fits
  <2>3. QED
    BY <2>1, <2>2
<1>3. QED
  BY <1>1, <1>2

\* A thread whose statement has ended is at rest, and holds no connection.
LEMMA EndedFields ==
    ASSUME thread \in [Thread -> ThreadState], NEW t \in Thread, NEW answer \in Answer, NEW stored \in SUBSET Key,
           Ends(t, answer, stored)
    PROVE  /\ Touches(t)
           /\ thread'[t].pc = "done" /\ thread'[t].conn = "none" /\ thread'[t].answer = answer
           /\ thread'[t].stored = stored /\ thread'[t].stmt = thread[t].stmt
<1>1. thread[t] \in ThreadState
  OBVIOUS
<1>2. Ended(thread[t], answer, stored) \in ThreadState
  BY <1>1 DEF Ended, ThreadState
<1>3. Touches(t) /\ thread'[t] = Ended(thread[t], answer, stored)
  BY <1>2, Touching DEF Ends
<1>4. QED
  BY <1>1, <1>3 DEF Ended, ThreadState

\* A thread that asks for a connection begins anew.
LEMMA RequestedFields ==
    ASSUME thread \in [Thread -> ThreadState], NEW t \in Thread, NEW s \in GoodStatement, Requests(t, s)
    PROVE  /\ Touches(t)
           /\ thread'[t].pc = "waiting" /\ thread'[t].conn = "none" /\ thread'[t].stmt = s
<1>1. [Idle EXCEPT !.pc = "waiting", !.stmt = s] \in ThreadState
  BY IdleGood DEF ThreadState
<1>2. Touches(t) /\ thread'[t] = [Idle EXCEPT !.pc = "waiting", !.stmt = s]
  BY <1>1, Touching DEF Requests
<1>3. QED
  BY <1>2, IdleGood DEF Idle, ThreadState

\* The pool is counted in two numbers.
LEMMA PoolOf == \A m, n \in Int : [live |-> m, broken |-> n] \in [{"live", "broken"} -> Int]
OBVIOUS

\* The connections that are idle and broken, after one was returned.
LEMMA ReleasedKeepsBroken ==
    ASSUME pool \in [{"live", "broken"} -> Int], NEW t, pool' = Released(t)
    PROVE  pool' \in [{"live", "broken"} -> Int] /\ pool'["broken"] = pool["broken"]
BY DEF Released

-----------------------------------------------------------------------------
(* The actions                                                             *)

LEMMA ConnectStep == ASSUME DbInv, Connect PROVE DbInv'
<1>1. Shapes'
  BY DEF DbInv, Connect, Shapes
<1>2. RanWasChecked'
  BY DEF DbInv, Connect, RanWasChecked
<1>3. AnswerFitsEffect'
  BY DEF DbInv, Connect, AnswerFitsEffect
<1>4. QuietCheck'
  <2>1. pool'["broken"] = pool["broken"]
    BY DEF DbInv, Connect, Shapes
  <2>2. QED
    BY <2>1 DEF DbInv, Connect, QuietCheck
<1>5. QED
  BY <1>1, <1>2, <1>3, <1>4 DEF DbInv

LEMMA ExecuteStep ==
    ASSUME DbInv, NEW w \in Worker, NEW s \in Statements, Execute(w, s)
    PROVE  DbInv'
<1>1. w \in Thread /\ w # Monitor /\ Monitor \in Thread
  BY DbAssumption DEF Thread
<1>2. s \in GoodStatement
  BY DbAssumption DEF GoodStatement
<1>3. thread \in [Thread -> ThreadState] /\ Requests(w, s)
  BY DEF DbInv, Shapes, Execute
<1>4. Touches(w) /\ thread'[w].pc = "waiting"
  BY <1>1, <1>2, <1>3, RequestedFields
<1>5. Shapes'
  BY <1>4 DEF DbInv, Shapes, Execute, Touches
<1>6. RanWasChecked' /\ AnswerFitsEffect'
  BY <1>1, <1>4, OneThread DEF DbInv, Execute, Fits
<1>7. QuietCheck'
  <2>1. thread'[Monitor] = thread[Monitor]
    BY <1>1, <1>4 DEF Touches
  <2>2. QED
    BY <2>1 DEF DbInv, QuietCheck, Execute
<1>8. QED
  BY <1>5, <1>6, <1>7 DEF DbInv

LEMMA TakeConnectionStep ==
    ASSUME DbInv, NEW t \in Thread, TakeConnection(t)
    PROVE  DbInv'
<1>1. PICK state \in {"live", "broken"} :
          /\ pool[state] > 0
          /\ pool' = Given(state)
          /\ thread' = [thread EXCEPT ![t].pc = "taken", ![t].conn = state]
  BY DEF TakeConnection
<1>2. thread \in [Thread -> ThreadState] /\ thread[t] \in ThreadState
  BY DEF DbInv, Shapes
<1>3. Touches(t)
  BY <1>1, <1>2 DEF Touches, ThreadState
<1>4. thread'[t].pc = "taken" /\ thread'[t].conn = state /\ thread'[t].stmt = thread[t].stmt
  BY <1>1, <1>2 DEF ThreadState
<1>5. pool' \in [{"live", "broken"} -> Int]
  BY <1>1 DEF DbInv, Shapes, Given
<1>6. Shapes'
  BY <1>3, <1>5 DEF DbInv, Shapes, TakeConnection, Touches
<1>7. RanWasChecked' /\ AnswerFitsEffect'
  BY <1>3, <1>4, OneThread DEF DbInv, TakeConnection, Fits
<1>8. QuietCheck'
  <2> SUFFICES ASSUME check = "query", ~disturbed
               PROVE  /\ pool'["broken"] = 0 /\ thread'[Monitor].conn # "broken"
                      /\ thread'[Monitor].stmt = SelectOne
                      /\ thread'[Monitor].pc = "done" => thread'[Monitor].answer = "ok"
    BY DEF TakeConnection, QuietCheck
  <2>1. /\ pool["broken"] = 0 /\ thread[Monitor].conn # "broken"
        /\ thread[Monitor].stmt = SelectOne
        /\ thread[Monitor].pc = "done" => thread[Monitor].answer = "ok"
    BY DEF DbInv, QuietCheck
  <2>2. state = "live"
    BY <1>1, <2>1
  <2>3. pool'["broken"] = 0
    BY <1>1, <2>1, <2>2 DEF DbInv, Shapes, Given
  <2>4. Monitor \in Thread
    BY DEF Thread
  <2>5. CASE t = Monitor
    BY <1>4, <2>1, <2>2, <2>3, <2>5
  <2>6. CASE t # Monitor
    BY <1>3, <2>1, <2>3, <2>4, <2>6 DEF Touches
  <2>7. QED
    BY <2>5, <2>6
<1>9. QED
  BY <1>6, <1>7, <1>8 DEF DbInv

LEMMA PoolTimeoutStep ==
    ASSUME DbInv, NEW t \in Thread, PoolTimeout(t)
    PROVE  DbInv'
<1>1. thread \in [Thread -> ThreadState] /\ Ends(t, "connection pool error", {})
  BY DEF DbInv, Shapes, PoolTimeout
<1>2. /\ Touches(t) /\ thread'[t].pc = "done"
      /\ thread'[t].answer = "connection pool error" /\ thread'[t].stored = {}
  <2>1. {} \in SUBSET Key /\ "connection pool error" \in Answer
    BY DEF Answer, Errors
  <2>2. QED
    BY <1>1, <2>1, EndedFields
<1>3. Shapes'
  BY <1>2 DEF DbInv, Shapes, PoolTimeout, Touches
<1>4. RanWasChecked' /\ AnswerFitsEffect'
  BY <1>2, OneThread DEF DbInv, PoolTimeout, Fits
<1>5. QuietCheck'
  <2>1. CASE t = Monitor
    BY <2>1 DEF PoolTimeout, QuietCheck
  <2>2. CASE t # Monitor
    <3>1. thread'[Monitor] = thread[Monitor]
      BY <1>2, <2>2 DEF Touches, Thread
    <3>2. QED
      BY <3>1, <2>2 DEF DbInv, QuietCheck, PoolTimeout
  <2>3. QED
    BY <2>1, <2>2
<1>6. QED
  BY <1>3, <1>4, <1>5 DEF DbInv

LEMMA RunQueryStep ==
    ASSUME DbInv, NEW t \in Thread, RunQuery(t)
    PROVE  DbInv'
<1>1. thread \in [Thread -> ThreadState] /\ thread[t] \in ThreadState /\ thread[t].stmt \in GoodStatement
  BY DEF DbInv, Shapes, ThreadState
<1>2. PICK s \in GoodStatement : s = thread[t].stmt
  BY <1>1
<1>3. PICK outcome \in Answer : outcome = Outcome(s)
  BY Outcomes DEF DbInv, Shapes, Answer, Errors
<1>4. PICK rows \in SUBSET Key : rows = Matched(s)
  BY Outcomes DEF DbInv, Shapes
<1>5. CASE outcome = "ok"
  <2>1. thread' = [thread EXCEPT ![t].pc = "ran", ![t].writes = rows] /\ pool' = pool
    BY <1>2, <1>3, <1>4, <1>5 DEF RunQuery
  <2>2. Touches(t)
    BY <1>1, <2>1 DEF Touches, ThreadState
  <2>3. /\ thread'[t].pc = "ran" /\ thread'[t].writes = rows
        /\ thread'[t].stmt = s /\ thread'[t].conn = thread[t].conn
    BY <1>1, <1>2, <2>1 DEF ThreadState
  <2>4. s.expected = 1 => Cardinality(rows) = 1
    BY <1>3, <1>4, <1>5, Outcomes DEF DbInv, Shapes
  <2>5. Shapes'
    BY <2>1, <2>2 DEF DbInv, Shapes, RunQuery, Touches
  <2>6. RanWasChecked' /\ AnswerFitsEffect'
    BY <2>2, <2>3, <2>4, OneThread DEF DbInv, RunQuery, Fits
  <2>7. QuietCheck'
    <3>1. thread'[Monitor].conn = thread[Monitor].conn /\ thread'[Monitor].stmt = thread[Monitor].stmt
          /\ (thread'[Monitor].pc = "done" => thread'[Monitor] = thread[Monitor])
      BY <1>2, <2>2, <2>3 DEF Touches, Thread
    <3>2. QED
      BY <2>1, <3>1 DEF DbInv, QuietCheck, RunQuery
  <2>8. QED
    BY <2>5, <2>6, <2>7 DEF DbInv
<1>6. CASE outcome # "ok"
  <2>1. Ends(t, outcome, {}) /\ pool' = Released(t)
    BY <1>2, <1>3, <1>6 DEF RunQuery
  <2>2. Touches(t) /\ thread'[t].pc = "done" /\ thread'[t].answer = outcome /\ thread'[t].stored = {}
    BY <1>1, <2>1, EndedFields
  <2>3. pool' \in [{"live", "broken"} -> Int] /\ pool'["broken"] = pool["broken"]
    BY <2>1, ReleasedKeepsBroken DEF DbInv, Shapes
  <2>4. Shapes'
    BY <2>2, <2>3 DEF DbInv, Shapes, RunQuery, Touches
  <2>5. RanWasChecked' /\ AnswerFitsEffect'
    BY <1>6, <2>2, OneThread DEF DbInv, RunQuery, Fits
  <2>6. QuietCheck'
    <3>1. ASSUME t = Monitor, check = "query", ~disturbed
          PROVE  FALSE
      BY <1>2, <1>3, <1>6, <3>1, TestQuery DEF DbInv, QuietCheck
    <3>2. t # Monitor => thread'[Monitor] = thread[Monitor]
      BY <2>2 DEF Touches, Thread
    <3>3. QED
      BY <2>3, <3>1, <3>2 DEF DbInv, QuietCheck, RunQuery
  <2>7. QED
    BY <2>4, <2>5, <2>6 DEF DbInv
<1>7. QED
  BY <1>5, <1>6

LEMMA CommitStep ==
    ASSUME DbInv, NEW t \in Thread, Commit(t)
    PROVE  DbInv'
<1>1. thread \in [Thread -> ThreadState] /\ thread[t] \in ThreadState
  BY DEF DbInv, Shapes
<1>2. PICK rows \in SUBSET Key : rows = thread[t].writes
  BY <1>1 DEF ThreadState
<1>3. Ends(t, "ok", rows) /\ pool' = Released(t) /\ table' = Written(thread[t].stmt, rows)
  BY <1>2 DEF Commit
<1>4. /\ Touches(t) /\ thread'[t].pc = "done" /\ thread'[t].answer = "ok" /\ thread'[t].conn = "none"
      /\ thread'[t].stored = rows /\ thread'[t].stmt = thread[t].stmt
  BY <1>1, <1>3, EndedFields DEF Answer
<1>5. pool' \in [{"live", "broken"} -> Int] /\ pool'["broken"] = pool["broken"]
  BY <1>3, ReleasedKeepsBroken DEF DbInv, Shapes
<1>6. table' \subseteq Key
  BY <1>3 DEF Written, DbInv, Shapes
<1>7. Shapes'
  BY <1>4, <1>5, <1>6 DEF DbInv, Shapes, Commit, Touches
<1>8. thread[t].stmt.expected = 1 => Cardinality(rows) = 1
  BY <1>2 DEF DbInv, RanWasChecked, Commit
<1>9. RanWasChecked' /\ AnswerFitsEffect'
  BY <1>4, <1>8, OneThread DEF DbInv, Commit, Fits
<1>10. QuietCheck'
  <2>1. thread'[Monitor].stmt = thread[Monitor].stmt
        /\ (thread[Monitor].conn # "broken" => thread'[Monitor].conn # "broken")
        /\ (thread'[Monitor].answer = "ok" \/ thread'[Monitor] = thread[Monitor])
    BY <1>4 DEF Touches, Thread
  <2>2. QED
    BY <1>5, <2>1 DEF DbInv, QuietCheck, Commit
<1>11. QED
  BY <1>7, <1>9, <1>10 DEF DbInv

LEMMA LoseConnectionStep ==
    ASSUME DbInv, NEW t \in Thread, LoseConnection(t)
    PROVE  DbInv'
<1>1. thread \in [Thread -> ThreadState] /\ Ends(t, "database error", {}) /\ pool' = Released(t)
  BY DEF DbInv, Shapes, LoseConnection
<1>2. Touches(t) /\ thread'[t].pc = "done" /\ thread'[t].answer = "database error" /\ thread'[t].stored = {}
  <2>1. {} \in SUBSET Key /\ "database error" \in Answer
    BY DEF Answer, Errors
  <2>2. QED
    BY <1>1, <2>1, EndedFields
<1>3. pool' \in [{"live", "broken"} -> Int] /\ pool'["broken"] = pool["broken"]
  BY <1>1, ReleasedKeepsBroken DEF DbInv, Shapes
<1>4. Shapes'
  BY <1>2, <1>3 DEF DbInv, Shapes, LoseConnection, Touches
<1>5. RanWasChecked' /\ AnswerFitsEffect'
  BY <1>2, OneThread DEF DbInv, LoseConnection, Fits
<1>6. QuietCheck'
  <2>1. ASSUME t = Monitor, check = "query", ~disturbed
        PROVE  FALSE
    BY <2>1 DEF DbInv, QuietCheck, LoseConnection, Broken
  <2>2. t # Monitor => thread'[Monitor] = thread[Monitor]
    BY <1>2 DEF Touches, Thread
  <2>3. QED
    BY <1>3, <2>1, <2>2 DEF DbInv, QuietCheck, LoseConnection
<1>7. QED
  BY <1>4, <1>5, <1>6 DEF DbInv

\* A lost connection leaves the rest of what a thread knows.
LEMMA SeveredFields ==
    ASSUME NEW th \in [Thread -> ThreadState]
    PROVE  /\ Severed(th) \in [Thread -> ThreadState]
           /\ \A u \in Thread :
                 /\ Severed(th)[u].pc = th[u].pc /\ Severed(th)[u].stmt = th[u].stmt
                 /\ Severed(th)[u].writes = th[u].writes /\ Severed(th)[u].stored = th[u].stored
                 /\ Severed(th)[u].answer = th[u].answer
<1>1. ASSUME NEW u \in Thread
      PROVE  /\ Severed(th)[u] \in ThreadState
             /\ Severed(th)[u].pc = th[u].pc /\ Severed(th)[u].stmt = th[u].stmt
             /\ Severed(th)[u].writes = th[u].writes /\ Severed(th)[u].stored = th[u].stored
             /\ Severed(th)[u].answer = th[u].answer
  <2>1. th[u] \in ThreadState
    OBVIOUS
  <2>2. Severed(th)[u] = IF th[u].conn = "live" THEN [th[u] EXCEPT !.conn = "broken"] ELSE th[u]
    BY DEF Severed
  <2>3. QED
    BY <2>1, <2>2 DEF ThreadState
<1>2. Severed(th) = [u \in Thread |-> Severed(th)[u]]
  BY DEF Severed
<1>3. QED
  BY <1>1, <1>2

LEMMA OutageStep == ASSUME DbInv, Outage PROVE DbInv'
<1>1. thread \in [Thread -> ThreadState] /\ thread' = Severed(thread)
  BY DEF DbInv, Shapes, Outage
<1>2. /\ thread' \in [Thread -> ThreadState]
      /\ \A u \in Thread :
            /\ thread'[u].pc = thread[u].pc /\ thread'[u].stmt = thread[u].stmt
            /\ thread'[u].writes = thread[u].writes /\ thread'[u].stored = thread[u].stored
            /\ thread'[u].answer = thread[u].answer
  BY <1>1, SeveredFields
<1>3. pool' \in [{"live", "broken"} -> Int]
  BY DEF DbInv, Shapes, Outage, GoesAway
<1>4. Shapes'
  BY <1>2, <1>3 DEF DbInv, Shapes, Outage, GoesAway
<1>5. RanWasChecked'
  BY <1>2 DEF DbInv, RanWasChecked
<1>6. AnswerFitsEffect'
  BY <1>2 DEF DbInv, AnswerFitsEffect, Outage, Thread
<1>7. QuietCheck'
  BY DEF QuietCheck, Outage, GoesAway
<1>8. QED
  BY <1>4, <1>5, <1>6, <1>7 DEF DbInv

LEMMA OutageAtCommitStep ==
    ASSUME DbInv, NEW t \in Thread, OutageAtCommit(t)
    PROVE  DbInv'
<1>1. thread \in [Thread -> ThreadState] /\ thread[t] \in ThreadState
  BY DEF DbInv, Shapes
<1>2. PICK th : th = [thread EXCEPT ![t] = Ended(thread[t], "database error", thread[t].writes)]
  OBVIOUS
<1>3. thread' = Severed(th)
  BY <1>1, <1>2 DEF OutageAtCommit
<1>4. Ended(thread[t], "database error", thread[t].writes) \in ThreadState
  BY <1>1 DEF Ended, ThreadState, Answer, Errors
<1>5. th \in [Thread -> ThreadState] /\ \A u \in Thread : u # t => th[u] = thread[u]
  BY <1>1, <1>2, <1>4
<1>6. th[t].pc = "done" /\ th[t].answer = "database error"
  <2>1. th[t] = Ended(thread[t], "database error", thread[t].writes)
    BY <1>1, <1>2
  <2>2. QED
    BY <1>1, <2>1 DEF Ended, ThreadState
<1>7. /\ thread' \in [Thread -> ThreadState]
      /\ \A u \in Thread :
            /\ thread'[u].pc = th[u].pc /\ thread'[u].stmt = th[u].stmt
            /\ thread'[u].writes = th[u].writes /\ thread'[u].stored = th[u].stored
            /\ thread'[u].answer = th[u].answer
  BY <1>3, <1>5, SeveredFields
<1>8. pool' \in [{"live", "broken"} -> Int]
  <2>1. pool["live"] \in Int /\ pool["broken"] \in Int
    BY DEF DbInv, Shapes
  <2>2. pool' = [live |-> 0, broken |-> pool.live + pool.broken]
    BY DEF OutageAtCommit, GoesAway
  <2>3. QED
    BY <2>1, <2>2, PoolOf
<1>9. table' \subseteq Key
  BY <1>1 DEF Written, DbInv, Shapes, OutageAtCommit, ThreadState
<1>10. Shapes'
  BY <1>7, <1>8, <1>9 DEF DbInv, Shapes, OutageAtCommit, GoesAway
<1>11. RanWasChecked'
  <2> SUFFICES ASSUME NEW u \in Thread, thread'[u].pc = "ran", thread'[u].stmt.expected = 1
               PROVE  Cardinality(thread'[u].writes) = 1
    BY DEF RanWasChecked
  <2>1. u # t
    BY <1>6, <1>7
  <2>2. QED
    BY <1>5, <1>7, <2>1 DEF DbInv, RanWasChecked
<1>12. AnswerFitsEffect'
  <2> SUFFICES ASSUME NEW w \in Worker
               PROVE  Fits(w, thread', unanswered')
    BY DEF AnswerFitsEffect, Fits, OutageAtCommit
  <2>1. w \in Thread
    BY DEF Thread
  <2>2. CASE w = t
    BY <1>6, <1>7, <2>1, <2>2 DEF Fits, OutageAtCommit
  <2>3. CASE w # t
    <3>1. Fits(w, thread, unanswered)
      BY DEF DbInv, AnswerFitsEffect, Fits
    <3>2. unanswered \subseteq unanswered'
      BY DEF OutageAtCommit
    <3>3. QED
      BY <1>5, <1>7, <2>1, <2>3, <3>1, <3>2 DEF Fits
  <2>4. QED
    BY <2>2, <2>3
<1>13. QuietCheck'
  BY DEF QuietCheck, OutageAtCommit, GoesAway
<1>14. QED
  BY <1>10, <1>11, <1>12, <1>13 DEF DbInv

LEMMA RecoverStep == ASSUME DbInv, Recover PROVE DbInv'
BY DEF DbInv, Recover, Shapes, RanWasChecked, AnswerFitsEffect, QuietCheck

\* A check that fails leaves what the statements do alone.
LEMMA CheckFailed ==
    ASSUME pool \in [{"live", "broken"} -> Int], CheckFails
    PROVE  pool' \in [{"live", "broken"} -> Int] /\ check' = "sleep" /\ connected' \in {"unknown", "no"}
BY DEF CheckFails, NoConnections

LEMMA ServerCheckStep == ASSUME DbInv, ServerCheck PROVE DbInv'
<1>1. /\ pool' \in [{"live", "broken"} -> Int] /\ check' \in {"sleep", "pool"}
      /\ connected' \in {"unknown", "yes", "no"} /\ disturbed' \in BOOLEAN
  BY CheckFailed DEF DbInv, Shapes, ServerCheck
<1>2. Shapes'
  BY <1>1 DEF DbInv, Shapes, ServerCheck
<1>3. RanWasChecked' /\ AnswerFitsEffect'
  BY DEF DbInv, RanWasChecked, AnswerFitsEffect, ServerCheck
<1>4. QuietCheck'
  BY <1>1 DEF QuietCheck
<1>5. QED
  BY <1>2, <1>3, <1>4 DEF DbInv

LEMMA PoolCheckStep == ASSUME DbInv, PoolCheck PROVE DbInv'
<1>1. thread \in [Thread -> ThreadState] /\ Requests(Monitor, SelectOne) /\ Monitor \in Thread
  BY DEF DbInv, Shapes, PoolCheck, Thread
<1>2. /\ Touches(Monitor) /\ thread'[Monitor].pc = "waiting"
      /\ thread'[Monitor].conn = "none" /\ thread'[Monitor].stmt = SelectOne
  BY <1>1, SelectOneGood, RequestedFields
<1>3. pool' \in [{"live", "broken"} -> Int] /\ pool'["broken"] = 0
  BY DEF DbInv, Shapes, PoolCheck
<1>4. Shapes'
  BY <1>2, <1>3 DEF DbInv, Shapes, PoolCheck, Touches
<1>5. RanWasChecked' /\ AnswerFitsEffect'
  BY <1>1, <1>2, OneThread DEF DbInv, PoolCheck, Fits
<1>6. QuietCheck'
  BY <1>2, <1>3 DEF QuietCheck
<1>7. QED
  BY <1>4, <1>5, <1>6 DEF DbInv

LEMMA QueryCheckedStep == ASSUME DbInv, QueryChecked PROVE DbInv'
<1>1. thread \in [Thread -> ThreadState] /\ Monitor \in Thread
  BY DEF DbInv, Shapes, Thread
<1>2. Touches(Monitor) /\ thread'[Monitor] = Idle
  BY <1>1, IdleGood, Touching DEF QueryChecked
<1>3. /\ pool' \in [{"live", "broken"} -> Int] /\ check' = "sleep"
      /\ connected' \in {"unknown", "yes", "no"}
  BY CheckFailed DEF DbInv, Shapes, QueryChecked
<1>4. Shapes'
  BY <1>2, <1>3 DEF DbInv, Shapes, QueryChecked, Touches
<1>5. RanWasChecked' /\ AnswerFitsEffect'
  BY <1>1, <1>2, OneThread DEF DbInv, QueryChecked, Fits, Idle
<1>6. QuietCheck'
  BY <1>3 DEF QuietCheck
<1>7. QED
  BY <1>4, <1>5, <1>6 DEF DbInv

LEMMA SqliteCheckStep == ASSUME DbInv, SqliteCheck PROVE DbInv'
BY DEF DbInv, SqliteCheck, Shapes, RanWasChecked, AnswerFitsEffect, QuietCheck

LEMMA SqliteExecuteStep ==
    ASSUME DbInv, NEW w \in Worker, NEW s \in Statements, SqliteExecute(w, s)
    PROVE  DbInv'
<1>1. w \in Thread /\ w # Monitor /\ Monitor \in Thread
  BY DbAssumption DEF Thread
<1>2. s \in GoodStatement
  BY DbAssumption DEF GoodStatement
<1>3. PICK outcome \in Answer : outcome = Outcome(s)
  BY <1>2, Outcomes DEF DbInv, Shapes, Answer, Errors
<1>4. PICK rows \in SUBSET Key : rows = IF outcome = "AlreadyExists" THEN {} ELSE Matched(s)
  BY <1>2, Outcomes DEF DbInv, Shapes
<1>5. PICK q : q = [Idle EXCEPT !.pc = "done", !.stmt = s, !.answer = outcome, !.stored = rows]
  OBVIOUS
<1>6. q \in ThreadState
  BY <1>2, <1>5, IdleGood DEF ThreadState
<1>7. q.pc = "done" /\ q.stmt = s /\ q.answer = outcome /\ q.stored = rows
  BY <1>5, IdleGood DEF ThreadState
<1>8. thread' = [thread EXCEPT ![w] = q]
  BY <1>3, <1>4, <1>5 DEF SqliteExecute
<1>9. Touches(w) /\ thread'[w] = q
  BY <1>1, <1>6, <1>8, Touching DEF DbInv, Shapes
<1>10. table' \subseteq Key
  <2>1. Matched(s) \subseteq Key
    BY <1>2, Outcomes DEF DbInv, Shapes
  <2>2. QED
    BY <2>1 DEF SqliteExecute, Written, DbInv, Shapes
<1>11. Shapes'
  BY <1>9, <1>10 DEF DbInv, Shapes, SqliteExecute, Touches
<1>12. Fits(w, thread', unanswered')
  <2>1. CASE outcome = "ok"
    <3>1. s.expected = 1 => Cardinality(Matched(s)) = 1
      BY <1>2, <1>3, <2>1, Outcomes DEF DbInv, Shapes
    <3>2. QED
      BY <1>4, <1>7, <1>9, <2>1, <3>1 DEF Fits
  <2>2. CASE outcome = "AlreadyExists"
    BY <1>4, <1>7, <1>9, <2>2 DEF Fits
  <2>3. CASE outcome = "NoRowsAffected"
    <3>1. Matched(s) = {}
      BY <1>2, <1>3, <2>3, Outcomes DEF DbInv, Shapes
    <3>2. QED
      BY <1>4, <1>7, <1>9, <2>3, <3>1 DEF Fits
  <2>4. CASE outcome = "TooManyRowsAffected"
    BY <1>7, <1>9, <2>4 DEF Fits, SqliteExecute
  <2>5. QED
    BY <1>2, <1>3, <2>1, <2>2, <2>3, <2>4, Outcomes DEF DbInv, Shapes
<1>13. RanWasChecked' /\ AnswerFitsEffect'
  BY <1>1, <1>7, <1>9, <1>12, OneThread DEF DbInv, SqliteExecute
<1>14. QuietCheck'
  <2>1. thread'[Monitor] = thread[Monitor]
    BY <1>1, <1>9 DEF Touches
  <2>2. QED
    BY <2>1 DEF DbInv, QuietCheck, SqliteExecute
<1>15. QED
  BY <1>11, <1>13, <1>14 DEF DbInv

-----------------------------------------------------------------------------
(* The theorems                                                            *)

LEMMA InvInit == DbInit => DbInv
<1> SUFFICES ASSUME DbInit PROVE DbInv
  OBVIOUS
<1>1. thread \in [Thread -> ThreadState] /\ \A t \in Thread : thread[t] = Idle
  BY IdleGood DEF DbInit
<1>2. Shapes
  <2>1. pool \in [{"live", "broken"} -> Int]
    BY PoolOf DEF DbInit, NoConnections
  <2>2. QED
    BY <1>1, <2>1 DEF DbInit, Shapes
<1>3. RanWasChecked /\ AnswerFitsEffect
  BY <1>1 DEF RanWasChecked, AnswerFitsEffect, Idle, Thread
<1>4. QuietCheck
  BY DEF DbInit, QuietCheck
<1>5. QED
  BY <1>2, <1>3, <1>4 DEF DbInv

LEMMA InvNext == DbInv /\ [DbNext]_dbVars => DbInv'
<1> SUFFICES ASSUME DbInv, [DbNext]_dbVars PROVE DbInv'
  OBVIOUS
<1>1. ASSUME NEW w \in Worker, NEW s \in Statements, Execute(w, s) \/ SqliteExecute(w, s)
      PROVE  DbInv'
  BY <1>1, ExecuteStep, SqliteExecuteStep
<1>2. ASSUME NEW t \in Thread, StatementStep(t) \/ OutageAtCommit(t)
      PROVE  DbInv'
  BY <1>2, TakeConnectionStep, PoolTimeoutStep, RunQueryStep, CommitStep, LoseConnectionStep,
     OutageAtCommitStep DEF StatementStep
<1>3. CASE Connect \/ CheckStep \/ Outage \/ Recover
  BY <1>3, ConnectStep, ServerCheckStep, PoolCheckStep, QueryCheckedStep, SqliteCheckStep,
     OutageStep, RecoverStep DEF CheckStep
<1>4. CASE UNCHANGED dbVars
  BY <1>4 DEF dbVars, DbInv, Shapes, RanWasChecked, AnswerFitsEffect, QuietCheck
<1>5. QED
  BY <1>1, <1>2, <1>3, <1>4 DEF DbNext

LEMMA Invariance == DbSpec => []DbInv
BY InvInit, InvNext, PTL DEF DbSpec

\* A statement that was to affect one row and returned has changed one row, and
\* one that raised has changed nothing, with the two exceptions that
\* AnswerFitsEffect names (execute_sql, check_affected_rows).
THEOREM AnswersFit == DbSpec => []AnswerFitsEffect
<1>1. DbInv => AnswerFitsEffect
  BY DEF DbInv
<1>2. QED
  BY <1>1, Invariance, PTL

\* Lifecycle begins to report that it is unhealthy only when the check found
\* the server away or no connection for its query (check_connection).
THEOREM UnhealthyIsCaused == DbSpec => UnhealthyHasCause
<1>1. DbInv /\ [DbNext]_dbVars => [Health = 200 /\ Health' = 500 => disturbed']_dbVars
  <2> SUFFICES ASSUME DbInv, DbNext, connected = "yes", connected' # "yes"
               PROVE  disturbed'
    BY DEF Health
  <2>1. ASSUME NEW w \in Worker, NEW s \in Statements, Execute(w, s) \/ SqliteExecute(w, s)
        PROVE  FALSE
    BY <2>1 DEF Execute, SqliteExecute
  <2>2. ASSUME NEW t \in Thread, StatementStep(t) \/ OutageAtCommit(t)
        PROVE  FALSE
    BY <2>2 DEF StatementStep, TakeConnection, PoolTimeout, RunQuery, Commit, LoseConnection, OutageAtCommit
  <2>3. CASE ServerCheck
    BY <2>3 DEF ServerCheck
  <2>4. CASE QueryChecked
    <3>1. check = "query" /\ thread[Monitor].pc = "done" /\ thread[Monitor].answer # "ok" /\ disturbed' = disturbed
      BY <2>4 DEF QueryChecked
    <3>2. QED
      BY <3>1 DEF DbInv, QuietCheck
  <2>5. CASE Connect \/ PoolCheck \/ SqliteCheck \/ Outage \/ Recover
    BY <2>5 DEF Connect, PoolCheck, SqliteCheck, Outage, Recover
  <2>6. QED
    BY <2>1, <2>2, <2>3, <2>4, <2>5 DEF DbNext, CheckStep
<1>2. QED
  BY <1>1, Invariance, PTL DEF DbSpec, UnhealthyHasCause

=============================================================================
