------------------------------ MODULE Database ------------------------------
(***************************************************************************)
(* The database engine of Lifecycle: statements of many threads over a     *)
(* pool of connections to PostgreSQL, each in a transaction of its own,    *)
(* the check of the connection in the background, and the health that      *)
(* Lifecycle reports from it. The database may go away and come back at    *)
(* any moment. SQLite, the engine of the tests, has one connection that    *)
(* all threads share and neither commits nor rolls back.                   *)
(***************************************************************************)
EXTENDS Naturals, FiniteSets, Sequences

CONSTANTS
    Worker,         \* threads of Lifecycle, each executes one statement
    Statements,     \* the statements they execute
    Key,            \* primary keys of a table
    MaxSize,        \* database_connection_pool: connections of the pool
    MaxOutages      \* bound: outages, and attempts to connect that take too long

Monitor == "monitor"
Thread == Worker \cup {Monitor}

\* The statements of the QueryWrapper: every caller that expects a number of
\* affected rows expects one.
AnyStatement == [kind : {"select", "insert", "update", "delete"}, keys : SUBSET Key, expected : {0, 1}]
ASSUME DbAssumption ==
    /\ Monitor \notin Worker /\ MaxSize \in Nat /\ MaxOutages \in Nat
    /\ Statements \subseteq {s \in AnyStatement : IsFiniteSet(s.keys)}

VARIABLES
    engine,         \* DB_TYPE
    up,             \* the database server runs
    table,          \* the keys of the rows of a table
    pool,           \* the idle connections: how many are live, and broken
    queue,          \* threads that wait for a connection, in order
    thread,         \* [Thread -> state of its statement]
    connected,      \* DatabaseStatus.connected
    check,          \* where the thread that checks the connection is
    started,        \* _init_lifecycle is over, requests are served
    disturbed,      \* the check saw the server away or the pool exhausted
    unanswered,     \* threads that lost the connection after their commit
    outages

dbVars == <<engine, up, table, pool, queue, thread, connected, check,
            started, disturbed, unanswered, outages>>

-----------------------------------------------------------------------------
(* Statements of the QueryWrapper                                          *)

\* expected: expected_affected_rows, 0 when the caller does not care.
Statement(kind, keys, expected) == [kind |-> kind, keys |-> keys, expected |-> expected]

SelectOne == Statement("select", {}, 0)
InsertOne(k) == Statement("insert", {k}, 0)
UpdateOne(keys) == Statement("update", keys, 1)
UpdateMany(keys) == Statement("update", keys, 0)
DeleteOne(keys) == Statement("delete", keys, 1)

Errors == {"AlreadyExists", "NoRowsAffected", "TooManyRowsAffected",
           "RuntimeError", "connection pool error", "database error"}

Idle == [pc |-> "idle", stmt |-> SelectOne, conn |-> "none", writes |-> {}, stored |-> {}, answer |-> "none"]

\* The rows that a statement affects, and the table once it has.
Matched(s) == IF s.kind = "insert" THEN s.keys ELSE s.keys \cap table
Written(s, rows) ==
    CASE s.kind = "insert" -> table \cup rows
      [] s.kind = "delete" -> table \ rows
      [] OTHER -> table

AcceptsMore(expected, actual) == IF expected > 0 /\ actual = 0 THEN "NoRowsAffected" ELSE "ok"

check_affected_rows(expected, actual) ==
    IF expected = 0 \/ actual = expected THEN "ok"
    ELSE IF actual > expected THEN "TooManyRowsAffected"
    ELSE IF actual = 0 THEN "NoRowsAffected" ELSE "RuntimeError"

\* What the server, and then the engine, make of the statement.
Outcome(s) ==
    IF s.kind = "insert" /\ s.keys \cap table # {} THEN "AlreadyExists"
    ELSE check_affected_rows(s.expected, Cardinality(Matched(s)))

-----------------------------------------------------------------------------
(* The pool of psycopg                                                     *)

Broken == {t \in Thread : thread[t].conn = "broken"}
Holding == {t \in Thread : thread[t].conn # "none"}
Size == pool.live + pool.broken + Cardinality(Holding)

\* A connection that is returned broken is thrown away.
Released(t) == IF t \in Broken THEN pool ELSE [pool EXCEPT !.live = @ + 1]
Given(state) == [pool EXCEPT ![state] = @ - 1]
NoConnections == [live |-> 0, broken |-> 0]

Ended(th, answer, stored) ==
    [th EXCEPT !.pc = "done", !.conn = "none", !.writes = {}, !.answer = answer, !.stored = stored]
Ends(t, answer, stored) == thread' = [thread EXCEPT ![t] = Ended(@, answer, stored)]

Requests(t, s) ==
    /\ thread' = [thread EXCEPT ![t] = [Idle EXCEPT !.pc = "waiting", !.stmt = s]]
    /\ queue' = Append(queue, t)

\* A worker of the pool makes a connection, when there is none (min_size) or a
\* thread waits for one: PgConnection.connect, and _on_configure_connection.
Connect ==
    /\ engine = "postgres" /\ up
    /\ \/ Size = 0
       \/ Size < MaxSize /\ pool = NoConnections /\ queue # <<>>
    /\ pool' = [pool EXCEPT !.live = @ + 1]
    /\ UNCHANGED <<engine, queue, up, table, thread, connected, check, started,
                   disturbed, unanswered, outages>>

-----------------------------------------------------------------------------
(* PostgresEngine.execute_sql, execute_sql_fetch_one, execute_sql_fetch_all *)

\* A handler of the API, or a task of the Supervisor, executes a statement.
Execute(w, s) ==
    /\ engine = "postgres" /\ started /\ thread[w].pc = "idle"
    /\ Requests(w, s)
    /\ UNCHANGED <<engine, up, table, pool, connected, check, started,
                   disturbed, unanswered, outages>>

\* The pool gives away what it has, without looking whether it still works.
TakeConnection(t) ==
    /\ queue # <<>> /\ t = Head(queue)
    /\ \E state \in {"live", "broken"} :
          /\ pool[state] > 0
          /\ pool' = Given(state)
          /\ thread' = [thread EXCEPT ![t].pc = "taken", ![t].conn = state]
    /\ queue' = Tail(queue)
    /\ UNCHANGED <<engine, up, table, connected, check, started, disturbed,
                   unanswered, outages>>

\* PoolTimeout after 5 seconds. Connecting takes as long only when the server
\* is away or, once in a while, slow.
PoolTimeout(t) ==
    /\ thread[t].pc = "waiting" /\ pool = NoConnections
    /\ IF up /\ Size < MaxSize THEN outages < MaxOutages /\ outages' = outages + 1
                             ELSE UNCHANGED outages
    /\ Ends(t, "connection pool error", {})
    /\ queue' = SelectSeq(queue, LAMBDA u : u # t)
    /\ disturbed' = (disturbed \/ t = Monitor)
    /\ UNCHANGED <<engine, up, table, pool, connected, check, started, unanswered>>

\* cursor.execute waits for the transactions that changed the same rows; a row
\* that is being inserted stands in the way of another insertion only.
Unlocked(t) ==
    \A u \in Thread \ {t} :
        \/ thread[u].writes \cap thread[t].stmt.keys = {}
        \/ thread[u].stmt.kind = "insert" /\ thread[t].stmt.kind # "insert"

\* check_affected_rows raises within the transaction, which rolls it back.
RunQuery(t) ==
    /\ thread[t].pc = "taken" /\ t \notin Broken /\ Unlocked(t)
    /\ LET s == thread[t].stmt IN
       IF Outcome(s) = "ok"
       THEN /\ thread' = [thread EXCEPT ![t].pc = "ran", ![t].writes = Matched(s)]
            /\ UNCHANGED pool
       ELSE /\ Ends(t, Outcome(s), {})
            /\ pool' = Released(t)
    /\ UNCHANGED <<engine, queue, up, table, connected, check, started, disturbed,
                   unanswered, outages>>

\* The end of the block with the connection commits, and returns it.
Commit(t) ==
    /\ thread[t].pc = "ran" /\ t \notin Broken
    /\ table' = Written(thread[t].stmt, thread[t].writes)
    /\ Ends(t, "ok", thread[t].writes)
    /\ pool' = Released(t)
    /\ UNCHANGED <<engine, queue, up, connected, check, started, disturbed, unanswered, outages>>

\* The connection was lost on the way: the server has rolled back.
LoseConnection(t) ==
    /\ thread[t].pc \in {"taken", "ran"} /\ t \in Broken
    /\ Ends(t, "database error", {})
    /\ pool' = Released(t)
    /\ UNCHANGED <<engine, queue, up, table, connected, check, started, disturbed,
                   unanswered, outages>>

-----------------------------------------------------------------------------
(* The server                                                              *)

GoesAway ==
    /\ up /\ outages < MaxOutages
    /\ up' = FALSE /\ outages' = outages + 1
    /\ disturbed' = TRUE
    /\ pool' = [live |-> 0, broken |-> pool.live + pool.broken]

\* What the threads that hold a connection find.
Severed(th) == [t \in Thread |-> IF th[t].conn = "live" THEN [th[t] EXCEPT !.conn = "broken"] ELSE th[t]]

Outage ==
    /\ engine = "postgres" /\ GoesAway
    /\ thread' = Severed(thread)
    /\ UNCHANGED <<engine, queue, table, connected, check, started, unanswered>>

\* The server commits and goes away before it answers.
OutageAtCommit(t) ==
    /\ GoesAway
    /\ thread[t].pc = "ran" /\ t \notin Broken
    /\ table' = Written(thread[t].stmt, thread[t].writes)
    /\ thread' = Severed([thread EXCEPT ![t] = Ended(@, "database error", @.writes)])
    /\ unanswered' = unanswered \cup {t}
    /\ UNCHANGED <<engine, queue, connected, check, started>>

Recover ==
    /\ ~up /\ up' = TRUE
    /\ UNCHANGED <<engine, queue, table, pool, thread, connected, check, started,
                   disturbed, unanswered, outages>>

-----------------------------------------------------------------------------
(* check_connection                                                        *)

\* While Lifecycle starts, a failing check ends the process; what starts
\* instead has an engine of its own.
CheckFails ==
    /\ check' = "sleep"
    /\ IF started THEN connected' = "no" /\ UNCHANGED pool
       ELSE connected' = "unknown" /\ pool' = NoConnections

ServerCheckOnce ==
    /\ check = "sleep"
    /\ disturbed' = ~up
    /\ IF up THEN check' = "pool" /\ UNCHANGED <<pool, connected>>
       ELSE check' = "query" /\ connected' = "no" /\ UNCHANGED pool
    /\ UNCHANGED <<engine, queue, up, table, thread, started, unanswered, outages>>

\* pg_isready: at the start, and then every database_status_refresh_interval.
ServerCheck ==
    /\ check = "sleep"
    /\ disturbed' = ~up
    /\ IF up THEN check' = "pool" /\ UNCHANGED <<pool, connected>> ELSE CheckFails
    /\ UNCHANGED <<engine, queue, up, table, thread, started, unanswered, outages>>

PoolUnchecked ==
    /\ engine = "postgres" /\ check = "pool"
    /\ Requests(Monitor, SelectOne)
    /\ check' = "query"
    /\ UNCHANGED <<engine, up, table, pool, connected, started, disturbed,
                   unanswered, outages>>

\* connection_pool.check() throws away what is idle and broken; then the test
\* query, which goes the way of every statement.
PoolCheck ==
    /\ engine = "postgres" /\ check = "pool"
    /\ pool' = [pool EXCEPT !.broken = 0]
    /\ Requests(Monitor, SelectOne)
    /\ check' = "query"
    /\ UNCHANGED <<engine, up, table, connected, started, disturbed,
                   unanswered, outages>>

QueryChecked ==
    /\ check = "query" /\ thread[Monitor].pc = "done"
    /\ thread' = [thread EXCEPT ![Monitor] = Idle]
    /\ IF thread[Monitor].answer = "ok"
       THEN connected' = "yes" /\ check' = "sleep" /\ started' = TRUE /\ UNCHANGED pool
       ELSE CheckFails /\ UNCHANGED started
    /\ UNCHANGED <<engine, queue, up, table, disturbed, unanswered, outages>>

\* GET /health
Health == IF connected = "yes" THEN 200 ELSE 500

-----------------------------------------------------------------------------
(* SQLiteEngine                                                            *)

\* The connection needs no server: it is there as soon as the engine is.
SqliteCheck ==
    /\ engine = "sqlite" /\ check = "pool"
    /\ connected' = "yes" /\ check' = "sleep" /\ started' = TRUE
    /\ UNCHANGED <<engine, queue, up, table, pool, thread, disturbed, unanswered, outages>>

\* check_affected_rows comes too late: nothing takes the change back.
SqliteExecute(w, s) ==
    /\ engine = "sqlite" /\ started /\ thread[w].pc = "idle"
    /\ LET refused == Outcome(s) = "AlreadyExists" IN
       /\ table' = IF refused THEN table ELSE Written(s, Matched(s))
       /\ thread' = [thread EXCEPT ![w] = [Idle EXCEPT !.pc = "done", !.stmt = s,
                        !.answer = Outcome(s),
                        !.stored = IF refused THEN {} ELSE Matched(s)]]
    /\ UNCHANGED <<engine, queue, up, pool, connected, check, started, disturbed,
                   unanswered, outages>>

-----------------------------------------------------------------------------
DbInit ==
    /\ engine \in {"postgres", "sqlite"}
    /\ up = TRUE
    /\ table \in SUBSET Key
    /\ pool = NoConnections
    /\ queue = <<>> /\ thread = [t \in Thread |-> Idle]
    /\ connected = "unknown" /\ check = "sleep" /\ started = FALSE
    /\ disturbed = FALSE /\ unanswered = {} /\ outages = 0

CheckStep == ServerCheck \/ PoolCheck \/ QueryChecked \/ SqliteCheck
StatementStep(t) == TakeConnection(t) \/ PoolTimeout(t) \/ RunQuery(t) \/ Commit(t) \/ LoseConnection(t)

DbNext ==
    \/ \E w \in Worker, s \in Statements : Execute(w, s) \/ SqliteExecute(w, s)
    \/ \E t \in Thread : StatementStep(t) \/ OutageAtCommit(t)
    \/ Connect \/ CheckStep \/ Outage \/ Recover

\* Threads go on, the pool connects, the check comes again.
DbFairness ==
    /\ \A t \in Thread : WF_dbVars(StatementStep(t))
    /\ WF_dbVars(Connect) /\ WF_dbVars(CheckStep)

DbSpec == DbInit /\ [][DbNext]_dbVars /\ DbFairness

-----------------------------------------------------------------------------
\* What the variables hold; the pool never has more than max_size connections,
\* and only a thread within the block that took a connection holds it.
DbTypeOK ==
    /\ engine \in {"postgres", "sqlite"} /\ up \in BOOLEAN /\ started \in BOOLEAN
    /\ table \subseteq Key
    /\ pool \in [{"live", "broken"} -> 0..MaxSize] /\ Size <= MaxSize
    /\ \A t \in Thread : thread[t].answer \in Errors \cup {"none", "ok"}
    /\ \A t \in Thread : t \in Holding <=> thread[t].pc \in {"taken", "ran"}
    /\ connected \in {"unknown", "yes", "no"} /\ check \in {"sleep", "pool", "query"}
    /\ disturbed \in BOOLEAN /\ unanswered \subseteq Thread /\ outages \in 0..MaxOutages

\* An answer tells what became of the statement: a statement that had to affect
\* one row and returned has changed one row, and a statement that raised has
\* changed nothing. There are two exceptions. The database may go away between
\* the commit and its answer. And SQLite keeps the changes of a statement that
\* affected too many rows (execute_sql of the engines, check_affected_rows).
AnswerFitsEffect ==
    \A w \in Worker :
        thread[w].pc = "done" =>
            IF thread[w].answer = "ok"
            THEN thread[w].stmt.expected = 1 => Cardinality(thread[w].stored) = 1
            ELSE \/ thread[w].stored = {}
                 \/ w \in unanswered
                 \/ engine = "sqlite" /\ thread[w].answer = "TooManyRowsAffected"

\* Lifecycle begins to report that it is unhealthy only when the database went
\* away during the check or no connection came free for the test query: the
\* connections that a restart of the database left broken in the pool do not
\* make a check fail (check_connection checks the pool before the query).
UnhealthyHasCause == [][Health = 200 /\ Health' = 500 => disturbed']_dbVars

\* Once the database stays up, a Lifecycle that runs becomes healthy, and stays
\* so when no more statements occupy the pool (monitor_database_status).
HealthRecovers == <>[](started /\ up) => <>[](Health = 200)
=============================================================================
