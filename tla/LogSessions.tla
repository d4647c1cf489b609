----------------------------- MODULE LogSessions -----------------------------
(***************************************************************************)
(* Lifecycle's Socket.IO server for following the logs of jobs.  Sessions  *)
(* are kept in two dictionaries, by client and by session, and in the logs *)
(* streamer of the infrastructure (external).  Event handlers run in       *)
(* threads of their own, also those of one client.                         *)
(***************************************************************************)
EXTENDS Naturals, FiniteSets

CONSTANTS
    Client,         \* client ids: a consumer that reconnects gets a new one
    LogJob,         \* jobs (with resolved versions)
    Thread,         \* threads of handlers that may run at the same time
    MaxEvents,      \* bound: events handled
    MaxStreamErrors \* bound: errors of the streamer

VARIABLES
    connected,      \* [Client -> {"no", "yes", "gone"}]
    byClient,       \* log_sessions_by_client: [Client -> session or None]
    byId,           \* DOMAIN of log_sessions_by_id
    streams,        \* sessions the logs streamers have open
    thread,         \* [Thread -> ThreadState]
    events, streamErrors,
    overlapped,     \* history: clients two of whose handlers ran at once
    stuck           \* history: clients whose streamer or handler raised

logVars == <<connected, byClient, byId, streams, thread, events, streamErrors,
             overlapped, stuck>>

-----------------------------------------------------------------------------
\* session_id is made of the client, the job and its version.
Session == Client \X LogJob
None == <<>>

ASSUME LogAssumption == None \notin Client /\ MaxEvents \in Nat /\ MaxStreamErrors \in Nat

ThreadState ==
    [pc : {"idle", "subscribe", "retrieve", "put", "index", "create",
           "disconnect", "close", "unmap", "unindex"},
     session : Session \cup {None}, client : Client \cup {None}]
IdleThread == [pc |-> "idle", session |-> None, client |-> None]

LogInit ==
    /\ connected = [c \in Client |-> "no"]
    /\ byClient = [c \in Client |-> None] /\ byId = {} /\ streams = {}
    /\ thread = [t \in Thread |-> IdleThread]
    /\ events = 0 /\ streamErrors = 0 /\ overlapped = {} /\ stuck = {}

HandlersOf(c) == {t \in Thread : thread[t].client = c}
Step(t, pc) == thread' = [thread EXCEPT ![t].pc = pc]
Finish(t) == thread' = [thread EXCEPT ![t] = IdleThread]

\* A thread takes the event of a client.
Handle(t, c, pc, session) ==
    /\ thread[t].pc = "idle" /\ events < MaxEvents /\ events' = events + 1
    /\ thread' = [thread EXCEPT ![t] =
                     [pc |-> pc, session |-> session, client |-> c]]
    /\ overlapped' = IF HandlersOf(c) = {} THEN overlapped
                     ELSE overlapped \cup {c}
    /\ UNCHANGED <<byClient, byId, streams, streamErrors, stuck>>

\* connect
ClientConnects(c) ==
    /\ connected[c] = "no"
    /\ connected' = [connected EXCEPT ![c] = "yes"]
    /\ UNCHANGED <<byClient, byId, streams, thread, events, streamErrors,
                   overlapped, stuck>>

\* LogsConsumer calls subscribe_for_logs when it has connected.
Subscribe(t, c, j) ==
    /\ connected[c] = "yes"
    /\ Handle(t, c, "subscribe", <<c, j>>)
    /\ UNCHANGED connected

\* The connection ends, or the server ends it (disconnect_all).
ClientDisconnects(t, c) ==
    /\ connected[c] = "yes"
    /\ connected' = [connected EXCEPT ![c] = "gone"]
    /\ Handle(t, c, "disconnect", None)

-----------------------------------------------------------------------------

\* subscribe_for_logs: a client that has a session keeps it, whichever job it
\* asks for.
FindSession(t) ==
    /\ thread[t].pc = "subscribe"
    /\ IF byClient[thread[t].client] # None THEN Finish(t)
                                            ELSE Step(t, "retrieve")
    /\ UNCHANGED <<connected, byClient, byId, streams, events, streamErrors,
                   overlapped, stuck>>

\* open_logs_session: the job and its infrastructure are looked up; there may
\* be none.
Retrieve(t) ==
    /\ thread[t].pc = "retrieve"
    /\ Step(t, "put") \/ Finish(t)
    /\ UNCHANGED <<connected, byClient, byId, streams, events, streamErrors,
                   overlapped, stuck>>

\* The session is entered by its client.
PutByClient(t) ==
    /\ thread[t].pc = "put"
    /\ byClient' = [byClient EXCEPT ![thread[t].client] = thread[t].session]
    /\ Step(t, "index")
    /\ UNCHANGED <<connected, byId, streams, events, streamErrors, overlapped,
                   stuck>>

\* The session is entered by its id.
PutById(t) ==
    /\ thread[t].pc = "index"
    /\ byId' = byId \cup {thread[t].session}
    /\ Step(t, "create")
    /\ UNCHANGED <<connected, byClient, streams, events, streamErrors,
                   overlapped, stuck>>

\* The streamer raises: the session stays in both dictionaries.
StreamerRaises(t, opened) ==
    /\ streamErrors < MaxStreamErrors /\ streamErrors' = streamErrors + 1
    /\ stuck' = stuck \cup {thread[t].client}
    /\ streams' = opened
    /\ Finish(t)
    /\ UNCHANGED <<connected, byClient, byId, events, overlapped>>

\* logs_streamer.create_session
CreateSession(t) ==
    /\ thread[t].pc = "create"
    /\ LET opened == streams \cup {thread[t].session} IN
       \/ /\ streams' = opened /\ Finish(t)
          /\ UNCHANGED <<connected, byClient, byId, events, streamErrors,
                         overlapped, stuck>>
       \/ StreamerRaises(t, streams) \/ StreamerRaises(t, opened)

-----------------------------------------------------------------------------
\* Mutant: sessions are left to the streamer.
IgnoreClosing(t) ==
    /\ thread[t].pc = "disconnect"
    /\ Finish(t)
    /\ UNCHANGED <<connected, byClient, byId, streams, events, streamErrors,
                   overlapped, stuck>>

\* disconnect: the session of the client, if there is one.
FindClosing(t) ==
    LET session == byClient[thread[t].client] IN
    /\ thread[t].pc = "disconnect"
    /\ IF session = None THEN Finish(t)
       ELSE thread' = [thread EXCEPT ![t].pc = "close",
                                     ![t].session = session]
    /\ UNCHANGED <<connected, byClient, byId, streams, events, streamErrors,
                   overlapped, stuck>>

\* close_logs_session
CloseSession(t) ==
    /\ thread[t].pc = "close"
    /\ \/ /\ streams' = streams \ {thread[t].session}
          /\ Step(t, "unmap")
          /\ UNCHANGED <<connected, byClient, byId, events, streamErrors,
                         overlapped, stuck>>
       \/ StreamerRaises(t, streams)

\* The first del.
DeleteByClient(t) ==
    /\ thread[t].pc = "unmap"
    /\ byClient' = [byClient EXCEPT ![thread[t].client] = None]
    /\ Step(t, "unindex")
    /\ UNCHANGED <<connected, byId, streams, events, streamErrors, overlapped,
                   stuck>>

\* The second del raises if the session is not there yet.
DeleteById(t) ==
    /\ thread[t].pc = "unindex"
    /\ byId' = byId \ {thread[t].session}
    /\ stuck' = IF thread[t].session \in byId THEN stuck
                ELSE stuck \cup {thread[t].client}
    /\ Finish(t)
    /\ UNCHANGED <<connected, byClient, streams, events, streamErrors,
                   overlapped>>

-----------------------------------------------------------------------------
HandlerStep(t) ==
    \/ FindSession(t) \/ Retrieve(t) \/ PutByClient(t) \/ PutById(t)
    \/ CreateSession(t) \/ FindClosing(t) \/ CloseSession(t)
    \/ DeleteByClient(t) \/ DeleteById(t)

LogNext ==
    \/ \E c \in Client : ClientConnects(c)
    \/ \E t \in Thread :
          \/ HandlerStep(t)
          \/ \E c \in Client :
                \/ ClientDisconnects(t, c)
                \/ \E j \in LogJob : Subscribe(t, c, j)

LogSpec == LogInit /\ [][LogNext]_logVars

-----------------------------------------------------------------------------
\* Type invariant of the dictionaries, the streams and the handlers.
LogTypeOK ==
    /\ connected \in [Client -> {"no", "yes", "gone"}]
    /\ byClient \in [Client -> Session \cup {None}] /\ byId \subseteq Session
    /\ streams \subseteq Session
    /\ thread \in [Thread -> ThreadState]
    /\ events \in 0..MaxEvents /\ streamErrors \in 0..MaxStreamErrors
    /\ overlapped \subseteq Client /\ stuck \subseteq Client

\* Nothing is being done for the client.
Quiet(c) == HandlersOf(c) = {}
SessionsOf(c) == {s \in byId \cup streams : s[1] = c}

\* Between the events of a client the two dictionaries agree on its one session,
\* and lines that are streamed find it, unless two handlers of the client ran at
\* the same time (a second subscription, or a disconnect during the first) or
\* one of them raised.
DictionariesAgree ==
    \A c \in Client : Quiet(c) /\ c \notin overlapped \cup stuck
        => SessionsOf(c) = IF byClient[c] = None THEN {} ELSE {byClient[c]}

\* A client that has gone leaves no stream and no session behind, with the same
\* exceptions: a session that a subscription opened for a client already gone is
\* never closed.
NothingLeftBehind ==
    \A c \in Client : connected[c] = "gone" /\ Quiet(c)
        => SessionsOf(c) = {} \/ c \in overlapped \cup stuck

\* Sessions are opened and closed as a whole (open_logs_session, disconnect).
SessionsAreClosed == DictionariesAgree /\ NothingLeftBehind
=============================================================================
