---------------------------- MODULE RemoteGateway ----------------------------
(***************************************************************************)
(* Two Pubs in remote gateway mode: the main Pub beside Lifecycle and the  *)
(* remote Pub beside the jobs of one gateway host.  The main Pub forwards  *)
(* calls of remote jobs over HTTP and opens a websocket through which the  *)
(* remote Pub has every call authorised by Lifecycle.  masterWsConnection, *)
(* remoteConnections and the websocket itself are shared by all goroutines *)
(* without a lock; messages carry no identifier and no read has a timeout. *)
(***************************************************************************)
EXTENDS Naturals, Sequences, FiniteSets

CONSTANTS
    Call,           \* calls of jobs on the remote infrastructure
    MaxConns,       \* bound: websocket connections ever opened
    MaxFaults       \* bound: broken connections and restarts

ASSUME GatewayAssumption ==
    /\ IsFiniteSet(Call) /\ {"none", "read", "over"} \cap Call = {}
    /\ MaxConns \in Nat \ {0} /\ MaxFaults \in Nat

VARIABLES
    entry,          \* remoteConnections[gatewayHost] in the main Pub, 0 if nil
    current,        \* masterWsConnection in the remote Pub, 0 if nil
    conn,           \* [Conns -> ConnState]
    call,           \* [Call -> CallState]
    faults,         \* faults so far
    shared,         \* history: calls that used a connection another call used
    raced,          \* history: two calls were dialling at the same time
    lost            \* history: requests the handler could not answer

gatewayVars == <<entry, current, conn, call, faults, shared, raced, lost>>

-----------------------------------------------------------------------------
Conns == 1..MaxConns
NoConn == 0

Verdict == {"allowed", "denied", "missing", "error"}
Result == {"none", "served", "denied", "failed"}

\* Responses are <<call, verdict>>: the call they answer is not on the wire.
Response == Call \X Verdict
NoResponse == <<>>

\* made: not opened, upgraded by the remote Pub, stored in masterWsConnection
\* once.  main and remote tell whether that end is open.  handler is the
\* goroutine handleGatewayWebsocketCalls and what it is serving.
ConnState ==
    [made : {"no", "upgraded", "adopted"}, main : BOOLEAN, remote : BOOLEAN,
     reqs : Seq(Call), resps : Seq(Response),
     handler : {"none", "read", "over"} \cup Call]
Unopened ==
    [made |-> "no", main |-> FALSE, remote |-> FALSE, reqs |-> <<>>,
     resps |-> <<>>, handler |-> "none"]

CallState ==
    [pc : {"idle", "route", "dial", "dialled", "remote", "write", "writing",
           "read", "job", "done"},
     conn : Conns \cup {NoConn}, got : Response \cup {NoResponse},
     result : Result]
NewCall == [pc |-> "idle", conn |-> NoConn, got |-> NoResponse,
            result |-> "none"]

GatewayInit ==
    /\ entry = NoConn /\ current = NoConn
    /\ conn = [k \in Conns |-> Unopened]
    /\ call = [c \in Call |-> NewCall]
    /\ faults = 0 /\ shared = {} /\ raced = FALSE /\ lost = {}

Goto(c, pc) == call' = [call EXCEPT ![c].pc = pc]
End(c, result) ==
    call' = [call EXCEPT ![c].pc = "done", ![c].result = result]

\* How a call that is not allowed ends.
Unserved(verdict) == IF verdict = "denied" THEN "denied" ELSE "failed"

Usable(k) == conn[k].main /\ conn[k].remote
Using(k) == {c \in Call : call[c].conn = k
                          /\ call[c].pc \in {"write", "writing", "read"}}
Dialling == {c \in Call : call[c].pc \in {"dial", "dialled"}}

-----------------------------------------------------------------------------
(* The main Pub *)

\* proxyEndpoint: Lifecycle decides; a call of a remote job is forwarded.
Authorize(c, verdict) ==
    /\ call[c].pc = "idle"
    /\ IF verdict = "allowed" THEN Goto(c, "route")
                              ELSE End(c, Unserved(verdict))
    /\ UNCHANGED <<entry, current, conn, faults, shared, raced, lost>>

\* handleMasterProxyRequest: the first call connects before it is forwarded.
Route(c) ==
    /\ call[c].pc = "route"
    /\ Goto(c, IF entry = NoConn THEN "dial" ELSE "remote")
    /\ raced' = (raced \/ (entry = NoConn /\ Dialling # {}))
    /\ UNCHANGED <<entry, current, conn, faults, shared, lost>>

\* connectToRemoteWebsocket fails before the remote Pub is reached.
DialFails(c) ==
    /\ call[c].pc = "dial"
    /\ End(c, "failed")
    /\ UNCHANGED <<entry, current, conn, faults, shared, raced, lost>>

\* connectToRemoteWebsocket: the connection is stored and gets its handler.
Store(c) ==
    /\ call[c].pc = "dialled"
    /\ entry' = call[c].conn
    /\ conn' = [conn EXCEPT ![call[c].conn].handler = "read"]
    /\ Goto(c, "remote")
    /\ UNCHANGED <<current, faults, shared, raced, lost>>

\* handleGatewayWebsocketCall: a request is read.
Receive(k) ==
    /\ conn[k].handler = "read" /\ conn[k].main /\ conn[k].reqs # <<>>
    /\ conn' = [conn EXCEPT ![k].handler = Head(conn[k].reqs),
                          ![k].reqs = Tail(@)]
    /\ UNCHANGED <<entry, current, call, faults, shared, raced, lost>>

\* The answer of makeMasterLifecycleAuthCall goes back, if the connection still
\* takes it.  A request that cannot be decoded or an answer that cannot be
\* encoded ends the round without an answer.
Answer(k, verdict) ==
    LET c == conn[k].handler IN
    /\ c \in Call
    /\ \/ /\ conn' = [conn EXCEPT ![k].handler = "read",
                          ![k].resps = IF Usable(k)
                                       THEN Append(@, <<c, verdict>>) ELSE @]
          /\ UNCHANGED lost
       \/ /\ conn' = [conn EXCEPT ![k].handler = "read"]
          /\ lost' = lost \cup {c}
    /\ UNCHANGED <<entry, current, call, faults, shared, raced>>

\* A read of the handler fails.
ReadFails(k) ==
    /\ conn[k].handler = "read"
    /\ conn[k].main => ~conn[k].remote /\ conn[k].reqs = <<>>

\* Mutant: the entry of the map is left to the next call.
HandlerEndsKeepingEntry(k) ==
    /\ ReadFails(k)
    /\ conn' = [conn EXCEPT ![k].handler = "over", ![k].main = FALSE]
    /\ UNCHANGED <<entry, current, call, faults, shared, raced, lost>>

\* handleGatewayWebsocketCalls leaves its loop, closes the connection and
\* clears the map entry, whichever connection is in it.
HandlerEnds(k) ==
    /\ ReadFails(k)
    /\ conn' = [conn EXCEPT ![k].handler = "over", ![k].main = FALSE]
    /\ entry' = NoConn
    /\ UNCHANGED <<current, call, faults, shared, raced, lost>>

-----------------------------------------------------------------------------
(* The remote Pub *)

\* The connection that masterWsConnection holds is closed.
CloseCurrent ==
    IF current = NoConn THEN conn ELSE [conn EXCEPT ![current].remote = FALSE]

\* openRemoteWebsocket closes the current connection, then checks the token,
\* then upgrades.
Open(c) ==
    /\ call[c].pc = "dial"
    /\ \/ /\ conn' = CloseCurrent
          /\ End(c, "failed")
       \/ \E k \in Conns :
          /\ conn[k].made = "no" /\ \A j \in 1..(k - 1) : conn[j].made # "no"
          /\ conn' = [CloseCurrent EXCEPT ![k].made = "upgraded",
                          ![k].main = TRUE, ![k].remote = TRUE]
          /\ call' = [call EXCEPT ![c].pc = "dialled", ![c].conn = k]
    /\ UNCHANGED <<entry, current, faults, shared, raced, lost>>

\* The end of openRemoteWebsocket, while the main Pub may already go on.
Adopt(k) ==
    /\ conn[k].made = "upgraded" /\ conn[k].remote
    /\ current' = k
    /\ conn' = [conn EXCEPT ![k].made = "adopted"]
    /\ UNCHANGED <<entry, call, faults, shared, raced, lost>>

\* proxyEndpoint of the remote Pub, called by a client in the remote network.
CallRemote(c) ==
    /\ call[c].pc = "idle"
    /\ Goto(c, "remote")
    /\ UNCHANGED <<entry, current, conn, faults, shared, raced, lost>>

\* remoteForwardEndpoint: with the gateway's token the call goes to the job.
Forward(c) ==
    /\ call[c].pc = "idle"
    /\ \/ Goto(c, "job")
       \/ End(c, "denied")
       \/ End(c, "failed")
    /\ UNCHANGED <<entry, current, conn, faults, shared, raced, lost>>

\* NewRemoteLifecycleClient takes the connection of the moment.
NewClient(c) ==
    /\ call[c].pc = "remote"
    /\ IF current = NoConn
       THEN End(c, "failed") /\ UNCHANGED shared
       ELSE /\ call' = [call EXCEPT ![c].pc = "write", ![c].conn = current]
            /\ shared' = IF Using(current) = {} THEN shared
                         ELSE shared \cup Using(current) \cup {c}
    /\ UNCHANGED <<entry, current, conn, faults, raced, lost>>

\* AuthorizeCaller starts to write; a second writer at that moment panics.
Write(c) ==
    LET k == call[c].conn IN
    /\ call[c].pc = "write"
    /\ IF conn[k].remote /\ \A d \in Using(k) : call[d].pc # "writing"
       THEN Goto(c, "writing") ELSE End(c, "failed")
    /\ UNCHANGED <<entry, current, conn, faults, shared, raced, lost>>

\* The request is written; the peer may be gone without the writer knowing.
Written(c) ==
    LET k == call[c].conn IN
    /\ call[c].pc = "writing"
    /\ IF conn[k].remote
       THEN Goto(c, "read") /\ conn' = [conn EXCEPT ![k].reqs =
                                    IF conn[k].main THEN Append(@, c) ELSE @]
       ELSE End(c, "failed") /\ UNCHANGED conn
    /\ UNCHANGED <<entry, current, faults, shared, raced, lost>>

\* What AuthorizeCaller makes of a response, whosever it is.
Accept(c, response) ==
    call' = [call EXCEPT ![c].got = response,
                 ![c].pc = IF response[2] = "allowed" THEN "job" ELSE "done",
                 ![c].result = IF response[2] = "allowed" THEN "none"
                               ELSE Unserved(response[2])]

\* Mutant: a read that gives up leaves the answer in the connection.
ReadOrGiveUp(c) ==
    LET k == call[c].conn IN
    /\ call[c].pc = "read"
    /\ \/ /\ conn[k].remote /\ conn[k].resps # <<>>
          /\ Accept(c, Head(conn[k].resps))
          /\ conn' = [conn EXCEPT ![k].resps = Tail(@)]
       \/ End(c, "failed") /\ UNCHANGED conn
    /\ UNCHANGED <<entry, current, faults, shared, raced, lost>>

\* Mutant: an error of the connection is not returned.
ReadIgnoringErrors(c) ==
    LET k == call[c].conn IN
    /\ call[c].pc = "read"
    /\ conn[k].remote /\ conn[k].resps # <<>>
    /\ Accept(c, Head(conn[k].resps))
    /\ conn' = [conn EXCEPT ![k].resps = Tail(@)]
    /\ UNCHANGED <<entry, current, faults, shared, raced, lost>>

\* AuthorizeCaller reads the next response of the connection, or an error.
Read(c) ==
    LET k == call[c].conn IN
    /\ call[c].pc = "read"
    /\ \/ /\ conn[k].remote /\ conn[k].resps # <<>>
          /\ Accept(c, Head(conn[k].resps))
          /\ conn' = [conn EXCEPT ![k].resps = Tail(@)]
       \/ /\ conn[k].remote => ~conn[k].main /\ conn[k].resps = <<>>
          /\ End(c, "failed") /\ UNCHANGED conn
    /\ UNCHANGED <<entry, current, faults, shared, raced, lost>>

\* ServeReverseProxy: the job answers, or the error handler does.
ServeReverseProxy(c) ==
    /\ call[c].pc = "job"
    /\ \E result \in {"served", "failed"} : End(c, result)
    /\ UNCHANGED <<entry, current, conn, faults, shared, raced, lost>>

-----------------------------------------------------------------------------
(* Faults *)

Cut(pcs) ==
    call' = [c \in Call |-> IF call[c].pc \in pcs
                            THEN [call[c] EXCEPT !.pc = "done", !.result = "failed"]
                            ELSE call[c]]

Break(k) ==
    /\ faults < MaxFaults /\ faults' = faults + 1
    /\ Usable(k)
    /\ conn' = [conn EXCEPT ![k].main = FALSE, ![k].remote = FALSE]
    /\ UNCHANGED <<entry, current, call, shared, raced, lost>>

\* Also what the Go runtime does to concurrent writes of remoteConnections.
MainRestarts ==
    /\ faults < MaxFaults /\ faults' = faults + 1
    /\ entry' = NoConn
    /\ conn' = [k \in Conns |-> [conn[k] EXCEPT !.main = FALSE,
                    !.handler = IF @ = "none" THEN @ ELSE "over"]]
    /\ Cut({"route", "dial", "dialled"})
    /\ UNCHANGED <<current, shared, raced, lost>>

RemoteRestarts ==
    /\ faults < MaxFaults /\ faults' = faults + 1
    /\ current' = NoConn
    /\ conn' = [k \in Conns |-> [conn[k] EXCEPT !.remote = FALSE]]
    /\ Cut({"remote", "write", "writing", "read", "job"})
    /\ UNCHANGED <<entry, shared, raced, lost>>

-----------------------------------------------------------------------------
MainPub(c) == Route(c) \/ Store(c)
RemotePub(c) ==
    \/ NewClient(c) \/ Write(c) \/ Written(c) \/ Read(c)
    \/ ServeReverseProxy(c)
Handler(k) ==
    \/ Receive(k) \/ HandlerEnds(k)
    \/ \E verdict \in Verdict : Answer(k, verdict)

GatewayNext ==
    \/ \E c \in Call :
          \/ \E verdict \in Verdict : Authorize(c, verdict)
          \/ MainPub(c) \/ DialFails(c) \/ Open(c)
          \/ CallRemote(c) \/ Forward(c) \/ RemotePub(c)
    \/ \E k \in Conns : Handler(k) \/ Adopt(k) \/ Break(k)
    \/ MainRestarts \/ RemoteRestarts

\* Goroutines run and the network moves, unless it breaks; nobody has to call.
GatewayFairness ==
    /\ \A c \in Call : WF_gatewayVars(MainPub(c)) /\ WF_gatewayVars(RemotePub(c))
    /\ \A k \in Conns : WF_gatewayVars(Handler(k)) /\ WF_gatewayVars(Adopt(k))

GatewaySpec == GatewayInit /\ [][GatewayNext]_gatewayVars /\ GatewayFairness

-----------------------------------------------------------------------------
\* Type invariant of both Pubs, the connections and the calls.
GatewayTypeOK ==
    /\ entry \in Conns \cup {NoConn} /\ current \in Conns \cup {NoConn}
    /\ conn \in [Conns -> ConnState]
    /\ call \in [Call -> CallState]
    /\ faults \in 0..MaxFaults
    /\ shared \subseteq Call /\ raced \in BOOLEAN /\ lost \subseteq Call

\* A call is decided by the answer to its own request, unless it used the
\* websocket at the same time as another call (AuthorizeCaller writes and reads
\* without a lock or an identifier).
OwnAnswerUnlessShared ==
    \A c \in Call : call[c].got # NoResponse /\ call[c].got[1] # c
                        => c \in shared

\* As long as remoteConnections holds a connection some goroutine reads it: the
\* main Pub never takes a gateway for connected that nobody serves, however
\* handlers of older connections end.
EntryIsServed ==
    entry # NoConn => conn[entry].handler \in {"read"} \cup Call

\* The main Pub forgets a connection that works (and will replace it, failing
\* the calls that use it) only after two calls dialled at the same time.
ForgottenOnlyAfterRace ==
    entry = NoConn /\ current # NoConn /\ Usable(current)
        => raced \/ \E c \in Call : call[c].pc = "dialled"
                                    /\ call[c].conn = current

\* A call that waits for Lifecycle's verdict gets one or fails, unless an answer
\* was never sent; broken connections and restarts do not leave it waiting.
WaitEnds ==
    \A c \in Call : call[c].pc = "read" ~> call[c].pc # "read" \/ lost # {}

\* The main Pub keeps hold of its connection: what remoteConnections names is
\* served, and what works is not forgotten (connectToRemoteWebsocket,
\* handleGatewayWebsocketCalls).
ConnectionIsKept == EntryIsServed /\ ForgottenOnlyAfterRace
=============================================================================
