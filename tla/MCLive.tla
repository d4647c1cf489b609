------------------------------- MODULE MCLive -------------------------------
(***************************************************************************)
(* The long-lived connections of Racetrack: the websocket between two      *)
(* Pubs, the event stream of Lifecycle and its logs. They share neither    *)
(* state nor threads, so a behaviour of the run exercises one of them      *)
(* while the others stay as they started.                                  *)
(***************************************************************************)
EXTENDS RemoteGateway, EventStream, LogSessions

VARIABLE part       \* the connections that are exercised

vars == <<gatewayVars, eventVars, logVars, part>>

Init == GatewayInit /\ EventInit /\ LogInit /\ part \in {"gateway", "events", "logs"}

Next ==
    \/ part = "gateway" /\ GatewayNext /\ UNCHANGED <<eventVars, logVars, part>>
    \/ part = "events" /\ EventNext /\ UNCHANGED <<gatewayVars, logVars, part>>
    \/ part = "logs" /\ LogNext /\ UNCHANGED <<gatewayVars, eventVars, part>>

\* Nothing that has to happen is enabled in a part as it starts.
Spec == Init /\ [][Next]_vars /\ GatewayFairness /\ EventFairness
=============================================================================
