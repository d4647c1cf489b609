---------------------------- MODULE TaskService ----------------------------
(***************************************************************************)
(* What the asynchronous call API promises the clients of one task         *)
(* (docs/user/async-job-calls.md): a task is accepted once, the job is     *)
(* called for it at least once and may be called again, and a client that  *)
(* asks long enough gets one final answer, which is a reply the job really *)
(* gave, a failure, or the news that the task is gone.                     *)
(***************************************************************************)
EXTENDS Naturals

CONSTANTS Client, MaxRuns

VARIABLES
    accepted,   \* the task id has been given out
    replies,    \* the executions that got a reply from the job
    answer      \* the last answer of each client

svars == <<accepted, replies, answer>>

NoAnswerYet == [kind |-> "none", run |-> 0]
Pending(c) == answer[c].kind \in {"none", "again"}
FinalAnswer == {[kind |-> "ok", run |-> k] : k \in replies}
               \cup {[kind |-> "failed", run |-> k] : k \in 0..MaxRuns}
               \cup {[kind |-> "gone", run |-> 0]}

Init ==
    /\ accepted = FALSE
    /\ replies = {}
    /\ answer = [c \in Client |-> NoAnswerYet]

\* 201 Created
Accept ==
    /\ accepted' = TRUE
    /\ UNCHANGED <<replies, answer>>

\* An execution gets its reply.
JobReplies(k) ==
    /\ accepted
    /\ replies' = replies \cup {k}
    /\ UNCHANGED <<accepted, answer>>

\* A client gets its final answer.
Finish(c) ==
    /\ accepted /\ Pending(c)
    /\ \E a \in FinalAnswer : answer' = [answer EXCEPT ![c] = a]
    /\ UNCHANGED <<accepted, replies>>

\* Clients are told to ask again; one crash may hit several.
AskAgain ==
    /\ accepted
    /\ \E S \in SUBSET {c \in Client : Pending(c)} :
         answer' = [c \in Client |-> IF c \in S
                                    THEN [kind |-> "again", run |-> 0]
                                    ELSE answer[c]]
    /\ UNCHANGED <<accepted, replies>>

Next ==
    \/ Accept
    \/ \E k \in 1..MaxRuns : JobReplies(k)
    \/ \E c \in Client : Finish(c)
    \/ AskAgain

Spec == Init /\ [][Next]_svars

=============================================================================
