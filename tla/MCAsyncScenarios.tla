------------------------- MODULE MCAsyncScenarios --------------------------
(***************************************************************************)
(* Instances of AsyncTask in which a behaviour follows one of several      *)
(* scenarios, each with the bounds that it can afford.                     *)
(***************************************************************************)
EXTENDS MCAsyncTask

VARIABLE scenario

Follow == Next /\ UNCHANGED scenario

\* Two clients and one crash.
ClientsInit == Init /\ scenario = "clients"
ClientsSpec == ClientsInit /\ [][Follow]_<<vars, scenario>>

\* Crashes, with two faults and three runs; or with one fault and two runs
\* signals, requests for the status and addresses that are discovered late.
WithinFaults ==
    \/ /\ scenario = "crashes" /\ known = Replica
       /\ \A r \in Replica : proc[r] # "stopping"
       /\ \A c \in Client : req[c].kind = "poll"
    \/ scenario = "signals" /\ faults <= 1 /\ nrun <= 2

FaultsInit == Init /\ scenario \in {"crashes", "signals"}
FaultsSpec == FaultsInit /\ [][Follow]_<<vars, scenario>>

\* A task that is answered in time by two replicas, or one that outlives
\* cleanUpTimeout on the only replica which gets requests, where no call of the
\* job is worth a retry. What needs a third run of an expired task is left out:
\* the fairness of its handler rules such a behaviour out altogether.
Idling(r) ==
    /\ proc[r] = "up" /\ local[r] = NoRec
    /\ \A c \in Client : req[c].at # r /\ req[c].site # r
    /\ \A k \in Run : run[k].at # r

WithinLife ==
    \/ scenario = "answers" /\ age = "young"
    \/ /\ scenario = "expiry" /\ nrun <= 2
       /\ \A r \in Replica : Idling(r) \/ r = CHOOSE s \in Replica : TRUE
       /\ \A k \in Run : run[k].pc # "sleep"

LifeInit == Init /\ scenario \in {"answers", "expiry"}
LifeSpec ==
    /\ LifeInit /\ [][Follow /\ WithinLife']_<<vars, scenario>>
    /\ Fairness /\ CleanUpFairness
=============================================================================
