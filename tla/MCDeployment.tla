---------------------------- MODULE MCDeployment ----------------------------
(***************************************************************************)
(* Instances of Deployment in which a behaviour follows one of four        *)
(* scenarios, each with the bounds that it can afford: requests of every   *)
(* kind, some of them slow; manifests that are edited between and during   *)
(* deployments; deployments and moves with one fault; and passes of        *)
(* sync_registry_jobs over both targets.                                   *)
(***************************************************************************)
EXTENDS Deployment

VARIABLE scenario

Kinds ==
    [requests |-> Kind, edits |-> {"deploy", "redeploy", "move"},
     faults |-> {"deploy", "move"}, sync |-> {"deploy", "redeploy", "move"}]

\* An hour without an update is waited for only where the Supervisor restarts.
Delays(d) ==
    \/ scenario = "requests" /\ dep[d].age = "fresh"
    \/ scenario = "faults"

ScenarioNext ==
    \/ \E kind \in Kinds[scenario], i \in Infra : RequestDeploy(kind, i) \/ RequestAgain(kind, i)
    \/ RequestDelete \/ DeleteStep
    \/ \E d \in Dep : ThreadStep(d) \/ (Delays(d) /\ Slow(d))
    \/ scenario = "sync" /\ (SyncStart \/ SyncStep)
    \/ scenario = "edits" /\ EditManifest
    \/ scenario = "faults" /\ (Crash \/ StartupCheck \/ \E i \in Infra : Lose(i))

ScenarioInit == Init /\ scenario \in DOMAIN Kinds
ScenarioSpec == ScenarioInit /\ [][ScenarioNext /\ UNCHANGED scenario]_<<vars, scenario>>

\* Faults only where they are the scenario; at most two requests next to the
\* passes of sync_registry_jobs.
Within ==
    /\ scenario = "faults" \/ faults = 0
    /\ scenario = "sync" => ndep + ndel <= 2
=============================================================================
