----------------------------- MODULE Portfolio -----------------------------
(***************************************************************************)
(* One family of jobs as its callers and its maintainers see it: the       *)
(* version an alias resolves to (job/models_registry.py), the endpoints    *)
(* anyone may call (job/public_endpoints.py) and the advice of what to     *)
(* remove (job/portfolio.py). A job is absent, or the record of its status,*)
(* the days since it was deployed and called last, the endpoint its        *)
(* manifest declares and the record of the request to make it public.      *)
(***************************************************************************)
EXTENDS Versions

CONSTANTS Catalogue,    \* versions that get deployed
          Patterns,     \* patterns of versions that callers use
          Declaring,    \* those whose manifest may declare a public endpoint
          MaxDays       \* days that pass between two looks at the family

ASSUME PortfolioAssumption == Catalogue \subseteq Version /\ MaxDays \in Nat

VARIABLES
    jobs,       \* version -> record of the job, or NoJob
    deploying,  \* deployments that wait for their job to start: the version, and
                \* whether the manifest they deploy declares the endpoint
    replaced    \* history: versions whose record got a manifest that declares
                \* something else

portfolioVars == <<jobs, deploying, replaced>>

NoJob == [status |-> "absent"]
Never == MaxDays + 1
Statuses == {"starting", "running", "error", "lost"}
Job == [status : Statuses, age : {0, MaxDays}, idle : {0, MaxDays, Never},
        declared : BOOLEAN, endpoint : {"none", "requested", "active"}]

\* Type invariant of the records.
PortfolioTypeOK ==
    /\ jobs \in [Catalogue -> Job \cup {NoJob}]
    /\ deploying \subseteq Catalogue \X BOOLEAN /\ replaced \subseteq Catalogue

Known == {v \in Catalogue : jobs[v] # NoJob}
HasStatus(status) == {v \in Catalogue : jobs[v].status \in status}

\* Mutant of Callable: a job that was lost or fails is passed over too.
RunningOnly == HasStatus({"running"})

\* Aliases never lead to a job that has not started yet.
Callable == HasStatus({"running", "error", "lost"})

ReadLatest == FindLatestStable(Callable)

Matching == [p \in Patterns |-> {v \in Catalogue : MatchesText(p, Text(v))}]
ReadLatestWildcard(p) == FindLatestStable(Callable \cap Matching[p])

\* An exact version is read whatever its status.
Resolve(alias) ==
    IF alias = Latest THEN ReadLatest
    ELSE IF alias \in Patterns THEN ReadLatestWildcard(alias)
    ELSE IF alias \in Known THEN alias
    ELSE NoVersion

Aliases == {Latest} \cup Patterns \cup Catalogue

\* Anyone may call the endpoint of the job an alias leads to.
IsPublic(alias) == Resolve(alias) # NoVersion /\ jobs[Resolve(alias)].endpoint = "active"

(***************************************************************************)
(* The penalty points of portfolio.py, three times as many: 50 for a lost  *)
(* job, 20 for a failing one, 10 for one not called for 30 days, 5 for     *)
(* five newer versions.                                                    *)
(***************************************************************************)
Interpolate(value, max) == IF value > max THEN max ELSE value

CountNewerVersions(v) == Cardinality({w \in Known : Compare(w, v) > 0})

IdlePenalty(v) ==
    IF jobs[v].age < 1 THEN 0
    ELSE IF jobs[v].idle = Never THEN 30
    ELSE IF jobs[v].idle > 1 THEN Interpolate(jobs[v].idle, 30)
    ELSE 0

StatusPenalty(v) ==
    CASE jobs[v].status = "lost" -> 150 [] jobs[v].status = "error" -> 60 [] OTHER -> 0

PurgeScore(v) == StatusPenalty(v) + IdlePenalty(v) + 3 * Interpolate(CountNewerVersions(v), 5)

----------------------------------------------------------------------------
PortfolioInit == jobs = [v \in Catalogue |-> NoJob] /\ deploying = {} /\ replaced = {}

SetJob(v, job) == jobs' = [jobs EXCEPT ![v] = job]

\* A request is recorded for a declared endpoint; the record of one that is
\* not declared any more stays.
Registered(endpoint, declared) == IF declared /\ endpoint = "none" THEN "requested" ELSE endpoint

\* The record of v gets another manifest.
Redeclared(v, declared) ==
    replaced' = IF jobs[v].declared = declared THEN replaced ELSE replaced \cup {v}

\* Bound: one deployment of a manifest at a time.
BeginDeployment(v, declared) ==
    <<v, declared>> \notin deploying /\ deploying' = deploying \cup {<<v, declared>>}

\* A new job: its record is made before the job has started.
DeployVersion(v, declared) ==
    /\ v \notin Known
    /\ BeginDeployment(v, declared)
    /\ SetJob(v, [status |-> "starting", age |-> 0, idle |-> Never, declared |-> declared, endpoint |-> "none"])
    /\ UNCHANGED replaced

\* Another deployment of the same version, by --force or a redeployment and
\* even while the first one starts, keeps the record, but not its manifest
\* nor the time of the last call.
DeployAgain(v, declared) ==
    /\ v \in Known
    /\ BeginDeployment(v, declared)
    /\ SetJob(v, [jobs[v] EXCEPT !.status = "starting", !.age = 0, !.idle = Never, !.declared = declared])
    /\ Redeclared(v, declared)

\* The job is alive: the endpoints of the manifest that was deployed are
\* registered, then the record is written once more, with that manifest.
JobStarted(v, declared) ==
    /\ v \in Known /\ <<v, declared>> \in deploying
    /\ SetJob(v, [jobs[v] EXCEPT !.status = "running", !.idle = Never, !.declared = declared,
                                 !.endpoint = Registered(@, declared)])
    /\ deploying' = deploying \ {<<v, declared>>}
    /\ Redeclared(v, declared)

\* The record takes its requests with it.
Forget(v) == SetJob(v, NoJob) /\ replaced' = replaced \ {v}

\* The job does not start and is rolled back, its record too; or the
\* deployment ends in another way and the record stays as it is.
DeploymentFails(v, declared) ==
    /\ <<v, declared>> \in deploying
    /\ deploying' = deploying \ {<<v, declared>>}
    /\ Forget(v) \/ UNCHANGED <<jobs, replaced>>

\* update_job_manifest: the manifest alone, of a job in any status. No request
\* is recorded, none is taken back.
UpdateJobManifest(v, declared) ==
    /\ v \in Known
    /\ SetJob(v, [jobs[v] EXCEPT !.declared = declared])
    /\ Redeclared(v, declared)
    /\ UNCHANGED deploying

\* The supervisor found the job in another condition.
Synchronise(v, status) ==
    /\ jobs[v].status \in {"running", "error", "lost"} \ {status}
    /\ SetJob(v, [jobs[v] EXCEPT !.status = status])
    /\ UNCHANGED <<deploying, replaced>>

RemoveJob(v) == v \in Known /\ Forget(v) /\ UNCHANGED deploying

\* A call, by the version or by an alias that leads to it, of which the next
\* synchronisation learns from the job.
Call(v) ==
    /\ jobs[v].status \in {"running", "error"}
    /\ SetJob(v, [jobs[v] EXCEPT !.idle = 0])
    /\ UNCHANGED <<deploying, replaced>>

\* An administrator decides on the request.
Activate(v, active) ==
    /\ v \in Known /\ jobs[v].endpoint = (IF active THEN "requested" ELSE "active")
    /\ SetJob(v, [jobs[v] EXCEPT !.endpoint = IF active THEN "active" ELSE "requested"])
    /\ UNCHANGED <<deploying, replaced>>

\* Days pass, MaxDays of them at once; no deployment takes so long.
TimePasses ==
    /\ deploying = {}
    /\ \E v \in Known : jobs[v].age < MaxDays \/ jobs[v].idle < MaxDays
    /\ jobs' = [v \in Catalogue |->
                 IF v \notin Known THEN NoJob
                 ELSE [jobs[v] EXCEPT !.age = MaxDays, !.idle = IF @ = Never THEN @ ELSE MaxDays]]
    /\ UNCHANGED <<deploying, replaced>>

PortfolioNext ==
    \/ \E v \in Catalogue, declared \in BOOLEAN :
        /\ declared => v \in Declaring
        /\ \/ DeployVersion(v, declared) \/ DeployAgain(v, declared) \/ UpdateJobManifest(v, declared)
           \/ JobStarted(v, declared) \/ DeploymentFails(v, declared)
    \/ \E v \in Catalogue : RemoveJob(v) \/ Call(v)
    \/ \E v \in Catalogue, status \in {"running", "error", "lost"} : Synchronise(v, status)
    \/ \E v \in Catalogue, active \in BOOLEAN : Activate(v, active)
    \/ TimePasses

----------------------------------------------------------------------------

(* Narrower aliases nest: what a pattern leads to is never newer than what *)
(* "latest" leads to, and where the latest version matches the pattern the *)
(* pattern leads to it too. A caller pinned to a branch is never ahead.    *)
AliasesNest ==
    LET latest == ReadLatest IN
    \A p \in Patterns :
        LET pinned == ReadLatestWildcard(p) IN
        pinned # NoVersion =>
            /\ latest # NoVersion /\ Compare(pinned, latest) <= 0
            /\ latest \in Matching[p] => pinned = latest

(* The advice to remove a job for newer versions contradicts the alias     *)
(* "latest" that leads to it only over a pre-release or a job that has not *)
(* started.                                                                *)
OutdatedHasCause ==
    ReadLatest # NoVersion /\ CountNewerVersions(ReadLatest) > 0
        => \E w \in Known : Compare(w, ReadLatest) > 0 /\ (~IsStable(w) \/ jobs[w].status = "starting")

(* A lost job is the better candidate for removal than any that is there,  *)
(* whatever else speaks against it.                                        *)
LostGoFirst ==
    \A v \in HasStatus({"lost"}), w \in Known : jobs[w].status # "lost" => PurgeScore(v) > PurgeScore(w)

(* Anyone may call an endpoint only by a version whose manifest declares   *)
(* it, whatever the alias, unless the manifest in its record was replaced  *)
(* by one that declares something else, by another deployment or by an     *)
(* update of the manifest: the request stays active.                       *)
UndeclaredHasCause ==
    \A alias \in Aliases : IsPublic(alias) => jobs[Resolve(alias)].declared \/ Resolve(alias) \in replaced

(* The aliases, the advice of the portfolio and the public endpoints agree *)
(* on the versions they are about (resolve_job_model, enrich_jobs_purge_   *)
(* info, read_active_job_public_endpoints).                                *)
VersionsAreExplained == AliasesNest /\ OutdatedHasCause /\ LostGoFirst /\ UndeclaredHasCause
=============================================================================
