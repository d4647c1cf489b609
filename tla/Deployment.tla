----------------------------- MODULE Deployment -----------------------------
(***************************************************************************)
(* Deployments of ONE job (a name and a version) by Lifecycle: deploying,  *)
(* redeploying, reprovisioning, moving and deleting it, the Supervisor's   *)
(* synchronisation of the registry with the infrastructures, and restarts. *)
(* Each request runs in a thread of its own; the threads share the         *)
(* database (the job's row, the trash, the deployment records) and the     *)
(* infrastructure targets, and nothing locks either.                       *)
(***************************************************************************)
EXTENDS Naturals, FiniteSets

CONSTANTS
    Targets,        \* number of infrastructure targets, listed in this order
    Kind,           \* requests that are made, see AnyKind
    Event,          \* what else may happen, see AnyEvent
    MaxDeps,        \* bound: deployment attempts
    MaxDeletes,     \* bound: delete requests
    MaxFaults       \* bound: crashes, restarts and failures of infrastructures

AnyKind == {"deploy", "force", "redeploy", "reprovision", "move", "build"}

\* slow: a deployment goes a minute, or an hour, without saving its phase;
\* edit: PUT .../manifest;  lose: an instance disappears or starts failing;
\* sync: passes of sync_registry_jobs;  reconcile: runs of reconcile_jobs.
AnyEvent == {"slow", "edit", "lose", "sync", "reconcile"}

ASSUME DeploymentAssumption ==
    /\ Targets \in Nat \ {0}
    /\ Kind \subseteq AnyKind
    /\ Event \subseteq AnyEvent
    /\ MaxDeps \in Nat \ {0}
    /\ MaxDeletes \in Nat
    /\ MaxFaults \in Nat

VARIABLES
    row,        \* Row: the job's record in the registry
    trash,      \* ids of the job's records in the trash
    inst,       \* [Infra -> Instance]: what runs on each infrastructure target
    dep,        \* [Dep -> Deployment]: deployment records and their threads
    ndep,       \* how many deployments were requested
    del,        \* Delete: the thread that serves a delete request
    ndel,       \* how many delete requests were made
    sync,       \* Sync: the Supervisor's pass of sync_registry_jobs
    verified,   \* deployments whose own instance answered that it is alive
    ready,      \* deployments whose own instance answered that it is ready
    overlap,    \* deployments that ran together with another one or a deletion
    misled,     \* yes: sync_registry_jobs has written what was no longer true
    faults      \* faults so far

vars == <<row, trash, inst, dep, ndep, del, ndel, sync, verified, ready,
          overlap, misled, faults>>

history == <<verified, ready, overlap, misled>>

-----------------------------------------------------------------------------
Infra == 1..Targets
Dep == 1..MaxDeps

\* gen is the deployment whose timestamp (update_time, DEPLOYMENT_TIMESTAMP) the
\* record or the instance carries, man the manifest: as first deployed or as
\* edited; id the primary key (the deployment that created the row).
Row == [status : {"none", "starting", "running", "error", "lost"},
        infra : 0..Targets, gen : 0..MaxDeps, man : {"a", "b"}, id : 0..MaxDeps]
NoRow == [status |-> "none", infra |-> 0, gen |-> 0, man |-> "a", id |-> 0]

Instance == [gen : 0..MaxDeps, health : {"none", "running", "error"}]
NoInstance == [gen |-> 0, health |-> "none"]

\* age is the age of update_time: below a minute, below an hour, above.
DepPC == {"unused", "insert", "start", "build", "provision", "read", "save",
          "check", "ready", "rollback", "unsave", "post", "reread", "run",
          "decommission", "ok", "fail", "over", "dead"}
Deployment == [pc : DepPC, kind : AnyKind, target : 0..Targets,
               from : 0..Targets, man : {"a", "b"}, seen : Row,
               status : {"none", "in_progress", "done", "failed"},
               age : {"fresh", "stale", "old"}]
Unused == [pc |-> "unused", kind |-> "deploy", target |-> 0, from |-> 0,
           man |-> "a", seen |-> NoRow, status |-> "none", age |-> "fresh"]

Delete == [pc : {"idle", "infra", "trash", "model"}, job : Row]
NoDelete == [pc |-> "idle", job |-> NoRow]

\* next is the infrastructure to list; found the job on the last one that had
\* it; job the registry's record, changed to what is to be written.
Sync == [pc : {"idle", "list", "registry", "read", "write"}, next : 1..Targets,
         found : 0..Targets, health : {"none", "running", "error"}, job : Row,
         seen : Row]
NoSync == [pc |-> "idle", next |-> 1, found |-> 0, health |-> "none",
           job |-> NoRow, seen |-> NoRow]

Working(d) == dep[d].pc \notin {"unused", "over", "dead"}

Init ==
    /\ row = NoRow /\ trash = {}
    /\ inst = [i \in Infra |-> NoInstance]
    /\ dep = [d \in Dep |-> Unused] /\ ndep = 0
    /\ del = NoDelete /\ ndel = 0
    /\ sync = NoSync
    /\ verified = {} /\ ready = {} /\ overlap = {} /\ misled = "no"
    /\ faults = 0

Fault == faults < MaxFaults /\ faults' = faults + 1

\* RecordMapper.update writes only the columns that differ from the row as it
\* was read, to the row with the same primary key.
Merge(seen, new) ==
    [status |-> IF new.status # seen.status THEN new.status ELSE row.status,
     infra  |-> IF new.infra # seen.infra THEN new.infra ELSE row.infra,
     gen    |-> IF new.gen # seen.gen THEN new.gen ELSE row.gen,
     man    |-> IF new.man # seen.man THEN new.man ELSE row.man,
     id     |-> row.id]

\* JobDeployer.delete_job: an instance that is not there is no error.
Undeploy(i) == inst' = [inst EXCEPT ![i] = NoInstance]

-----------------------------------------------------------------------------
(* Requesting a deployment *)

\* check_for_concurrent_deployments
Ongoing == \E d \in Dep : dep[d].status = "in_progress" /\ dep[d].age = "fresh"

\* The deployment requested now, and whom it overlaps with.
Requested(new) ==
    LET others == {d \in Dep : Working(d)} IN
    /\ ndep < MaxDeps /\ ~Ongoing
    /\ ndep' = ndep + 1
    /\ dep' = [dep EXCEPT ![ndep + 1] = new]
    /\ overlap' = IF others = {} /\ del.pc = "idle" THEN overlap
                  ELSE overlap \cup others \cup {ndep + 1}
    /\ UNCHANGED <<row, trash, inst, del, ndel, sync, verified, ready, misled,
                   faults>>

\* POST /deploy and /build, up to the end of the concurrency check: the target
\* is determine_infrastructure_name's, the manifest is the request's.
RequestDeploy(kind, i) ==
    /\ kind \in {"deploy", "force", "build"}
    /\ Requested([Unused EXCEPT !.pc = "insert", !.kind = kind, !.target = i])

\* redeploy_job, reprovision_job, move_job: read_job, then the same check.  The
\* manifest and, unless the job is moved, the target are those of the row.
RequestAgain(kind, i) ==
    /\ kind \in {"redeploy", "reprovision", "move"}
    /\ row.status # "none"
    /\ IF kind = "move" THEN i # row.infra ELSE i = row.infra
    /\ Requested([Unused EXCEPT !.pc = "insert", !.kind = kind, !.target = i,
                                !.from = row.infra, !.man = row.man])

\* reconcile_jobs, every ten minutes or on demand: lost jobs are reprovisioned.
Reconcile ==
    /\ "reconcile" \in Event /\ row.status = "lost"
    /\ \E i \in Infra : RequestAgain("reprovision", i)

\* The rest of create_deployment.  The thread of a build ends at once: it is
\* called with an argument missing, before the block that saves its result.
Insert(d) ==
    /\ dep[d].pc = "insert"
    /\ dep' = [dep EXCEPT ![d].status = "in_progress", ![d].age = "fresh",
                          ![d].pc = CASE dep[d].kind = "build" -> "over"
                                      [] dep[d].kind = "redeploy" -> "build"
                                      [] dep[d].kind \in {"reprovision", "move"}
                                           -> "provision"
                                      [] OTHER -> "start"]
    /\ UNCHANGED <<row, trash, inst, ndep, del, ndel, sync, history, faults>>

-----------------------------------------------------------------------------
(* The thread of a deployment *)

\* An exception ends the work; the result is saved next.
Fails(d) == dep' = [dep EXCEPT ![d].pc = "fail", ![d].seen = NoRow]
Goes(d, pc) == dep' = [dep EXCEPT ![d].pc = pc]
\* ... after save_deployment_phase or a similar update of the record
GoesOn(d, pc) == dep' = [dep EXCEPT ![d].pc = pc, ![d].age = "fresh"]

\* Mutant: the trash is not looked at.
ProtectedFromRowOnly(d) == dep[d].kind = "deploy" /\ row.status # "none"

\* _protect_job_overwriting, with allow_job_overwrite off.
Protected(d) ==
    dep[d].kind = "deploy" /\ (row.status # "none" \/ trash # {})

\* deploy_new_job up to build_job: the Image Builder may stay unavailable, the
\* permission may be missing, the secrets may not be saved.
Start(d) ==
    /\ dep[d].pc = "start"
    /\ \/ ~Protected(d) /\ GoesOn(d, "build")
       \/ Fails(d)
    /\ UNCHANGED <<row, trash, inst, ndep, del, ndel, sync, history, faults>>

\* _send_image_build_request: the logs are saved either way.
Build(d) ==
    /\ dep[d].pc = "build"
    /\ \/ GoesOn(d, "provision")
       \/ Fails(d)
    /\ UNCHANGED <<row, trash, inst, ndep, del, ndel, sync, history, faults>>

\* provision_job up to deploy_job, which replaces what ran under the job's name.
\* A deployer that fails may have done its work.
Provision(d) ==
    /\ dep[d].pc = "provision"
    /\ \/ /\ inst' = [inst EXCEPT ![dep[d].target] =
                        [gen |-> d, health |-> "error"]]
          /\ \/ GoesOn(d, "read") /\ UNCHANGED faults
             \/ Fails(d) /\ Fault
       \/ Fails(d) /\ UNCHANGED <<inst, faults>>
    /\ UNCHANGED <<row, trash, ndep, del, ndel, sync, history>>

Described(d, status) ==
    [status |-> status, infra |-> dep[d].target, gen |-> d, man |-> dep[d].man,
     id |-> d]

\* save_job_model's read_job_model ...
SaveRead(d) ==
    /\ dep[d].pc = "read"
    /\ dep' = [dep EXCEPT ![d].pc = "save", ![d].seen = row]
    /\ UNCHANGED <<row, trash, inst, ndep, del, ndel, sync, history, faults>>

\* ... and what it writes, if (name, version) is still free, or if the row it
\* read is still there.
Save(d) ==
    /\ dep[d].pc = "save"
    /\ IF dep[d].seen.id = row.id
       THEN /\ row' = IF row.id = 0 THEN Described(d, "starting")
                      ELSE Merge(dep[d].seen, Described(d, "starting"))
            /\ dep' = [dep EXCEPT ![d].pc = "check", ![d].seen = NoRow,
                                  ![d].age = "fresh"]
       ELSE Fails(d) /\ UNCHANGED row
    /\ UNCHANGED <<trash, inst, ndep, del, ndel, sync, history, faults>>

\* provision_job was given no previous_job.
First(d) == dep[d].kind \in {"deploy", "force", "move"}

CheckFailed(d) == IF First(d) THEN Goes(d, "rollback") ELSE Fails(d)

\* Mutant: any instance that answers will do.
CheckAnyAlive(d) ==
    /\ dep[d].pc = "check"
    /\ \/ /\ inst[dep[d].target].gen # 0
          /\ verified' = IF inst[dep[d].target].gen = d THEN verified \cup {d}
                                                       ELSE verified
          /\ GoesOn(d, "ready")
       \/ CheckFailed(d) /\ UNCHANGED verified
    /\ UNCHANGED <<row, trash, inst, ndep, del, ndel, sync, ready, overlap,
                   misled, faults>>

\* check_until_job_is_operational, first part: /live is asked until the
\* instance that answers carries the timestamp of this deployment, then the
\* phase is saved.  Its server may have failed, or it never answers.
CheckAlive(d) ==
    /\ dep[d].pc = "check"
    /\ \/ /\ inst[dep[d].target].gen = d
          /\ verified' = verified \cup {d}
          /\ GoesOn(d, "ready")
       \/ CheckFailed(d) /\ UNCHANGED verified
    /\ UNCHANGED <<row, trash, inst, ndep, del, ndel, sync, ready, overlap,
                   misled, faults>>

\* Second part: /ready is asked until 200, of whatever instance answers under
\* the job's name by now; nothing looks at its timestamp.  The next phase is
\* saved.
CheckReady(d) ==
    /\ dep[d].pc = "ready"
    /\ \/ /\ inst[dep[d].target].gen # 0
          /\ inst' = [inst EXCEPT ![dep[d].target].health = "running"]
          /\ ready' = IF inst[dep[d].target].gen = d THEN ready \cup {d}
                                                    ELSE ready
          /\ GoesOn(d, "post")
       \/ CheckFailed(d) /\ UNCHANGED <<inst, ready>>
    /\ UNCHANGED <<row, trash, ndep, del, ndel, sync, verified, overlap, misled,
                   faults>>

\* Mutant: only the row is removed.
RollbackModelOnly(d) ==
    /\ dep[d].pc = "rollback"
    /\ Goes(d, "unsave")
    /\ UNCHANGED <<row, trash, inst, ndep, del, ndel, sync, history, faults>>

\* roll_back_unsuccessful_deployment: an error of the deployer is only logged,
\* ...
Rollback(d) ==
    /\ dep[d].pc = "rollback"
    /\ Goes(d, "unsave")
    /\ \/ Undeploy(dep[d].target) /\ UNCHANGED faults
       \/ Fault /\ UNCHANGED inst
    /\ UNCHANGED <<row, trash, ndep, del, ndel, sync, history>>

\* ... then delete_job_model removes the row of that name and version.
Unsave(d) ==
    /\ dep[d].pc = "unsave"
    /\ Fails(d)
    /\ row' = NoRow
    /\ UNCHANGED <<trash, inst, ndep, del, ndel, sync, history, faults>>

\* post_job_deploy: hooks of plugins may raise; granting permissions needs the
\* row.
Post(d) ==
    /\ dep[d].pc = "post"
    /\ \/ (First(d) => row.status # "none") /\ GoesOn(d, "reread")
       \/ Fails(d)
    /\ UNCHANGED <<row, trash, inst, ndep, del, ndel, sync, history, faults>>

\* update_job with status RUNNING: reads the row ...
RunRead(d) ==
    /\ dep[d].pc = "reread"
    /\ IF row.status = "none" THEN Fails(d)
       ELSE dep' = [dep EXCEPT ![d].pc = "run", ![d].seen = row]
    /\ UNCHANGED <<row, trash, inst, ndep, del, ndel, sync, history, faults>>

\* ... and writes it.
Run(d) ==
    /\ dep[d].pc = "run"
    /\ IF dep[d].seen.id = row.id
       THEN /\ row' = Merge(dep[d].seen, Described(d, "running"))
            /\ dep' = [dep EXCEPT ![d].seen = NoRow, ![d].age = "fresh",
                         ![d].pc = IF dep[d].kind = "move" THEN "decommission"
                                                           ELSE "ok"]
       ELSE Fails(d) /\ UNCHANGED row
    /\ UNCHANGED <<trash, inst, ndep, del, ndel, sync, history, faults>>

\* Mutant: the infrastructure is the one the row names by now.
DecommissionOfRow(d) ==
    /\ dep[d].pc = "decommission"
    /\ IF row.status \in {"none", "lost"} THEN UNCHANGED inst
                                          ELSE Undeploy(row.infra)
    /\ IF row.status = "none" THEN Fails(d) ELSE Goes(d, "ok")
    /\ UNCHANGED <<row, trash, ndep, del, ndel, sync, history, faults>>

\* decommission_job_infrastructure of a moved job.
Decommission(d) ==
    /\ dep[d].pc = "decommission"
    /\ \/ /\ row.status = "none"
          /\ Fails(d) /\ UNCHANGED <<inst, faults>>
       \/ /\ row.status # "none"
          /\ \/ /\ IF row.status = "lost" THEN UNCHANGED inst
                                          ELSE Undeploy(dep[d].from)
                /\ Goes(d, "ok") \/ Fails(d)
                /\ UNCHANGED faults
             \/ Fault /\ Fails(d) /\ UNCHANGED inst
    /\ UNCHANGED <<row, trash, ndep, del, ndel, sync, history>>

\* Mutant: only successes are saved.
FinishSuccessOnly(d) ==
    /\ dep[d].pc \in {"ok", "fail"}
    /\ dep' = [dep EXCEPT ![d].pc = "over", ![d].age = "fresh",
                 ![d].status = IF dep[d].pc = "ok" THEN "done" ELSE @]
    /\ UNCHANGED <<row, trash, inst, ndep, del, ndel, sync, history, faults>>

\* save_deployment_result
Finish(d) ==
    /\ dep[d].pc \in {"ok", "fail"}
    /\ dep' = [dep EXCEPT ![d].pc = "over", ![d].age = "fresh",
                 ![d].status = IF dep[d].pc = "ok" THEN "done" ELSE "failed"]
    /\ UNCHANGED <<row, trash, inst, ndep, del, ndel, sync, history, faults>>

-----------------------------------------------------------------------------
(* Deleting the job *)

\* DELETE /job: read_job.
RequestDelete ==
    /\ ndel < MaxDeletes /\ del.pc = "idle" /\ row.status # "none"
    /\ ndel' = ndel + 1
    /\ del' = [pc |-> IF row.status = "lost" THEN "trash" ELSE "infra",
               job |-> row]
    /\ overlap' = overlap \cup {d \in Dep : Working(d)}
    /\ UNCHANGED <<row, trash, inst, dep, ndep, sync, verified, ready, misled,
                   faults>>

DeleteInstance ==
    /\ del.pc = "infra"
    /\ \/ /\ Undeploy(del.job.infra)
          /\ del' = [del EXCEPT !.pc = "trash"]
          /\ UNCHANGED faults
       \/ Fault /\ del' = NoDelete /\ UNCHANGED inst
    /\ UNCHANGED <<row, trash, dep, ndep, ndel, sync, history>>

\* create_trashed_job
DeleteToTrash ==
    /\ del.pc = "trash"
    /\ trash' = trash \cup {del.job.id}
    /\ del' = [del EXCEPT !.pc = "model"]
    /\ UNCHANGED <<row, inst, dep, ndep, ndel, sync, history, faults>>

\* delete_job_model, whichever row has the name and version by now.
DeleteModel ==
    /\ del.pc = "model"
    /\ row' = NoRow
    /\ del' = NoDelete
    /\ UNCHANGED <<trash, inst, dep, ndep, ndel, sync, history, faults>>

\* update_job_manifest
EditManifest ==
    /\ "edit" \in Event
    /\ row.status # "none" /\ row.man = "a"
    /\ row' = [row EXCEPT !.man = "b"]
    /\ UNCHANGED <<trash, inst, dep, ndep, del, ndel, sync, history, faults>>

-----------------------------------------------------------------------------
(* sync_registry_jobs *)

SyncStart ==
    /\ "sync" \in Event /\ sync.pc = "idle"
    /\ sync' = [NoSync EXCEPT !.pc = "list"]
    /\ UNCHANGED <<row, trash, inst, dep, ndep, del, ndel, history, faults>>

\* list_infrastructure_jobs, one target after the other.  A target that fails
\* is skipped; the later of two instances of the job wins in _generate_job_map.
SyncList ==
    /\ sync.pc = "list"
    /\ LET i == sync.next
           after == [sync EXCEPT !.next = IF i < Targets THEN i + 1 ELSE 1,
                                 !.pc = IF i < Targets THEN "list"
                                                       ELSE "registry"]
       IN \/ /\ sync' = IF inst[i].gen = 0 THEN after
                        ELSE [after EXCEPT !.found = i,
                                           !.health = inst[i].health]
             /\ UNCHANGED faults
          \/ Fault /\ sync' = after
    /\ UNCHANGED <<row, trash, inst, dep, ndep, del, ndel, history>>

SyncSkips == row.status \in {"none", "starting"}

\* Mutant: a job that was not listed is left alone.
SyncedIfFound ==
    IF sync.found # 0
    THEN [row EXCEPT !.status = sync.health, !.infra = sync.found]
    ELSE row

\* The registry's record after the comparison with what was listed.
Synced ==
    IF sync.found # 0
    THEN [row EXCEPT !.status = sync.health, !.infra = sync.found]
    ELSE [row EXCEPT !.status = "lost"]

\* list_job_registry and the comparison.  Statistics and times of calls change
\* too, so there may be something to write although the rest is the same.
SyncRegistry ==
    /\ sync.pc = "registry"
    /\ \/ /\ ~SyncSkips
          /\ Synced # row \/ sync.found # 0
          /\ sync' = [NoSync EXCEPT !.pc = "read", !.job = Synced]
       \/ /\ SyncSkips \/ Synced = row
          /\ sync' = NoSync
    /\ UNCHANGED <<row, trash, inst, dep, ndep, del, ndel, history, faults>>

\* update_job: reads the row; if it is gone the pass is aborted.
SyncRead ==
    /\ sync.pc = "read"
    /\ sync' = IF row.status = "none" THEN NoSync
               ELSE [sync EXCEPT !.pc = "write", !.seen = row]
    /\ UNCHANGED <<row, trash, inst, dep, ndep, del, ndel, history, faults>>

\* What is about to be written was true when the pass listed it, and is not any
\* more.
Outdated ==
    \/ sync.job.gen # row.gen
    \/ IF sync.job.status = "lost" THEN \E i \in Infra : inst[i].gen # 0
                                   ELSE inst[sync.job.infra].gen # row.gen

\* Mutant: the row is written whether it is still there or not.
SyncWriteUpsert ==
    /\ sync.pc = "write"
    /\ row' = Merge(sync.seen, sync.job)
    /\ misled' = IF Outdated THEN "yes" ELSE misled
    /\ sync' = NoSync
    /\ UNCHANGED <<trash, inst, dep, ndep, del, ndel, verified, ready, overlap,
                   faults>>

\* ... then writes it, if it is still there.
SyncWrite ==
    /\ sync.pc = "write"
    /\ row' = IF sync.seen.id = row.id THEN Merge(sync.seen, sync.job) ELSE row
    /\ misled' = IF Outdated THEN "yes" ELSE misled
    /\ sync' = NoSync
    /\ UNCHANGED <<trash, inst, dep, ndep, del, ndel, verified, ready, overlap,
                   faults>>

-----------------------------------------------------------------------------
(* Time and failures *)

\* A long phase: building, starting the job's server, a hook.
Slow(d) ==
    /\ "slow" \in Event
    /\ dep[d].status = "in_progress"
    /\ dep[d].pc \in {"start", "build", "provision", "check", "ready",
                      "rollback", "post", "decommission", "over", "dead"}
    /\ \/ dep[d].age = "fresh" /\ dep' = [dep EXCEPT ![d].age = "stale"]
       \/ dep[d].age = "stale" /\ dep' = [dep EXCEPT ![d].age = "old"]
    /\ UNCHANGED <<row, trash, inst, ndep, del, ndel, sync, history, faults>>

\* A process of Lifecycle ends, and with it the threads it runs.
Crash ==
    /\ Fault
    /\ \E gone \in SUBSET {d \in Dep : Working(d)} :
         dep' = [d \in Dep |->
                   IF d \in gone THEN [dep[d] EXCEPT !.pc = "dead", !.seen = NoRow]
                                 ELSE dep[d]]
    /\ del' \in {del, NoDelete}
    /\ UNCHANGED <<row, trash, inst, ndep, ndel, sync, history>>

\* The Supervisor restarts: startup_check halts deployments that were last
\* updated more than an hour ago.
StartupCheck ==
    /\ Fault
    /\ sync' = NoSync
    /\ dep' = [d \in Dep |->
                 IF dep[d].status = "in_progress" /\ dep[d].age = "old"
                 THEN [dep[d] EXCEPT !.status = "failed", !.age = "fresh"]
                 ELSE dep[d]]
    /\ UNCHANGED <<row, trash, inst, ndep, del, ndel, history>>

\* An infrastructure loses an instance, or the instance starts failing.
Lose(i) ==
    /\ "lose" \in Event /\ inst[i].health = "running" /\ Fault
    /\ \/ Undeploy(i)
       \/ inst' = [inst EXCEPT ![i].health = "error"]
    /\ UNCHANGED <<row, trash, dep, ndep, del, ndel, sync, history>>

-----------------------------------------------------------------------------
Request ==
    \/ \E i \in Infra, kind \in Kind : RequestDeploy(kind, i)
                                    \/ RequestAgain(kind, i)
    \/ Reconcile \/ RequestDelete \/ EditManifest

ThreadStep(d) ==
    \/ Insert(d) \/ Start(d) \/ Build(d) \/ Provision(d) \/ SaveRead(d)
    \/ Save(d) \/ CheckAlive(d) \/ CheckReady(d) \/ Rollback(d) \/ Unsave(d)
    \/ Post(d) \/ RunRead(d) \/ Run(d) \/ Decommission(d) \/ Finish(d)

DeleteStep == DeleteInstance \/ DeleteToTrash \/ DeleteModel

SyncStep == SyncList \/ SyncRegistry \/ SyncRead \/ SyncWrite

Next ==
    \/ Request
    \/ \E d \in Dep : ThreadStep(d) \/ Slow(d)
    \/ DeleteStep
    \/ SyncStart \/ SyncStep
    \/ Crash \/ StartupCheck
    \/ \E i \in Infra : Lose(i)

Spec == Init /\ [][Next]_vars

-----------------------------------------------------------------------------
(* Properties *)

\* Row, instances, deployment records and threads have the shapes of the tables
\* and of the local variables of the functions.
TypeOK ==
    /\ row \in Row
    /\ trash \subseteq Dep
    /\ inst \in [Infra -> Instance]
    /\ dep \in [Dep -> Deployment]
    /\ ndep \in 0..MaxDeps
    /\ del \in Delete
    /\ ndel \in 0..MaxDeletes
    /\ sync \in Sync
    /\ verified \subseteq Dep
    /\ ready \subseteq Dep
    /\ overlap \subseteq Dep
    /\ misled \in {"no", "yes"}
    /\ faults \in 0..MaxFaults

\* Every request has been dealt with.
Quiet == del.pc = "idle" /\ \A d \in Dep : ~Working(d)

\* A deployment reported as done was verified: its own instance, never the
\* previous one or that of a concurrent deployment, answered that it is alive
\* with this deployment's timestamp.  That it became ready as well is certain
\* only for a deployment that no other request overlapped with: /ready is asked
\* without the timestamp, and a deployment or a deletion may replace the
\* instance between the two answers.
DoneWasVerified ==
    \A d \in Dep : dep[d].status = "done" =>
        /\ d \in verified
        /\ d \in ready \/ d \in overlap

\* No update brings a deleted job back: a row, the row a deletion works on and
\* the row that update_job is about to write always have the primary key that
\* create_job_model gave them, although the job may be deleted between the read
\* and the write of a deployment or of sync_registry_jobs.
Keyed ==
    /\ row.status # "none" => row.id \in Dep
    /\ del.pc # "idle" => del.job.id \in Dep
    /\ \A d \in Dep : dep[d].pc = "run" => dep[d].seen.id \in Dep
    /\ sync.pc = "write" => sync.seen.id \in Dep

\* When every request has been dealt with, the job runs on the infrastructure
\* its row names, as the deployment its row names, and nowhere else; without a
\* row it runs nowhere.  What may spoil this: a fault, requests that overlapped,
\* a forced deployment or a move that failed (the rollback removes a row it did
\* not create), a forced deployment to another infrastructure (the instance it
\* replaces stays), a pass of sync_registry_jobs that wrote an outdated row.
Replaces(d) ==
    \/ dep[d].kind = "move" /\ dep[d].status = "failed"
    \/ dep[d].kind = "force" /\ \E e \in Dep : e < d /\ dep[e].status # "none"

AtOddsHasCause ==
    /\ Quiet /\ faults = 0 /\ overlap = {} /\ misled = "no"
    /\ ~ \E d \in Dep : Replaces(d)
    => \A i \in Infra : inst[i].gen = IF i = row.infra THEN row.gen ELSE 0

\* _protect_job_overwriting holds until the row is written: a deployment that is
\* not forced writes no row over an existing one and none for a name and version
\* that was deleted before, unless another request overlapped with it.
ClaimProtected ==
    [][\A d \in Dep :
         dep[d].kind = "deploy" /\ dep[d].pc = "save" /\ dep'[d].pc = "check"
            => (row.status = "none" /\ trash = {}) \/ d \in overlap]_vars

\* Threads run on, requests to infrastructures end, and the Supervisor starts
\* pass after pass.
Fairness ==
    /\ \A d \in Dep : WF_vars(ThreadStep(d))
    /\ WF_vars(DeleteStep) /\ WF_vars(SyncStart) /\ WF_vars(SyncStep)

FairSpec == Spec /\ Fairness

\* Once requests, faults and edits have ceased, the registry shows the truth
\* for good, whatever stale rows were written before: a job that runs nowhere
\* is lost, any other has the infrastructure and the health of its instance
\* (of the one listed last if a failed move or deployment left two).  Jobs that
\* are starting are left alone by sync_registry_jobs.
Holders == {i \in Infra : inst[i].gen # 0}
SyncConverges ==
    <>[](row.status \notin {"none", "starting"} =>
           IF Holders = {} THEN row.status = "lost"
           ELSE /\ row.infra \in Holders /\ \A i \in Holders : i <= row.infra
                /\ row.status = inst[row.infra].health)

\* deploy_job_saving_result, redeploy_job, ...: "storing its faulty or
\* successful result in DB" (deployer/builder.py).  A deployment that has been
\* recorded gets a result, unless the process that works on it ends.
ResultStored ==
    \A d \in Dep : dep[d].status = "in_progress" ~>
                     dep[d].status \in {"done", "failed"} \/ dep[d].pc = "dead"

=============================================================================
