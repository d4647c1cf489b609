---------------------------- MODULE ImageBuild -----------------------------
(***************************************************************************)
(* The images of jobs: Lifecycle asks the image builder for them over a    *)
(* stream of events, the builder fetches the source code into a workspace, *)
(* builds the images of the job type one by one and pushes them to the     *)
(* registry, and Lifecycle provisions the job from them. The jobs here are *)
(* versions of one family, so that the name of an image is its tag, the    *)
(* second of the deployment, and its index. Each side has its own plugin   *)
(* engine, from which it learns the job types.                             *)
(***************************************************************************)
EXTENDS Versions

CONSTANTS Members,      \* versions of the family
          JobTypes,     \* version of the job type -> number of its images
          Wanted,       \* job -> version of the job type in its manifest, or a pattern
          UsesBase,     \* versions of the job type with a deprecated base image
          Deployments,  \* identifiers of deployments
          MaxSeconds, MaxChanges, MaxFaults     \* bounds

ASSUME JobTypesHaveImages ==
    DOMAIN JobTypes \subseteq Version /\ \A v \in DOMAIN JobTypes : JobTypes[v] \in Nat \ {0}

VARIABLES
    thisSecond, \* the second on the clock
    installed,  \* versions of the job type as Lifecycle has them
    loaded,     \* as the image builder has them
    registry,   \* [tag, index] -> job and job type of the image pushed last under that name
    bases,      \* versions of the job type whose base image was pushed
    build,      \* deployment -> what the builder does for it
    workspace,  \* deployment -> its files on the disk of the builder: source code, secrets
    life,       \* deployment -> what Lifecycle does for it
    phase,      \* deployment -> phase in its record
    record,     \* job -> how it was provisioned last, or NoRecord
    unsettled,  \* jobs since whose build the job types were not the same on both sides
    changes, faults

imageVars == <<thisSecond, installed, loaded, registry, bases, build, workspace, life, phase, record,
               unsettled, changes, faults>>
world == <<thisSecond, installed, loaded, changes>>

NoRecord == [tag |-> 0]
Nothing == "nothing"
NoBuild == [at |-> "idle", job |-> Nothing, second |-> 0, tag |-> 0, type |-> NoVersion, index |-> 0,
            error |-> FALSE, end |-> Nothing]
JobOf(d) == build[d].job
Images(tag) == {image \in DOMAIN registry : image[1] = tag}

ImageInit ==
    /\ thisSecond = 1 /\ \E v \in DOMAIN JobTypes : installed = {v}
    /\ loaded = installed /\ registry = <<>> /\ bases = {}
    /\ build = [d \in Deployments |-> NoBuild]
    /\ workspace = [d \in Deployments |-> {}]
    /\ life = [d \in Deployments |-> "none"]
    /\ phase = [d \in Deployments |-> Nothing]
    /\ record = [j \in Members |-> NoRecord]
    /\ unsettled = {} /\ changes = 0 /\ faults = 0

LoadJobType(j, catalogue) == MatchJobTypeVersion(Wanted[j], catalogue)

----------------------------------------------------------------------------
(* Lifecycle.                                                              *)
InProgress(d) == life[d] \in {"waiting", "provision"}

Tag(second) == second

\* A deployment, of a new version or of one that is there. An unfinished one
\* of the same version refuses it unless its record is older.
BuildAndProvision(d, j) ==
    /\ life[d] = "none"
    /\ \A e \in Deployments : JobOf(e) = j /\ InProgress(e) => build[e].second < thisSecond
    /\ build' = [build EXCEPT ![d] = [NoBuild EXCEPT !.at = "fetch", !.job = j, !.second = thisSecond, !.tag = Tag(thisSecond)]]
    /\ life' = [life EXCEPT ![d] = "waiting"] /\ phase' = [phase EXCEPT ![d] = "building_image"]
    /\ UNCHANGED <<world, registry, bases, workspace, record, unsettled, faults>>

\* A result without an error takes the phase away.
SaveResult(d, result) ==
    /\ life' = [life EXCEPT ![d] = result]
    /\ phase' = [phase EXCEPT ![d] = IF result = "done" THEN Nothing ELSE @]

\* Mutants of ReceiveResult: the error is overlooked, the result taken early.
ReceiveAnyway(d) ==
    /\ life[d] = "waiting" /\ build[d].at = "answered"
    /\ life' = [life EXCEPT ![d] = "provision"]
    /\ build' = [build EXCEPT ![d].at = "idle"]
    /\ UNCHANGED <<world, registry, bases, workspace, phase, record, unsettled, faults>>

\* The event with the result: an error of the build fails the deployment.
ReceiveResult(d) ==
    /\ life[d] = "waiting" /\ build[d].at = "answered"
    /\ IF build[d].error THEN SaveResult(d, "failed")
       ELSE life' = [life EXCEPT ![d] = "provision"] /\ UNCHANGED phase
    /\ build' = [build EXCEPT ![d].at = "idle"]
    /\ UNCHANGED <<world, registry, bases, workspace, record, unsettled, faults>>

\* The stream breaks off: the builder goes on nevertheless.
LoseStream(d) ==
    /\ life[d] = "waiting" /\ faults < MaxFaults
    /\ SaveResult(d, "failed") /\ faults' = faults + 1
    /\ UNCHANGED <<world, registry, bases, build, workspace, record, unsettled>>

\* As many containers as the job type has images by now.
Provisioned(tag, type) == [tag |-> tag, type |-> type, containers |-> JobTypes[type]]

Provision(d) ==
    LET type == LoadJobType(JobOf(d), installed) IN
    /\ life[d] = "provision" /\ type \in DOMAIN JobTypes
    /\ record' = [record EXCEPT ![JobOf(d)] = Provisioned(build[d].tag, type)]
    /\ SaveResult(d, "done")
    /\ UNCHANGED <<world, registry, bases, build, workspace, unsettled, faults>>

\* The job type is gone; or the job does not start, and is rolled back or,
\* after a redeployment, left as it is.
ProvisionFails(d) ==
    LET type == LoadJobType(JobOf(d), installed) IN
    /\ life[d] = "provision" /\ SaveResult(d, "failed")
    /\ \/ type \notin DOMAIN JobTypes /\ UNCHANGED <<record, faults>>
       \/ /\ type \in DOMAIN JobTypes /\ faults < MaxFaults /\ faults' = faults + 1
          /\ \E r \in {NoRecord, Provisioned(build[d].tag, type)} : record' = [record EXCEPT ![JobOf(d)] = r]
    /\ UNCHANGED <<world, registry, bases, build, workspace, unsettled>>

\* reprovision_job, by a user or for a lost job: the images there are.
Reprovision(j) ==
    LET type == LoadJobType(j, installed) IN
    /\ record[j] # NoRecord /\ type \in DOMAIN JobTypes /\ record[j].type # type
    /\ record' = [record EXCEPT ![j] = Provisioned(record[j].tag, type)]
    /\ UNCHANGED <<world, registry, bases, build, workspace, life, phase, unsettled, faults>>

----------------------------------------------------------------------------
(* The image builder. A phase is reported to Lifecycle as it begins.       *)
Doing(d, step) == build[d].at = step
GoTo(d, step) == build' = [build EXCEPT ![d].at = step]
Enter(d, name) == phase' = [phase EXCEPT ![d] = name]

\* The build ends by an exception: nothing is cleaned up.
EndBy(d, end) == build' = [build EXCEPT ![d].at = "answered", ![d].error = TRUE, ![d].end = end]
Raise(d) == EndBy(d, "raised")

\* A command failed: the build goes on to clean up.
CommandFails(d) == build' = [build EXCEPT ![d].at = "cleanup", ![d].error = TRUE]

\* A fault of a step which the code does not expect, the report of the phase included.
Fault == faults < MaxFaults /\ faults' = faults + 1

FetchSource(d) ==
    /\ Doing(d, "fetch") /\ Enter(d, "fetching_the_source_code")
    /\ \/ /\ GoTo(d, "prepare") /\ workspace' = [workspace EXCEPT ![d] = {"source"}]
          /\ UNCHANGED faults
       \/ Fault /\ Raise(d) /\ \E s \in SUBSET {"source"} : workspace' = [workspace EXCEPT ![d] = s]
    /\ UNCHANGED <<world, registry, bases, life, record, unsettled>>

\* The engine is ready and the job type there, within five seconds.
PrepareBuilder(d) ==
    LET type == LoadJobType(JobOf(d), loaded) IN
    /\ Doing(d, "prepare") /\ Enter(d, "preparing_job_type_builder")
    /\ \/ /\ type \in DOMAIN JobTypes
          /\ build' = [build EXCEPT ![d].at = "base", ![d].type = type]
          /\ UNCHANGED faults
       \/ type \notin DOMAIN JobTypes /\ Raise(d) /\ UNCHANGED faults
       \/ type \in DOMAIN JobTypes /\ Fault /\ Raise(d)
    /\ unsettled' = IF type = LoadJobType(JobOf(d), installed) THEN unsettled ELSE unsettled \cup {JobOf(d)}
    /\ UNCHANGED <<world, registry, bases, workspace, life, record>>

\* The base image, unless it exists. Its failure is not told from an exception.
BuildBaseImage(d) ==
    LET needed == build[d].type \in UsesBase \ bases IN
    /\ Doing(d, "base") /\ Enter(d, "building_image")
    /\ \/ /\ GoTo(d, "template")
          /\ bases' = IF needed THEN bases \cup {build[d].type} ELSE bases
          /\ UNCHANGED faults
       \/ Fault /\ Raise(d) /\ UNCHANGED bases
    /\ UNCHANGED <<world, registry, workspace, life, record, unsettled>>

\* The Dockerfile of the image, from its template or from the job's files.
TemplateDockerfile(d) ==
    /\ Doing(d, "template")
    /\ \/ GoTo(d, "secrets") /\ UNCHANGED faults
       \/ Fault /\ Raise(d)
    /\ UNCHANGED <<world, registry, bases, workspace, life, phase, record, unsettled>>

\* The file with the secrets of the build, after a look at the user's flags; it
\* stays when writing it fails midway.
WriteSecrets(d) ==
    /\ Doing(d, "secrets")
    /\ \/ /\ workspace' = [workspace EXCEPT ![d] = @ \cup {"secrets"}]
          /\ GoTo(d, "docker") /\ UNCHANGED faults
       \/ Fault /\ Raise(d) /\ UNCHANGED workspace
       \/ Fault /\ EndBy(d, "writing") /\ workspace' = [workspace EXCEPT ![d] = @ \cup {"secrets"}]
    /\ UNCHANGED <<world, registry, bases, life, phase, record, unsettled>>

\* docker buildx build: the secrets are removed however it ends.
BuildContainerImage(d) ==
    /\ Doing(d, "docker")
    /\ workspace' = [workspace EXCEPT ![d] = @ \ {"secrets"}]
    /\ \/ GoTo(d, "push") /\ UNCHANGED faults
       \/ Fault /\ (CommandFails(d) \/ Raise(d))
    /\ UNCHANGED <<world, registry, bases, life, phase, record, unsettled>>

\* The image is pushed under its name; then comes the next one.
PushContainerImage(d) ==
    LET index == build[d].index + 1
        name == <<build[d].tag, build[d].index>>
        image == [job |-> JobOf(d), type |-> build[d].type]
    IN
    /\ Doing(d, "push") /\ Enter(d, "pushing_image")
    /\ \/ /\ registry' = [n \in DOMAIN registry \cup {name} |-> IF n = name THEN image ELSE registry[n]]
          /\ build' = [build EXCEPT ![d].index = index,
                                    ![d].at = IF index < JobTypes[build[d].type] THEN "base" ELSE "cleanup"]
          /\ UNCHANGED faults
       \/ Fault /\ (CommandFails(d) \/ Raise(d)) /\ UNCHANGED registry
    /\ UNCHANGED <<world, bases, workspace, life, record, unsettled>>

CleanUpWorkspace(d) ==
    /\ Doing(d, "cleanup") /\ Enter(d, "cleaning_up_the_workspace")
    /\ \/ GoTo(d, "finalize") /\ workspace' = [workspace EXCEPT ![d] = {}] /\ UNCHANGED faults
       \/ Fault /\ Raise(d) /\ UNCHANGED workspace
    /\ UNCHANGED <<world, registry, bases, life, record, unsettled>>

Finalize(d) ==
    /\ Doing(d, "finalize") /\ Enter(d, "finalizing_the_build")
    /\ \/ GoTo(d, "answered") /\ UNCHANGED faults
       \/ Fault /\ Raise(d)
    /\ UNCHANGED <<world, registry, bases, workspace, life, record, unsettled>>

\* The result of a build that nobody waits for is dropped.
DropResult(d) ==
    /\ Doing(d, "answered") /\ life[d] # "waiting" /\ GoTo(d, "idle")
    /\ UNCHANGED <<world, registry, bases, workspace, life, phase, record, unsettled, faults>>

Building(d) == build[d].at \notin {"idle", "answered"}

\* The builder is killed with all its builds, and Lifecycle gets no result.
KillBuilder ==
    /\ Fault /\ \E d \in Deployments : Building(d)
    /\ build' = [d \in Deployments |-> IF Building(d) THEN [build[d] EXCEPT !.at = "idle", !.end = "killed"] ELSE build[d]]
    /\ life' = [d \in Deployments |-> IF Building(d) /\ life[d] = "waiting" THEN "failed" ELSE life[d]]
    /\ UNCHANGED <<world, registry, bases, workspace, phase, record, unsettled>>

----------------------------------------------------------------------------
(* The world around.                                                       *)
SecondPasses ==
    /\ thisSecond < MaxSeconds /\ thisSecond' = thisSecond + 1
    /\ UNCHANGED <<installed, loaded, changes, registry, bases, build, workspace, life, phase, record, unsettled, faults>>

\* A plugin with a job type, of any version, is uploaded or deleted.
ChangeJobTypes(v) ==
    /\ changes < MaxChanges /\ changes' = changes + 1
    /\ installed' = IF v \in installed THEN installed \ {v} ELSE installed \cup {v}
    /\ unsettled' = unsettled \cup {JobOf(d) : d \in {e \in Deployments : life[e] # "none"}}
    /\ UNCHANGED <<thisSecond, loaded, registry, bases, build, workspace, life, phase, record, faults>>

ReloadJobTypes ==
    /\ loaded # installed /\ loaded' = installed
    /\ UNCHANGED <<thisSecond, installed, changes, registry, bases, build, workspace, life, phase, record, unsettled, faults>>

LifecycleStep(d) ==
    \/ \E j \in Members : BuildAndProvision(d, j)
    \/ ReceiveResult(d) \/ LoseStream(d) \/ Provision(d) \/ ProvisionFails(d)

BuilderStep(d) ==
    \/ FetchSource(d) \/ PrepareBuilder(d) \/ BuildBaseImage(d) \/ TemplateDockerfile(d)
    \/ WriteSecrets(d) \/ BuildContainerImage(d) \/ PushContainerImage(d) \/ CleanUpWorkspace(d) \/ Finalize(d) \/ DropResult(d)

ImageNext ==
    \/ \E d \in Deployments : LifecycleStep(d) \/ BuilderStep(d)
    \/ \E j \in Members : Reprovision(j)
    \/ KillBuilder \/ SecondPasses \/ ReloadJobTypes
    \/ \E v \in DOMAIN JobTypes \cup {Malformed} : ChangeJobTypes(v)

----------------------------------------------------------------------------
(* A job runs images that were built from its own source code, unless      *)
(* another version of its family was deployed in the same second: their    *)
(* images have the same names, and the later push replaces the earlier.    *)
OwnImagesUnlessSameSecond ==
    \A j \in Members : record[j] # NoRecord =>
        \A image \in Images(record[j].tag) : registry[image].job # j =>
            \E d, e \in Deployments : /\ JobOf(d) = j /\ JobOf(e) = registry[image].job
                                      /\ build[d].tag = record[j].tag /\ build[d].second = build[e].second

(* A provisioned job has as many containers as images were built for it,   *)
(* by the job type that its record names, unless the job types changed     *)
(* since the builder chose one, as provisioning chooses again, or another  *)
(* job of the same second has replaced or added images.                    *)
ContainersFitImages ==
    \A j \in Members :
        record[j] # NoRecord /\ j \notin unsettled /\ (\A image \in Images(record[j].tag) : registry[image].job = j) =>
            /\ {image[2] : image \in Images(record[j].tag)} = 0..(record[j].containers - 1)
            /\ \A image \in Images(record[j].tag) : registry[image].type = record[j].type

(* The file with the secrets of the build is there only while the engine   *)
(* needs it, unless the builder was killed just then, or failed to write   *)
(* the file (_build_container_image writes it before its try).             *)
SecretsAreRemoved ==
    \A d \in Deployments : "secrets" \in workspace[d] => build[d].at = "docker" \/ build[d].end \in {"writing", "killed"}

(* The source code of a deployment stays on the disk of the builder after  *)
(* the build only when it ended by an exception or a kill; the failure of  *)
(* a command, which is the common one, leaves nothing.                     *)
WorkspaceLeftHasCause ==
    \A d \in Deployments : workspace[d] # {} /\ ~Building(d) => build[d].end \in {"raised", "writing", "killed"}

(* What the builder reports never reaches a deployment that is done: it    *)
(* shows no phase.                                                         *)
DoneHasNoPhase == \A d \in Deployments : life[d] = "done" => phase[d] = Nothing

(* A build ends with the images of its job and leaves nothing else.        *)
BuildIsClean ==
    /\ OwnImagesUnlessSameSecond /\ ContainersFitImages
    /\ SecretsAreRemoved /\ WorkspaceLeftHasCause /\ DoneHasNoPhase
=============================================================================
