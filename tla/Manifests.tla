----------------------------- MODULE Manifests -----------------------------
(***************************************************************************)
(* The manifest of a job on its way: the files a user edits and pushes     *)
(* with git, the dictionary the client merges from them and submits, the   *)
(* check of the image builder that it is what the repository holds, and    *)
(* the environment the job's container gets from it. A dictionary is a     *)
(* function from keys to a Leaf or another Dict.                           *)
(***************************************************************************)
EXTENDS Naturals, Sequences, TLC

CONSTANTS Files,        \* pairs of a directory and a name of a file
          Written,      \* dictionaries that get written to the files
          ExtraVars,    \* extra variables of the command line: [path, value]
          Secrets,      \* sets of variables a file of secrets may define
          MaxEdits,     \* bound on the edits of files
          MaxDeploys    \* bound on the deployments

Leaf(x) == [leaf |-> x]
Dict(d) == [dict |-> d]
IsDict(node) == "dict" \in DOMAIN node
NoFile == <<>>
Invalid == "invalid" :> Leaf("")
NoVars == [path |-> <<>>, value |-> Leaf("")]
Directories == {"root", "sub"}

\* Mutant of MergeDicts: the overlay replaces whole dictionaries.
MergeTop(base, overlay) == overlay @@ base

RECURSIVE MergeDicts(_, _), ApplyVar(_, _, _), DifferentiateDicts(_, _)

MergeDicts(base, overlay) ==
    [key \in DOMAIN base \cup DOMAIN overlay |->
        IF key \in DOMAIN base \cap DOMAIN overlay /\ IsDict(base[key]) /\ IsDict(overlay[key])
            THEN Dict(MergeDicts(base[key].dict, overlay[key].dict))
        ELSE IF key \in DOMAIN overlay THEN overlay[key]
        ELSE base[key]]

\* Only the last of the keys may be new.
ApplyVar(d, path, value) ==
    IF Len(path) = 1 THEN path[1] :> value @@ d
    ELSE IF path[1] \notin DOMAIN d \/ ~IsDict(d[path[1]]) THEN Invalid
    ELSE path[1] :> Dict(ApplyVar(d[path[1]].dict, Tail(path), value)) @@ d

DifferentiateDicts(a, b) ==
    LET Differs(key) == \/ key \notin DOMAIN a \cap DOMAIN b
                        \/ a[key] # b[key]
        Nested(key) == key \in DOMAIN a \cap DOMAIN b /\ IsDict(a[key]) /\ IsDict(b[key])
    IN  UNION {IF Nested(key) THEN {<<key>> \o path : path \in DifferentiateDicts(a[key].dict, b[key].dict)}
               ELSE {<<key>>} : key \in {k \in DOMAIN a \cup DOMAIN b : Differs(k)}}

Exists(files, file) == file \in Files /\ files[file] # NoFile
Extends(d) == "extends" \in DOMAIN d /\ d["extends"] # Leaf("")
BaseOf(file, d) == <<file[1], d["extends"].leaf>>
Overlaid(base, overlay) == [MergeDicts(base, overlay) EXCEPT !["extends"] = Leaf("")]

\* The client's loading of a file: one level of inheritance.
LoadMerged(files, file) ==
    LET d == files[file] IN
    IF ~Exists(files, file) THEN Invalid
    ELSE IF ~Extends(d) THEN d
    ELSE IF ~Exists(files, BaseOf(file, d)) THEN Invalid
    ELSE IF Extends(files[BaseOf(file, d)]) THEN Invalid
    ELSE Overlaid(files[BaseOf(file, d)], d)

LoadWithVars(files, file, extra) ==
    LET d == LoadMerged(files, file) IN
    IF extra = NoVars \/ d = Invalid THEN d ELSE ApplyVar(d, extra.path, extra.value)

\* A directory stands for the manifest in it, by its present or former name.
ManifestPath(files, path) ==
    IF path \notin Directories THEN path
    ELSE IF Exists(files, <<path, "job.yaml">>) THEN <<path, "job.yaml">>
    ELSE <<path, "fatman.yaml">>

\* The schema requires a version, of the form X.Y.Z.
Valid(d) == d # Invalid /\ "invalid" \notin DOMAIN d /\ "version" \in DOMAIN d /\ d["version"] # Leaf("malformed")

KeysOf(d, key) == IF key \in DOMAIN d /\ IsDict(d[key]) THEN DOMAIN d[key].dict ELSE {}
DirectoryOf(d) == IF "directory" \in KeysOf(d, "git") THEN d["git"].dict["directory"].leaf ELSE "root"

----------------------------------------------------------------------------
VARIABLES
    local,      \* file -> dictionary, in the working copy
    pushed,     \* the same in the repository
    submitted,  \* what the client submitted last, or NoSubmission
    check,      \* outcome of the build: "none", "failed", "clean" or the warning
    env,        \* variable -> where the container takes its value from
    edits, deploys

manifestVars == <<local, pushed, submitted, check, env, edits, deploys>>

NoSubmission == [state |-> "none"]

ManifestInit ==
    /\ local = [f \in Files |-> NoFile] /\ pushed = local
    /\ submitted = NoSubmission /\ check = "none" /\ env = <<>> /\ edits = 0 /\ deploys = 0

\* The user edits a file of the working copy, or pushes all of it.
Edit(f, d) ==
    /\ edits < MaxEdits /\ d # local[f]
    /\ local' = [local EXCEPT ![f] = d] /\ edits' = edits + 1
    /\ UNCHANGED <<pushed, submitted, check, env, deploys>>

Push == pushed # local /\ pushed' = local /\ UNCHANGED <<local, submitted, check, env, edits, deploys>>

\* racetrack deploy: a manifest that is invalid is not submitted,
Deploy(path, extra, context, buildVars, runtimeVars) ==
    /\ deploys < MaxDeploys /\ submitted.state \in {"none", "provisioned", "again"}
    /\ Valid(LoadWithVars(local, ManifestPath(local, path), extra))
    /\ submitted' = [state |-> "validated", path |-> path, extra |-> extra, context |-> context,
                     buildVars |-> buildVars, runtimeVars |-> runtimeVars]
    /\ check' = "none" /\ env' = <<>> /\ deploys' = deploys + 1
    /\ UNCHANGED <<local, pushed, edits>>

\* and is read again to be submitted. Lifecycle parses it, and needs its fields.
Submit ==
    LET file == ManifestPath(local, submitted.path)
        d == LoadWithVars(local, file, submitted.extra)
    IN  /\ submitted.state = "validated"
        /\ submitted' = IF "version" \notin DOMAIN d THEN NoSubmission
                        ELSE [state |-> "sent", manifest |-> d, file |-> file, extra |-> submitted.extra,
                              context |-> submitted.context, buildVars |-> submitted.buildVars,
                              runtimeVars |-> submitted.runtimeVars, seen |-> local]
        /\ UNCHANGED <<local, pushed, check, env, edits, deploys>>

----------------------------------------------------------------------------
\* The manifest in the repository: in the job's directory, or else at the top.
WorkspaceFile(dir) ==
    LET order == <<<<dir, "job.yaml">>, <<dir, "fatman.yaml">>, <<"root", "job.yaml">>, <<"root", "fatman.yaml">>>>
        found == {i \in 1..4 : Exists(pushed, order[i])}
    IN  IF found = {} THEN <<>> ELSE order[CHOOSE i \in found : \A j \in found : i <= j]

HasDirectory(dir) == dir = "root" \/ \E f \in Files : f[1] = dir /\ pushed[f] # NoFile

\* The builder's loading, which does not look whether the base extends another.
RepositoryManifest(file) ==
    LET d == pushed[file] IN
    IF ~Extends(d) THEN d
    ELSE IF ~Exists(pushed, BaseOf(file, d)) THEN Invalid
    ELSE Overlaid(pushed[BaseOf(file, d)], d)

\* Mutant of VerifyConsistency: the versions are compared, nothing else.
SameVersion(d) ==
    LET file == WorkspaceFile(DirectoryOf(d)) IN
    IF ~HasDirectory(DirectoryOf(d)) \/ (file # <<>> /\ RepositoryManifest(file) = Invalid) THEN "failed"
    ELSE IF file = <<>> THEN "missing"
    ELSE IF ~Valid(RepositoryManifest(file)) \/ RepositoryManifest(file)["version"] # d["version"] THEN "different"
    ELSE "clean"

VerifyConsistency(d) ==
    LET file == WorkspaceFile(DirectoryOf(d)) IN
    IF ~HasDirectory(DirectoryOf(d)) THEN "failed"
    ELSE IF file = <<>> THEN "missing"
    ELSE IF RepositoryManifest(file) = Invalid THEN "failed"
    ELSE IF RepositoryManifest(file) # d THEN "different"
    ELSE "clean"

\* The builder clones the repository; an archive of the client is not checked.
Build ==
    /\ submitted.state = "sent"
    /\ check' = IF submitted.context = "local" THEN "unchecked" ELSE VerifyConsistency(submitted.manifest)
    /\ submitted' = IF check' = "failed" THEN NoSubmission ELSE [submitted EXCEPT !.state = "built"]
    /\ UNCHANGED <<local, pushed, env, edits, deploys>>

\* merge_env_vars: the secret variables take the place of the others.
AllVars(declared, secret) == [v \in declared \cup secret |-> IF v \in secret THEN "secret" ELSE "manifest"]

\* Variables of the build that the runtime does not set become empty.
RuntimeEnv(d, buildVars, runtimeVars) ==
    LET all == DOMAIN AllVars(KeysOf(d, "runtime_env"), runtimeVars)
        hidden == DOMAIN AllVars(KeysOf(d, "build_env"), buildVars) \ all
    IN  [v \in KeysOf(d, "runtime_env") \cup hidden |-> IF v \in hidden THEN "empty" ELSE "manifest"]

\* The container: variables of the image, then of the deployment, which knows some
\* secrets of the build, then its secrets.
ContainerEnv(s, known) ==
    [v \in s.runtimeVars |-> "secret"]
    @@ RuntimeEnv(s.manifest, known, s.runtimeVars)
    @@ [v \in KeysOf(s.manifest, "build_env") \cup s.buildVars |-> "build"]

Provide(known, state) ==
    /\ env' = ContainerEnv(submitted, known)
    /\ submitted' = [submitted EXCEPT !.state = state]
    /\ UNCHANGED <<local, pushed, check, edits, deploys>>

ProvisionManifest == submitted.state = "built" /\ Provide(submitted.buildVars, "provisioned")

\* reprovision_job, move_job: the secrets of the build are looked up only for a
\* manifest with a file of runtime secrets.
ReprovisionManifest ==
    /\ submitted.state = "provisioned"
    /\ Provide(IF submitted.runtimeVars # {} THEN submitted.buildVars ELSE {}, "again")

ManifestNext ==
    \/ \E f \in Files, d \in Written : Edit(f, d)
    \/ Push
    \/ \E path \in Directories \cup Files, extra \in ExtraVars \cup {NoVars}, context \in {"git", "local"},
          buildVars, runtimeVars \in Secrets : Deploy(path, extra, context, buildVars, runtimeVars)
    \/ Submit \/ Build \/ ProvisionManifest \/ ReprovisionManifest

----------------------------------------------------------------------------
(* A build without a warning used the manifest of the repository as it was *)
(* when it was cloned: loading it from there gives what was submitted. The *)
(* builder overlooks only a base that extends another, which the client    *)
(* refuses.                                                                *)
CleanIsPushed ==
    [][check # "clean" /\ check' = "clean" =>
        LET file == WorkspaceFile(DirectoryOf(submitted.manifest)) IN
        \/ LoadMerged(pushed, file) = submitted.manifest
        \/ Extends(pushed[file]) /\ Extends(pushed[BaseOf(file, pushed[file])])]_manifestVars

(* The builder warns of a difference, and names one, only when the user    *)
(* has not pushed what was submitted, changed it by extra variables or     *)
(* submitted another file than the one of the job's directory.             *)
WarningHasCause ==
    [][check # "different" /\ check' = "different" =>
        LET file == WorkspaceFile(DirectoryOf(submitted.manifest)) IN
        /\ DifferentiateDicts(RepositoryManifest(file), submitted.manifest) # {}
        /\ pushed # submitted.seen \/ submitted.extra # NoVars \/ submitted.file # file]_manifestVars

(* A variable of the build, secret or not, keeps its value in the running  *)
(* container only where the runtime sets it, unless the job was provisioned *)
(* again, it is a secret and the manifest has no secrets of the runtime    *)
(* (provision_job clears what it is told, reprovision_job tells nothing).  *)
BuildVarsAreHidden ==
    submitted.state \in {"provisioned", "again"} =>
        LET set == KeysOf(submitted.manifest, "runtime_env") \cup submitted.runtimeVars
        IN  \A v \in DOMAIN env :
                \/ env[v] # "build" /\ (env[v] = "empty" <=> v \notin set)
                \/ /\ submitted.state = "again" /\ submitted.runtimeVars = {}
                   /\ v \in submitted.buildVars \ KeysOf(submitted.manifest, "build_env")

(* What was merged overrides nothing it does not mention: every key of the *)
(* base that the overlay leaves alone reaches the submitted manifest.      *)
BaseIsKept ==
    submitted.state = "sent" /\ submitted.extra = NoVars /\ Extends(submitted.seen[submitted.file]) =>
        LET overlay == submitted.seen[submitted.file]
            base == submitted.seen[BaseOf(submitted.file, overlay)]
        IN  \A key \in DOMAIN base :
                /\ key \notin DOMAIN overlay => submitted.manifest[key] = base[key]
                /\ \A sub \in KeysOf(base, key) \ KeysOf(overlay, key) :
                       (key \in DOMAIN overlay => IsDict(overlay[key])) =>
                           /\ sub \in KeysOf(submitted.manifest, key)
                           /\ submitted.manifest[key].dict[sub] = base[key].dict[sub]

(* A manifest reaches the job as it was written: merged over its base, and *)
(* with no variable of the build left in the container.                    *)
ManifestIsRespected == BaseIsKept /\ BuildVarsAreHidden

(* The builder's comparison of the submitted manifest with the repository's *)
(* is right in both directions (verify_manifest_consistency).               *)
RepositoryIsVerified == CleanIsPushed /\ WarningHasCause
=============================================================================
