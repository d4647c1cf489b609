----------------------------- MODULE Maintenance -----------------------------
(***************************************************************************)
(* The tools of the maintainers: the cleaner of the container registry,    *)
(* which collects candidates from several sources one after the other,     *)
(* asks, and deletes them while jobs go on being deployed; and the bumper  *)
(* of versions, which edits several files one after the other.             *)
(***************************************************************************)
EXTENDS Integers, Sequences, FiniteSets, SequencesExt

CONSTANTS
    Core,           \* CORE_RT_IMAGES
    Jobs,           \* the names of the jobs
    Environment,    \* DEPLOYMENT_ENVIRONMENTS
    Spare,          \* LAST_IMAGES_SPARE
    PerPage,        \* RESULTS_PER_PAGE
    MaxTag,         \* bound on the versions that are pushed
    MaxPushes,      \* bound on pushes and deployments meanwhile
    MaxBumps        \* bound on invocations of the bumper

ASSUME MaintenanceAssumption ==
    /\ IsFiniteSet(Core) /\ IsFiniteSet(Jobs)
    /\ Spare \in Nat /\ PerPage \in Nat \ {0} /\ MaxTag \in Nat

VARIABLES
    images,         \* the repositories of the registry, in their order
    running,        \* what each environment runs: [core |-> tag, jobs |-> [Jobs -> tag]]
    cleaner,        \* the invocation of the cleaner
    removed,        \* what it has deleted, and where it was in use then
    later,          \* what was deployed in an environment since that was asked
    pushes,
    makefile, init, \* the version in the Makefile and in the client's package
    bumper,         \* the invocation of the bumper
    bumps, reported \* how often it ran, and whether it ever ended with an error

cleanerVars == <<images, running, cleaner, removed, later, pushes>>
bumperVars == <<makefile, init, bumper, bumps, reported>>

-----------------------------------------------------------------------------
(* Repositories. A tag is a version, 0 is a name that is no version; the tag *)
(* "latest" is -1. A job has an image for its entrypoint, and may have more. *)
LatestTag == -1
Image(name, tags) == [name |-> name, tags |-> tags]
Entrypoint(job) == <<"job-entrypoint", job>>
UserModule(job) == <<"job-user-module", job>>
Auxiliary(job) == <<"job-1", job>>
NamesOfJob(job) == {Entrypoint(job), Auxiliary(job)}

NoTag == -2
CleanerInit ==
    /\ images = LET names == SetToSeq({<<"core", c>> : c \in Core} \cup UNION {NamesOfJob(j) : j \in Jobs})
                IN  [i \in 1..Len(names) |->
                        Image(names[i], (1..MaxTag) \cup IF names[i][1] = "core" THEN {LatestTag, 0} ELSE {})]
    /\ running \in [Environment -> [core : {1, 2}, jobs : [Jobs -> {NoTag, 1}]]]
    /\ cleaner = [pc |-> "idle", page |-> 1, listed |-> <<>>, kept |-> {}, todo |-> {}, asked |-> {}]
    /\ removed = {} /\ later = {} /\ pushes = 0

(* sort_by_version: names that are no versions come first, in their own order *)
After(tags, tag) == {t \in tags : t > tag}

(* The last tags of that order: but with 0 the slice is the whole list *)
LastTags(tags, n) == IF n = 0 THEN tags ELSE {t \in tags : Cardinality(After(tags, t)) < n}

Paths(listed) == UNION {{<<listed[i].name, t>> : t \in listed[i].tags} : i \in DOMAIN listed}

LatestRacetrackTags(listed) ==
    UNION {{<<listed[i].name, t>> : t \in LastTags(listed[i].tags, Spare) \cup {LatestTag}} :
              i \in {k \in DOMAIN listed : listed[k].name[1] = "core"}}

DeployedRacetrackTags(environment) == {<<<<"core", c>>, running[environment].core>> : c \in Core}

DeployedJobTags(environment) ==
    UNION {{<<Entrypoint(j), running[environment].jobs[j]>>, <<UserModule(j), running[environment].jobs[j]>>} : j \in Jobs}

Goes(pc) == [cleaner EXCEPT !.pc = pc]

StartCleaner ==
    /\ cleaner.pc = "idle" /\ cleaner' = Goes("list")
    /\ UNCHANGED <<images, running, removed, later, pushes>>

(* get_request_paging: a page is read from the repositories as they are then *)
ListRegistryImages ==
    LET first == (cleaner.page - 1) * PerPage + 1
        last == cleaner.page * PerPage
        page == SubSeq(images, first, IF last < Len(images) THEN last ELSE Len(images))
    IN  /\ cleaner.pc = "list"
        /\ cleaner' = [cleaner EXCEPT !.listed = @ \o page, !.page = @ + 1,
                                      !.pc = IF last < Len(images) THEN "list" ELSE "core"]
        /\ UNCHANGED <<images, running, removed, later, pushes>>

(* The environments are asked one after the other, first what they run *)
ReadCore(e) ==
    /\ cleaner.pc = "core" /\ e \notin cleaner.asked
    /\ LET asked == cleaner.asked \cup {e}
       IN  cleaner' = [cleaner EXCEPT
              !.kept = @ \cup DeployedRacetrackTags(e) \cup LatestRacetrackTags(cleaner.listed),
              !.pc = IF asked = Environment THEN "jobs" ELSE "core",
              !.asked = IF asked = Environment THEN {} ELSE asked]
    /\ UNCHANGED <<images, running, removed, later, pushes>>

(* then which jobs; what is left are the candidates *)
ReadJobs(e) ==
    /\ cleaner.pc = "jobs" /\ e \notin cleaner.asked
    /\ LET asked == cleaner.asked \cup {e}
           kept == cleaner.kept \cup DeployedJobTags(e)
       IN  cleaner' = [cleaner EXCEPT !.kept = kept, !.asked = asked,
              !.pc = IF asked = Environment THEN "confirm" ELSE "jobs",
              !.todo = IF asked = Environment THEN Paths(cleaner.listed) \ kept ELSE {}]
    /\ later' = {d \in later : d[1] # e}
    /\ UNCHANGED <<images, running, removed, pushes>>

(* Anything but "y" is asked again *)
Confirm ==
    /\ cleaner.pc = "confirm" /\ cleaner' = Goes("delete")
    /\ UNCHANGED <<images, running, removed, later, pushes>>

(* The environments that run an image *)
Users(path) == {e \in Environment :
    \/ path[1][1] = "core" /\ running[e].core = path[2]
    \/ path[1][1] \in {"job-entrypoint", "job-1"} /\ running[e].jobs[path[1][2]] = path[2]}

HasTag(path) == \E i \in DOMAIN images : images[i].name = path[1] /\ path[2] \in images[i].tags

(* delete_image_tag; a tag that is gone is an error, which ends the rest *)
DeleteTag(path) ==
    /\ cleaner.pc = "delete" /\ path \in cleaner.todo
    /\ \/ /\ HasTag(path)
          /\ images' = [i \in DOMAIN images |->
                IF images[i].name = path[1] THEN [images[i] EXCEPT !.tags = @ \ {path[2]}] ELSE images[i]]
          /\ removed' = removed \cup {[path |-> path, users |-> Users(path)]}
          /\ cleaner' = [cleaner EXCEPT !.todo = @ \ {path}, !.pc = IF @ = "delete" /\ cleaner.todo = {path} THEN "done" ELSE @]
       \/ ~HasTag(path) /\ cleaner' = Goes("failed") /\ UNCHANGED <<images, removed>>
    /\ UNCHANGED <<running, later, pushes>>

(* Meanwhile a job is deployed, with a tag that is pushed if it is not there, *)
(* or a repository is removed                                                *)
DeployMeanwhile(e, j, t) ==
    /\ pushes < MaxPushes /\ pushes' = pushes + 1
    /\ running' = [running EXCEPT ![e].jobs[j] = t]
    /\ later' = later \cup {<<e, <<Entrypoint(j), t>>>>}
    /\ images' = [i \in DOMAIN images |->
          IF images[i].name \in NamesOfJob(j) THEN [images[i] EXCEPT !.tags = @ \cup {t}] ELSE images[i]]
    /\ UNCHANGED <<cleaner, removed>>

RemoveRepository(i) ==
    /\ pushes < MaxPushes /\ pushes' = pushes + 1
    /\ images[i].name[1] # "core" /\ \A e \in Environment : running[e].jobs[images[i].name[2]] = NoTag
    /\ images' = RemoveAt(images, i)
    /\ UNCHANGED <<running, cleaner, removed, later>>

CleanerNext ==
    \/ StartCleaner \/ ListRegistryImages \/ Confirm
    \/ \E e \in Environment : ReadCore(e) \/ ReadJobs(e)
    \/ \E path \in cleaner.todo : DeleteTag(path)
    \/ \E e \in Environment, j \in Jobs : \E t \in 1..MaxTag : DeployMeanwhile(e, j, t)
    \/ \E i \in DOMAIN images : RemoveRepository(i)

(* An image that the cleaner deletes is in use only in environments where    *)
(* this very job was deployed with this tag after that environment had been  *)
(* asked, however deployments, pushes and the requests of the cleaner        *)
(* interleave (get_deployed_job_tags, _list). It says nothing of the further *)
(* images of a job with several: they are kept under another name than they  *)
(* are pushed with (job-user-module there, job-1 in get_job_image).          *)
RemovedIsUnused ==
    \A r \in removed : \A e \in r.users : r.path[1][1] = "job-1" \/ <<e, r.path>> \in later

(* The newest versions of the images of Racetrack are kept, as many as the    *)
(* setting says, and those that every environment runs, however the pages of *)
(* the registry moved while they were read.                                  *)
NewestAreKept ==
    \A r \in removed : r.path[1][1] = "core" =>
        /\ r.users = {} /\ Spare # 0
        /\ Cardinality({t \in 1..MaxTag : t > r.path[2]}) >= Spare

-----------------------------------------------------------------------------
(* The bumper. The text of a version is its numbers and what follows them;    *)
(* it is read back as a version of a merge request only if two numbers follow *)
Part == {"major", "minor", "patch", "dev"}
Positive(n) == IF n > 0 THEN <<n>> ELSE <<>>
VersionText(v) == [base |-> <<v.major, v.minor, v.patch>>, tail |-> Positive(v.mr) \o Positive(v.dev)]

Parse(text) ==
    LET detailed == Len(text.tail) >= 2
    IN  [major |-> text.base[1], minor |-> text.base[2], patch |-> text.base[3],
         mr |-> IF detailed THEN text.tail[1] ELSE 0, dev |-> IF detailed THEN text.tail[2] ELSE 0]

Bump(v, part) ==
    CASE part = "major" -> [v EXCEPT !.major = @ + 1, !.minor = 0, !.patch = 0]
      [] part = "minor" -> [v EXCEPT !.minor = @ + 1, !.patch = 0]
      [] part = "patch" -> [v EXCEPT !.patch = @ + 1]
      [] part = "dev" -> [v EXCEPT !.dev = @ + 1]

(* What is found is replaced, what follows it stays *)
Found(text, v) == text.base = VersionText(v).base /\ IsPrefix(VersionText(v).tail, text.tail)
Replace(text, old, new) ==
    [base |-> VersionText(new).base, tail |-> VersionText(new).tail \o SubSeq(text.tail, Len(VersionText(old).tail) + 1, Len(text.tail))]

Exact == {[base |-> <<1, 0, 1>>, tail |-> <<>>], [base |-> <<2, 0, 0>>, tail |-> <<7, 1>>]}
NoExact == [base |-> <<>>, tail |-> <<>>]
Arguments == [mr : {0, 7}, exact : Exact \cup {NoExact}, part : Part]

BumperInit ==
    /\ makefile = [base |-> <<1, 0, 0>>, tail |-> <<>>] /\ init = makefile
    /\ bumper = [pc |-> "idle"] /\ bumps = 0 /\ reported = FALSE

\* The mutant forgets the files of official releases for an exact version
OfficialIfBumped(args, new) == new.mr = 0 /\ args.exact = NoExact
(* The files of official releases are edited unless it is a version of a merge request *)
Official(args, new) == new.mr = 0

NewVersion(args) ==
    LET old == Parse(makefile)
        requested == IF args.mr # 0 THEN [old EXCEPT !.mr = args.mr] ELSE old
        chosen == IF args.exact # NoExact THEN Parse(args.exact) ELSE requested
    IN  IF chosen.mr # 0 THEN Bump(chosen, "dev")
        ELSE IF args.exact # NoExact THEN chosen ELSE Bump(chosen, args.part)

ReadVersion(args) ==
    /\ bumper.pc = "idle" /\ bumps < MaxBumps
    /\ bumps' = bumps + 1
    /\ IF NewVersion(args) = Parse(makefile) THEN UNCHANGED bumper
       ELSE bumper' = [pc |-> "makefile", old |-> Parse(makefile), new |-> NewVersion(args),
                       official |-> Official(args, NewVersion(args))]
    /\ UNCHANGED <<makefile, init, reported>>

(* replace_in_file: the Makefile is written before the next file is looked at *)
ReplaceInMakefile ==
    /\ bumper.pc = "makefile"
    /\ makefile' = Replace(makefile, bumper.old, bumper.new)
    /\ bumper' = IF bumper.official THEN [bumper EXCEPT !.pc = "init"] ELSE [pc |-> "idle"]
    /\ UNCHANGED <<init, bumps, reported>>

ReplaceInInit ==
    /\ bumper.pc = "init"
    /\ IF Found(init, bumper.old) THEN init' = Replace(init, bumper.old, bumper.new) /\ UNCHANGED reported
       ELSE reported' = TRUE /\ UNCHANGED init
    /\ bumper' = [pc |-> "idle"]
    /\ UNCHANGED <<makefile, bumps>>

BumperNext == (\E args \in Arguments : ReadVersion(args)) \/ ReplaceInMakefile \/ ReplaceInInit

(* The client is released with the version of the Makefile: they differ only *)
(* between the edits, while the Makefile names a merge request, or after the *)
(* bumper ended with an error. It then has written the Makefile, finds       *)
(* nothing to do when it is run again, and the next release fails as well.   *)
ReleasedTogether ==
    bumper.pc = "idle" /\ makefile # init => Parse(makefile).mr # 0 \/ reported

(* The tools of the maintainers remove nothing that is used, and release    *)
(* what belongs together.                                                   *)
MaintenanceIsSafe == RemovedIsUnused /\ NewestAreKept /\ ReleasedTogether
=============================================================================
