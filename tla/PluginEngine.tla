---------------------------- MODULE PluginEngine ----------------------------
(***************************************************************************)
(* The plugin engines of Racetrack's processes (Lifecycle, its supervisor, *)
(* the Image Builder), which load plugins from one shared directory.       *)
(* Requests to Lifecycle change the directory; the others watch the flag   *)
(* file last-change.txt.  Nothing is locked: threads of one process and    *)
(* the processes themselves read and write the same files step by step.    *)
(***************************************************************************)
EXTENDS Integers, FiniteSets

CONSTANTS
    Process,        \* processes with a plugin engine
    Server,         \* the process that serves the requests
    Request,        \* threads of requests
    Stem,           \* plugin versions: names of files in the directory
    MaxUploads,     \* bound: uploads
    MaxDeletes,     \* bound: deletions
    MaxRestarts,    \* bound: restarts of processes
    MaxTime         \* bound: seconds

ASSUME EngineAssumption ==
    /\ Server \in Process /\ Request \cap Process = {} /\ Stem # {}
    /\ MaxUploads \in Nat \ {0} /\ MaxDeletes \in Nat /\ MaxRestarts \in Nat
    /\ MaxTime \in Nat \ {0}

VARIABLES
    zip,            \* [Stem -> Content]: the ZIP files
    extracted,      \* [Stem -> Content or Partial]: the extracted directories
    flag,           \* last-change.txt, 0 when there is none
    now,            \* time in seconds
    data,           \* [Process -> [Stem -> Content]]: plugins_data
    last,           \* [Process -> last_change_timestamp]
    thread,         \* [Thread -> ThreadState]
    uploads, deletes, restarts,
    infra,          \* the stems are versions of one infrastructure plugin
    stepped,        \* history: files changed under a load, or were loaded under
                    \* a change
    broken,         \* history: a load found a file missing or half a directory
    failed,         \* history: processes whose latest load failed
    missed,         \* history: an upload ended with an error, and no record of
                    \* its files was written since
    blind,          \* history: an upload looked for the versions it replaces
                    \* among plugins that Lifecycle had failed to load
    clashed,        \* history: a record hid another one
    cut,            \* history: a request was cut off by a restart
    raced           \* history: two requests were served at the same time

files == <<zip, extracted>>
counters == <<uploads, deletes, restarts, infra>>
loads == <<broken, failed, missed>>
pluginVars == <<files, flag, now, data, last, thread, counters, stepped, loads,
          blind, clashed, cut, raced>>

-----------------------------------------------------------------------------
\* The n-th upload has content n; Partial is a directory that is being filled.
Content == 0..MaxUploads
Absent == 0
Partial == -1
Time == 0..MaxTime

\* One thread watches in every process, the others serve requests.
Thread == Process \cup Request
ProcessOf(t) == IF t \in Request THEN Server ELSE t

\* stem, new: what is uploaded.  old: the versions still to be deleted.  todo,
\* got: the load in progress.
ThreadState ==
    [pc : {"idle", "rmdir", "unlink", "move", "scan", "open", "extract", "read",
           "assign", "record", "write", "sync"},
     task : {"none", "upload", "delete", "deleteAll", "reload", "start"},
     stem : Stem, new : Content, old : SUBSET Stem, todo : SUBSET Stem,
     got : [Stem -> Content \cup {Partial}]]
NoPlugins == [s \in Stem |-> Absent]
AnyStem == CHOOSE s \in Stem : TRUE
Idle == [pc |-> "idle", task |-> "none", stem |-> AnyStem, new |-> Absent,
         old |-> {}, todo |-> {}, got |-> NoPlugins]

\* PluginEngine.__init__ loads before it watches.
Starting == [Idle EXCEPT !.pc = "scan", !.task = "start"]

\* The processes start together, on a directory that may hold a plugin (upload
\* 1) which has not been extracted yet, and a flag file.
PluginInit ==
    /\ \E present \in SUBSET {AnyStem} :
          zip = [s \in Stem |-> IF s \in present THEN 1 ELSE Absent]
    /\ extracted = NoPlugins
    /\ flag \in {0, 1} /\ now = 1
    /\ data = [p \in Process |-> NoPlugins]
    /\ last = [p \in Process |-> 0]
    /\ thread = [t \in Thread |-> IF t \in Process THEN Starting ELSE Idle]
    /\ uploads = 1 /\ deletes = 0 /\ restarts = 0 /\ infra \in BOOLEAN
    /\ stepped = FALSE /\ broken = FALSE /\ failed = {} /\ missed = FALSE
    /\ blind = FALSE /\ clashed = FALSE /\ cut = FALSE /\ raced = FALSE

Goto(t, pc) == thread' = [thread EXCEPT ![t].pc = pc]
Done(t) == thread' = [thread EXCEPT ![t] = Idle]
Running == {t \in Thread : thread[t].pc # "idle"}

history == <<stepped, loads, blind, clashed, cut, raced>>

-----------------------------------------------------------------------------
(* Requests *)

\* Requests are served once the engine has started.
Begin(t, task, s, new, old, pc) ==
    /\ t \in Request /\ thread[t].pc = "idle" /\ thread[Server].task # "start"
    /\ thread' = [thread EXCEPT ![t] =
                     [Idle EXCEPT !.pc = pc, !.task = task, !.stem = s,
                                  !.new = new, !.old = old]]
    /\ raced' = (raced \/ Running \cap Request # {})
    /\ UNCHANGED <<files, flag, now, data, last, restarts, infra, stepped,
                   loads, clashed, cut>>

Loaded(p) == {s \in Stem : data[p][s] # Absent}

\* upload_plugin: the file is checked in a directory of its own.  Replacing
\* deletes the versions that are loaded, otherwise only this version's files go;
\* an infrastructure plugin that is loaded has to be replaced.
Upload(t, s, replace) ==
    LET old == IF replace THEN Loaded(Server) ELSE {s} IN
    /\ uploads < MaxUploads /\ uploads' = uploads + 1
    /\ infra /\ ~replace => Loaded(Server) = {}
    /\ Begin(t, "upload", s, uploads', old,
             IF old = {} THEN "move" ELSE "rmdir")
    /\ blind' = (blind \/ (Server \in failed /\ (replace \/ infra)))
    /\ UNCHANGED deletes

\* delete_plugin_by_version, of a version that is loaded or has files.
Delete(t, s) ==
    /\ deletes < MaxDeletes /\ deletes' = deletes + 1
    /\ s \in Loaded(Server) \/ zip[s] # Absent \/ extracted[s] # Absent
    /\ Begin(t, "delete", s, Absent, {s}, "rmdir")
    /\ UNCHANGED <<uploads, blind>>

\* delete_all_plugins removes the ZIP files before the directories.
DeleteAll(t) ==
    /\ deletes < MaxDeletes /\ deletes' = deletes + 1
    /\ Begin(t, "deleteAll", AnyStem, Absent, Stem, "unlink")
    /\ UNCHANGED <<uploads, blind>>

OldStem(t) == CHOOSE s \in thread[t].old : TRUE

\* What a step of the request removes: one version, or all.
Without(t, dir) ==
    [s \in Stem |-> IF thread[t].task = "deleteAll" \/ s = OldStem(t)
                    THEN Absent ELSE dir[s]]

Changing(t) ==
    \/ thread[t].pc \in {"move", "extract"}
    \/ thread[t].pc = "unlink" /\ thread[t].task # "deleteAll"
    \/ thread[t].pc = "rmdir" /\ thread[t].task = "deleteAll"
Loading(t) == thread[t].pc \in {"open", "extract", "read", "assign", "sync"}

\* t changes files while somebody else loads them or is changing them.
Intrudes(t) ==
    stepped' = (stepped \/ \E u \in Thread \ {t} : Changing(u) \/ Loading(u))

\* _delete_plugin_files: the extracted directory ...
RemoveDirectory(t) ==
    /\ thread[t].pc = "rmdir"
    /\ extracted' = Without(t, extracted)
    /\ Goto(t, IF thread[t].task = "deleteAll" THEN "record" ELSE "unlink")
    /\ Intrudes(t)
    /\ UNCHANGED <<zip, flag, now, data, last, counters, loads, blind,
                   clashed, cut, raced>>

\* ... and the ZIP file.
Unlink(t) ==
    /\ thread[t].pc = "unlink"
    /\ zip' = Without(t, zip)
    /\ thread' = [thread EXCEPT ![t].old = @ \ {OldStem(t)},
                    ![t].pc = IF \/ thread[t].task = "deleteAll"
                                 \/ thread[t].old # {OldStem(t)} THEN "rmdir"
                              ELSE IF thread[t].task = "upload" THEN "move"
                              ELSE "record"]
    /\ Intrudes(t)
    /\ UNCHANGED <<extracted, flag, now, data, last, counters, loads, blind,
                   clashed, cut, raced>>

\* upload_plugin: the new file is moved into the directory, then loaded.
Move(t) ==
    /\ thread[t].pc = "move"
    /\ zip' = [zip EXCEPT ![thread[t].stem] = thread[t].new]
    /\ Goto(t, "scan")
    /\ Intrudes(t)
    /\ UNCHANGED <<extracted, flag, now, data, last, counters, loads, blind,
                   clashed, cut, raced>>

\* _record_last_change: the engine remembers the time it is about to write ...
Record(t) ==
    /\ thread[t].pc = "record"
    /\ last' = [last EXCEPT ![ProcessOf(t)] = now]
    /\ Goto(t, "write")
    /\ UNCHANGED <<files, flag, now, data, counters, history>>

\* The record is not newer than the one it replaces, or an engine that starts
\* replaces one that it has not seen.
Hides(t) ==
    last[ProcessOf(t)] <= flag \/ (thread[t].task = "start" /\ flag # 0)

\* Mutant: a deletion leaves the flag file alone.
WriteUploads(t) ==
    /\ thread[t].pc = "write"
    /\ flag' = IF thread[t].task = "delete" THEN flag ELSE last[ProcessOf(t)]
    /\ clashed' = (clashed \/ Hides(t))
    /\ missed' = (missed /\ thread[t].task = "start")
    /\ IF thread[t].task \in {"upload", "start"} THEN Done(t) ELSE Goto(t, "scan")
    /\ UNCHANGED <<files, now, data, last, counters, stepped, broken, failed,
                   blind, cut, raced>>

\* ... and writes what it remembers by then: a watcher of the same process that
\* saw the difference has taken the old time back.  An upload is over once it is
\* recorded, a deletion is loaded after that.
WriteFlag(t) ==
    /\ thread[t].pc = "write"
    /\ flag' = last[ProcessOf(t)]
    /\ clashed' = (clashed \/ Hides(t))
    /\ missed' = (missed /\ thread[t].task = "start")
    /\ IF thread[t].task \in {"upload", "start"} THEN Done(t) ELSE Goto(t, "scan")
    /\ UNCHANGED <<files, now, data, last, counters, stepped, broken, failed,
                   blind, cut, raced>>

-----------------------------------------------------------------------------
(* Loading *)

\* compare_changes, by a notification or once a minute.
CompareChanges(p) ==
    /\ thread[p].pc = "idle" /\ last[p] # flag
    /\ last' = [last EXCEPT ![p] = flag]
    /\ thread' = [thread EXCEPT ![p].pc = "scan", ![p].task = "reload"]
    /\ UNCHANGED <<files, flag, now, data, counters, history>>

\* load_plugins_from_dir lists the ZIP files.
Scan(t) ==
    /\ thread[t].pc = "scan"
    /\ thread' = [thread EXCEPT ![t].todo = {s \in Stem : zip[s] # Absent},
                    ![t].got = NoPlugins,
                    ![t].pc = IF zip = NoPlugins THEN "assign" ELSE "open"]
    /\ stepped' = (stepped \/ \E u \in Thread \ {t} : Changing(u))
    /\ UNCHANGED <<files, flag, now, data, last, counters, loads, blind,
                   clashed, cut, raced>>

NextStem(t) == CHOOSE s \in thread[t].todo : TRUE

\* The engine that starts goes on to read the flag.
LoadEnds(t) == IF thread[t].task = "start" THEN Goto(t, "sync") ELSE Done(t)

\* An exception of a load, for the files or for another reason, ends the request
\* before it is recorded; the engine keeps what it has.
LoadFails(t, fault) ==
    /\ LoadEnds(t)
    /\ broken' = (broken \/ fault)
    /\ failed' = failed \cup {ProcessOf(t)}
    /\ missed' = (missed \/ thread[t].task = "upload")
    /\ UNCHANGED <<extracted, stepped>>

\* Mutant: the directory that was just made is taken as it is, too.
OpenOnly(t) ==
    LET s == NextStem(t) IN
    /\ thread[t].pc = "open" /\ zip[s] # Absent
    /\ extracted' = [extracted EXCEPT ![s] = IF @ = Absent THEN Partial ELSE @]
    /\ Goto(t, "read")
    /\ UNCHANGED <<zip, flag, now, data, last, counters, history>>

\* load_plugin_from_zip: a directory that exists is taken as it is.
Open(t) ==
    LET s == NextStem(t) IN
    /\ thread[t].pc = "open"
    /\ \/ /\ zip[s] = Absent /\ LoadFails(t, TRUE)
       \/ /\ zip[s] # Absent /\ extracted[s] = Absent
          /\ extracted' = [extracted EXCEPT ![s] = Partial]
          /\ Goto(t, "extract") /\ Intrudes(t)
          /\ UNCHANGED loads
       \/ /\ zip[s] # Absent /\ extracted[s] # Absent
          /\ Goto(t, "read")
          /\ UNCHANGED <<extracted, stepped, loads>>
    /\ UNCHANGED <<zip, flag, now, data, last, counters, blind, clashed, cut,
                   raced>>

\* extractall; without the file it raises and leaves the directory behind.
Extract(t) ==
    LET s == NextStem(t) IN
    /\ thread[t].pc = "extract"
    /\ \/ /\ zip[s] = Absent /\ LoadFails(t, TRUE)
       \/ /\ zip[s] # Absent
          /\ extracted' = [extracted EXCEPT ![s] = zip[s]]
          /\ Goto(t, "read") /\ Intrudes(t)
          /\ UNCHANGED loads
    /\ UNCHANGED <<zip, flag, now, data, last, counters, blind, clashed, cut,
                   raced>>

\* _load_plugin_from_dir: what is read of a directory that is being filled may
\* be enough to be loaded, or not; a whole plugin fails when its dependencies
\* cannot be installed or its constructor raises.
ReadPlugin(t) ==
    LET s == NextStem(t)
        rest == thread[t].todo \ {s}
    IN
    /\ thread[t].pc = "read"
    /\ \/ LoadFails(t, extracted[s] \in {Absent, Partial})
       \/ /\ extracted[s] # Absent
          /\ thread' = [thread EXCEPT ![t].got[s] = extracted[s],
                          ![t].todo = rest,
                          ![t].pc = IF rest = {} THEN "assign" ELSE "open"]
          /\ UNCHANGED <<extracted, stepped, loads>>
    /\ UNCHANGED <<zip, flag, now, data, last, counters, blind, clashed, cut,
                   raced>>

\* _load_plugins: plugins_data is replaced; on_reload, which Lifecycle has, may
\* raise after that, and an upload is not recorded then.
Assign(t) ==
    /\ thread[t].pc = "assign"
    /\ data' = [data EXCEPT ![ProcessOf(t)] = thread[t].got]
    /\ failed' = failed \ {ProcessOf(t)}
    /\ \/ /\ IF thread[t].task = "upload" THEN Goto(t, "record") ELSE LoadEnds(t)
          /\ UNCHANGED missed
       \/ thread[t].task = "upload" /\ Done(t) /\ missed' = TRUE
    /\ UNCHANGED <<files, flag, now, last, counters, stepped, broken, blind,
                   clashed, cut, raced>>

\* _watch_plugins_changes: the first timestamp is read after the first load, and
\* written when there is none.
Sync(t) ==
    /\ thread[t].pc = "sync"
    /\ last' = [last EXCEPT ![t] = flag]
    /\ IF flag = 0 THEN Goto(t, "record") ELSE Done(t)
    /\ UNCHANGED <<files, flag, now, data, counters, history>>

\* A process ends at any point and starts again.
Restart(p) ==
    /\ restarts < MaxRestarts /\ restarts' = restarts + 1
    /\ thread' = [t \in Thread |->
                     IF t = p THEN Starting
                     ELSE IF ProcessOf(t) = p THEN Idle ELSE thread[t]]
    /\ data' = [data EXCEPT ![p] = NoPlugins]
    /\ last' = [last EXCEPT ![p] = 0]
    /\ cut' = (cut \/ \E t \in Running : ProcessOf(t) = p)
    /\ UNCHANGED <<files, flag, now, uploads, deletes, infra, stepped, loads,
                   blind, clashed, raced>>

Tick ==
    /\ now < MaxTime /\ now' = now + 1
    /\ UNCHANGED <<files, flag, data, last, thread, counters, history>>

-----------------------------------------------------------------------------
Work(t) ==
    \/ RemoveDirectory(t) \/ Unlink(t) \/ Move(t) \/ Record(t) \/ WriteFlag(t)
    \/ Scan(t) \/ Open(t) \/ Extract(t) \/ ReadPlugin(t) \/ Assign(t)
    \/ Sync(t)

PluginNext ==
    \/ \E t \in Thread : Work(t)
    \/ \E p \in Process : CompareChanges(p) \/ Restart(p)
    \/ \E t \in Request :
          \/ DeleteAll(t)
          \/ \E s \in Stem :
                Delete(t, s) \/ \E replace \in BOOLEAN : Upload(t, s, replace)
    \/ Tick

PluginSpec == PluginInit /\ [][PluginNext]_pluginVars

-----------------------------------------------------------------------------
\* Type invariant of the directory, the engines and their threads.
PluginTypeOK ==
    /\ zip \in [Stem -> Content] /\ extracted \in [Stem -> Content \cup {Partial}]
    /\ flag \in Time /\ now \in Time
    /\ data \in [Process -> [Stem -> Content \cup {Partial}]]
    /\ last \in [Process -> Time]
    /\ thread \in [Thread -> ThreadState]
    /\ uploads \in 0..MaxUploads /\ deletes \in 0..MaxDeletes
    /\ restarts \in 0..MaxRestarts /\ infra \in BOOLEAN
    /\ stepped \in BOOLEAN /\ broken \in BOOLEAN /\ failed \subseteq Process
    /\ missed \in BOOLEAN /\ blind \in BOOLEAN /\ clashed \in BOOLEAN
    /\ cut \in BOOLEAN /\ raced \in BOOLEAN

\* Nothing runs and every process has seen the flag.
Quiet == Running = {} /\ \A p \in Process : last[p] = flag

\* When everything is quiet every process has the plugins of the directory, but
\* those whose latest load failed, and those that were not told because the
\* upload ended with an error.  That fails when files were changed while somebody
\* else loaded or changed them; when two requests were served at the same time (a
\* file that the other has uploaded stays extracted); when a record hid another
\* one: two changes were recorded in one second or in the wrong order, a watcher
\* took back the time before it was written, an engine that started recorded its
\* own time over a change; when a request was cut off between its files and its
\* record; and when an upload replaced what Lifecycle had failed to load.
LoadedIsUploaded ==
    Quiet => \/ stepped \/ raced \/ clashed \/ cut \/ blind
             \/ \A p \in Process : data[p] = zip \/ p \in failed \/ (missed /\ p # Server)

\* Half of a plugin is loaded only if files were changed under a load, or a
\* restart left a directory half extracted: the flag file does not prevent it.
HalfLoadedHasCause ==
    \A p \in Process, s \in Stem : data[p][s] = Partial => stepped \/ cut

\* A load finds a file missing or half a directory for the same causes only; a
\* plugin that raises by itself is another matter.
BrokenLoadHasCause == broken => stepped \/ cut

Present == {s \in Stem : zip[s] # Absent}

\* There is one version of an infrastructure plugin at a time, unless requests
\* were served at the same time, or Lifecycle has not loaded what is there: its
\* load failed or saw half of a change, or it ended in between.
OneInfrastructure ==
    infra => Cardinality(Present) <= 1 \/ stepped \/ raced \/ cut \/ blind

\* What an engine holds is whole and of one version (load_plugin_from_zip,
\* upload_plugin).
PluginsAreWhole == HalfLoadedHasCause /\ BrokenLoadHasCause /\ OneInfrastructure

\* The state constraint of the run: once files were changed under a load, a
\* request was cut off or a record hidden, there is an excuse.  What is about the
\* files alone holds after a hidden record, too (PluginEngineProofs).
Unexcused == ~stepped /\ ~cut /\ ~clashed
=============================================================================
