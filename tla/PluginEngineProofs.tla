------------------------- MODULE PluginEngineProofs -------------------------
(***************************************************************************)
(* Theorems about PluginEngine, for every set of processes, requests and   *)
(* versions: what an engine holds is whole and of one version, and when    *)
(* everything is quiet every process has loaded what was uploaded, except  *)
(* for the causes that the properties name.  While no file was changed     *)
(* under a load (stepped), a change excludes loads, and what a load has    *)
(* read so far is what the directory holds.                                *)
(***************************************************************************)
EXTENDS PluginEngine, FiniteSetTheorems, TLAPS

-----------------------------------------------------------------------------
(* The inductive invariant *)

Chosen(todo) == CHOOSE s \in todo : TRUE

\* What a thread can be at.
Shape(t) ==
    LET q == thread[t] IN
    /\ q.pc = "idle" <=> q.task = "none"
    /\ q.pc \in {"open", "extract", "read"} => q.todo # {}
    /\ q.pc = "assign" => q.todo = {}
    /\ t \in Process =>
          /\ q.task \in {"none", "start", "reload"}
          /\ q.pc \notin {"rmdir", "unlink", "move"}
          /\ q.task = "reload" => q.pc \notin {"record", "write", "sync"}
    /\ t \in Request =>
          /\ q.task \in {"none", "upload", "delete", "deleteAll"}
          /\ q.pc # "sync"
          /\ q.pc \in {"rmdir", "unlink"} /\ q.task # "deleteAll" => q.old # {}
          /\ q.pc = "move" => q.task = "upload" /\ q.old = {}
          /\ q.task = "upload" => q.new # Absent

Shapes == \A t \in Thread : Shape(t)

\* No request is served while Lifecycle's engine starts.
StartsAlone ==
    thread[Server].task = "start" => \A t \in Request : thread[t].pc = "idle"

OneAtATime ==
    ~raced => \A t, u \in Request :
                 thread[t].pc # "idle" /\ thread[u].pc # "idle" => t = u

-----------------------------------------------------------------------------
Clean == ~stepped /\ ~cut

\* t is half way through a change that others must not see.
Midway(t) ==
    \/ thread[t].pc = "extract"
    \/ thread[t].pc = "unlink" /\ thread[t].task # "deleteAll"
    \/ thread[t].pc = "rmdir" /\ thread[t].task = "deleteAll"

Exclusive ==
    \A t, u \in Thread : t # u /\ Midway(u) => ~Midway(t) /\ ~Loading(t)

\* The files of a thread: what it has still to load is there, and what it
\* unlinks has no directory.
Sound(q, z, x) ==
    /\ q.got \in [Stem -> Content]
    /\ q.pc \in {"open", "extract", "read"} => \A s \in q.todo : z[s] # Absent
    /\ q.pc = "read" => x[Chosen(q.todo)] # Absent
    /\ q.pc = "unlink" /\ q.task # "deleteAll" => x[Chosen(q.old)] = Absent

Owned(s) == \E u \in Thread : thread[u].pc = "extract" /\ Chosen(thread[u].todo) = s

Intact ==
    /\ Exclusive
    /\ \A t \in Thread : Sound(thread[t], zip, extracted)
    /\ \A s \in Stem : extracted[s] = Partial => Owned(s)
    /\ data \in [Process -> [Stem -> Content]]
    /\ ~broken

Whole == Clean => Intact

-----------------------------------------------------------------------------
Orderly == Clean /\ ~raced /\ ~blind

\* The directories are those of the files, except while all of them are deleted.
Clearing == \E u \in Request : thread[u].pc = "rmdir" /\ thread[u].task = "deleteAll"
DirectoriesFit ==
    Clearing \/ \A s \in Stem : extracted[s] \in {Absent, Partial, zip[s]}

\* What was loaded so far is what is there, and an upload clears the way for
\* its file; that of an infrastructure plugin clears all.
Fits(q, z, x, i) ==
    /\ q.pc \in {"open", "extract", "read", "assign"} =>
          \A s \in Stem \ q.todo : q.got[s] = z[s]
    /\ q.pc \in {"rmdir", "unlink", "move"} /\ q.task = "upload" =>
          /\ q.stem \in q.old \/ (z[q.stem] = Absent /\ x[q.stem] = Absent)
          /\ i => \A s \in Stem : z[s] # Absent => s \in q.old

\* t has changed files, or will, and Lifecycle has not tried to load them.
Unloaded(t) ==
    /\ thread[t].pc # "idle"
    /\ thread[t].task = "upload" => thread[t].pc \notin {"record", "write"}

ServerIsCurrent ==
    \/ data[Server] = zip
    \/ Server \in failed
    \/ thread[Server].task = "start" /\ thread[Server].pc \in {"scan", "open", "extract", "read", "assign"}
    \/ \E t \in Request : Unloaded(t)

OneVersion ==
    infra => \A r, s \in Stem : zip[r] # Absent /\ zip[s] # Absent => r = s

InOrder ==
    /\ DirectoriesFit
    /\ \A t \in Thread : Fits(thread[t], zip, extracted, infra)
    /\ ServerIsCurrent
    /\ OneVersion

Order == Orderly => InOrder

-----------------------------------------------------------------------------
\* t has changed files, or will, and has not recorded it.
Unrecorded(t) ==
    /\ thread[t].pc # "idle"
    /\ thread[t].task = "upload" \/ thread[t].pc \in {"rmdir", "unlink", "record", "write"}

\* Somebody has, or did and failed to.
Untold == missed \/ \E t \in Request : Unrecorded(t)

\* A process never remembers a later time than the one in the file, save for
\* the one it is about to write.
Remembers(p) == thread[p].pc # "write" => last[p] <= flag

\* p has what is there, or has failed to load it, or will load it, or its record
\* will hide another one, or nobody has told it yet.
Follows(p) ==
    \/ data[p] = zip
    \/ p \in failed
    \/ thread[p].pc \in {"scan", "open", "extract", "read", "assign"}
    \/ thread[p].pc = "idle" /\ last[p] # flag
    \/ thread[p].pc \in {"record", "write"} /\ flag # 0
    \/ thread[p].pc # "sync" /\ Untold

Sight ==
    Orderly /\ ~clashed =>
        \A p \in Process \ {Server} : Remembers(p) /\ Follows(p)

PluginInv ==
    /\ PluginTypeOK /\ Shapes /\ StartsAlone /\ OneAtATime
    /\ Whole /\ Order /\ Sight

-----------------------------------------------------------------------------
(* Steps of a thread *)

PCs == {"idle", "rmdir", "unlink", "move", "scan", "open", "extract", "read",
        "assign", "record", "write", "sync"}

\* The other threads stay as they are.
Alone(t) == \A u \in Thread : u # t => thread'[u] = thread[u]

\* t goes on with what it was asked for; with what it loads.
SameTask(t) ==
    /\ thread'[t].task = thread[t].task /\ thread'[t].stem = thread[t].stem
    /\ thread'[t].new = thread[t].new
SameLoad(t) == thread'[t].todo = thread[t].todo /\ thread'[t].got = thread[t].got

LEMMA Threads ==
    /\ Server \in Thread /\ Process \subseteq Thread /\ Request \subseteq Thread
    /\ \A t \in Thread : ProcessOf(t) \in Process
    /\ \A t \in Process : t \notin Request /\ ProcessOf(t) = t
    /\ \A t \in Request : t \notin Process /\ ProcessOf(t) = Server
BY EngineAssumption DEF Thread, ProcessOf

LEMMA ChosenIsIn == ASSUME NEW S, S # {} PROVE Chosen(S) \in S
BY DEF Chosen

LEMMA AnyStemIsIn == AnyStem \in Stem
BY EngineAssumption DEF AnyStem

LEMMA Moved ==
    ASSUME thread \in [Thread -> ThreadState], NEW t \in Thread, NEW q \in ThreadState,
           thread' = [thread EXCEPT ![t] = q]
    PROVE  thread' \in [Thread -> ThreadState] /\ thread'[t] = q /\ Alone(t)
BY DEF Alone

LEMMA IdleIsThread == Idle \in ThreadState /\ Starting \in ThreadState
<1>1. AnyStem \in Stem /\ Absent \in Content /\ 0 \in Time /\ NoPlugins \in [Stem -> Content \cup {Partial}]
  BY AnyStemIsIn, EngineAssumption DEF Absent, Content, Time, NoPlugins
<1>2. Idle \in ThreadState
  BY <1>1 DEF Idle, ThreadState
<1>3. QED
  BY <1>2 DEF Idle, Starting, ThreadState

LEMMA IdleFields ==
    /\ Idle.pc = "idle" /\ Idle.task = "none" /\ Idle.old = {} /\ Idle.todo = {} /\ Idle.got = NoPlugins
    /\ Starting.pc = "scan" /\ Starting.task = "start" /\ Starting.got = NoPlugins
BY DEF Idle, Starting

LEMMA GotoMoves ==
    ASSUME thread \in [Thread -> ThreadState], NEW t \in Thread, NEW pc \in PCs, Goto(t, pc)
    PROVE  /\ thread' \in [Thread -> ThreadState] /\ Alone(t)
           /\ thread'[t].pc = pc /\ SameTask(t) /\ SameLoad(t)
           /\ thread'[t].old = thread[t].old
<1> DEFINE q == [thread[t] EXCEPT !.pc = pc]
<1>1. thread[t] \in ThreadState
  OBVIOUS
<1>2. q \in ThreadState
  BY <1>1 DEF ThreadState, PCs
<1>3. q.pc = pc /\ q.task = thread[t].task /\ q.stem = thread[t].stem /\ q.new = thread[t].new
      /\ q.old = thread[t].old /\ q.todo = thread[t].todo /\ q.got = thread[t].got
  BY <1>1 DEF ThreadState
<1>4. thread' = [thread EXCEPT ![t] = q]
  BY DEF Goto
<1> HIDE DEF q
<1>5. thread' \in [Thread -> ThreadState] /\ thread'[t] = q /\ Alone(t)
  BY <1>2, <1>4, Moved
<1>6. QED
  BY <1>3, <1>5 DEF SameTask, SameLoad

LEMMA DoneMoves ==
    ASSUME thread \in [Thread -> ThreadState], NEW t \in Thread, Done(t)
    PROVE  thread' \in [Thread -> ThreadState] /\ Alone(t) /\ thread'[t] = Idle
BY IdleIsThread, Moved DEF Done

LEMMA LoadEndsMoves ==
    ASSUME thread \in [Thread -> ThreadState], NEW t \in Thread, LoadEnds(t)
    PROVE  /\ thread' \in [Thread -> ThreadState] /\ Alone(t)
           /\ \/ /\ thread[t].task = "start" /\ thread'[t].pc = "sync"
                 /\ SameTask(t) /\ SameLoad(t)
              \/ thread[t].task # "start" /\ thread'[t] = Idle
<1>1. CASE thread[t].task = "start"
  <2>1. Goto(t, "sync") /\ "sync" \in PCs
    BY <1>1 DEF LoadEnds, PCs
  <2>2. QED
    BY <1>1, <2>1, GotoMoves
<1>2. CASE thread[t].task # "start"
  <2>1. Done(t)
    BY <1>2 DEF LoadEnds
  <2>2. QED
    BY <1>2, <2>1, DoneMoves
<1>3. QED
  BY <1>1, <1>2

LEMMA UnlinkMoves ==
    ASSUME thread \in [Thread -> ThreadState], NEW t \in Thread, Unlink(t)
    PROVE  /\ thread' \in [Thread -> ThreadState] /\ Alone(t) /\ SameTask(t) /\ SameLoad(t)
           /\ thread'[t].old = thread[t].old \ {OldStem(t)}
           /\ thread'[t].pc = IF thread[t].task = "deleteAll" \/ thread[t].old # {OldStem(t)} THEN "rmdir"
                              ELSE IF thread[t].task = "upload" THEN "move"
                              ELSE "record"
<1> DEFINE pc == IF thread[t].task = "deleteAll" \/ thread[t].old # {OldStem(t)} THEN "rmdir"
                 ELSE IF thread[t].task = "upload" THEN "move"
                 ELSE "record"
           old == thread[t].old \ {OldStem(t)}
           q == [thread[t] EXCEPT !.old = old, !.pc = pc]
<1>1. thread[t] \in ThreadState
  OBVIOUS
<1>2. pc \in {"rmdir", "move", "record"} /\ old \subseteq Stem
  BY <1>1 DEF ThreadState
<1>3. thread' = [thread EXCEPT ![t] = q]
  BY DEF Unlink
<1> HIDE DEF pc, old
<1>4. q \in ThreadState
  BY <1>1, <1>2 DEF ThreadState
<1>5. q.pc = pc /\ q.task = thread[t].task /\ q.stem = thread[t].stem /\ q.new = thread[t].new
      /\ q.old = old /\ q.todo = thread[t].todo /\ q.got = thread[t].got
  BY <1>1 DEF ThreadState
<1> HIDE DEF q
<1>6. thread' \in [Thread -> ThreadState] /\ thread'[t] = q /\ Alone(t)
  BY <1>3, <1>4, Moved
<1>7. QED
  BY <1>5, <1>6 DEF SameTask, SameLoad, pc, old

LEMMA RecordMoves ==
    ASSUME thread \in [Thread -> ThreadState], NEW t \in Thread, Record(t)
    PROVE  /\ thread' \in [Thread -> ThreadState] /\ Alone(t) /\ SameTask(t) /\ SameLoad(t)
           /\ thread'[t].pc = "write" /\ thread'[t].old = thread[t].old
BY GotoMoves DEF Record, PCs

LEMMA CompareMoves ==
    ASSUME thread \in [Thread -> ThreadState], NEW t \in Thread, CompareChanges(t)
    PROVE  /\ thread' \in [Thread -> ThreadState] /\ Alone(t) /\ SameLoad(t)
           /\ thread'[t].pc = "scan" /\ thread'[t].task = "reload"
<1> DEFINE q == [thread[t] EXCEPT !.pc = "scan", !.task = "reload"]
<1>1. thread[t] \in ThreadState
  OBVIOUS
<1>2. thread' = [thread EXCEPT ![t] = q]
  BY DEF CompareChanges
<1>3. q \in ThreadState
  BY <1>1 DEF ThreadState
<1>4. q.pc = "scan" /\ q.task = "reload" /\ q.todo = thread[t].todo /\ q.got = thread[t].got
  BY <1>1 DEF ThreadState
<1> HIDE DEF q
<1>5. thread' \in [Thread -> ThreadState] /\ thread'[t] = q /\ Alone(t)
  BY <1>2, <1>3, Moved
<1>6. QED
  BY <1>4, <1>5 DEF SameLoad

LEMMA ScanMoves ==
    ASSUME thread \in [Thread -> ThreadState], NEW t \in Thread, Scan(t)
    PROVE  /\ thread' \in [Thread -> ThreadState] /\ Alone(t) /\ SameTask(t)
           /\ thread'[t].pc = IF zip = NoPlugins THEN "assign" ELSE "open"
           /\ thread'[t].todo = Present /\ thread'[t].got = NoPlugins
           /\ thread'[t].old = thread[t].old
<1> DEFINE pc == IF zip = NoPlugins THEN "assign" ELSE "open"
           q == [thread[t] EXCEPT !.todo = Present, !.got = NoPlugins, !.pc = pc]
<1>1. thread[t] \in ThreadState
  OBVIOUS
<1>2. thread' = [thread EXCEPT ![t] = q]
  BY DEF Scan, Present
<1>3. NoPlugins \in [Stem -> Content \cup {Partial}] /\ Present \subseteq Stem
  BY EngineAssumption DEF NoPlugins, Content, Absent, Present
<1>4. q \in ThreadState
  BY <1>1, <1>3 DEF ThreadState
<1>5. q.pc = pc /\ q.task = thread[t].task /\ q.stem = thread[t].stem /\ q.new = thread[t].new
      /\ q.old = thread[t].old /\ q.todo = Present /\ q.got = NoPlugins
  BY <1>1 DEF ThreadState
<1> HIDE DEF q
<1>6. thread' \in [Thread -> ThreadState] /\ thread'[t] = q /\ Alone(t)
  BY <1>2, <1>4, Moved
<1>7. QED
  BY <1>5, <1>6 DEF SameTask, pc

\* A version has been read.
Reads(t) ==
    LET s == NextStem(t)
        rest == thread[t].todo \ {s}
    IN
    /\ extracted[s] # Absent
    /\ thread' = [thread EXCEPT ![t].got[s] = extracted[s], ![t].todo = rest,
                    ![t].pc = IF rest = {} THEN "assign" ELSE "open"]

LEMMA ReadsMoves ==
    ASSUME thread \in [Thread -> ThreadState], NEW t \in Thread, Reads(t),
           extracted \in [Stem -> Content \cup {Partial}], thread[t].todo # {}
    PROVE  /\ thread' \in [Thread -> ThreadState] /\ Alone(t) /\ SameTask(t)
           /\ NextStem(t) \in thread[t].todo /\ NextStem(t) \in Stem
           /\ thread'[t].todo = thread[t].todo \ {NextStem(t)}
           /\ thread'[t].got = [thread[t].got EXCEPT ![NextStem(t)] = extracted[NextStem(t)]]
           /\ thread'[t].pc = IF thread'[t].todo = {} THEN "assign" ELSE "open"
           /\ thread'[t].old = thread[t].old
<1> DEFINE s == NextStem(t)
           rest == thread[t].todo \ {s}
           pc == IF rest = {} THEN "assign" ELSE "open"
           got == [thread[t].got EXCEPT ![s] = extracted[s]]
           q == [thread[t] EXCEPT !.got = got, !.todo = rest, !.pc = pc]
<1>1. thread[t] \in ThreadState
  OBVIOUS
<1>2. s \in thread[t].todo /\ thread[t].todo \subseteq Stem
  <2>1. s = Chosen(thread[t].todo)
    BY DEF NextStem, Chosen
  <2>2. QED
    BY <1>1, <2>1, ChosenIsIn DEF ThreadState
<1>3. thread' = [thread EXCEPT ![t] = q]
  BY DEF Reads
<1>4. rest \subseteq Stem /\ got \in [Stem -> Content \cup {Partial}] /\ pc \in {"assign", "open"}
  <2>1. thread[t].got \in [Stem -> Content \cup {Partial}]
    BY <1>1 DEF ThreadState
  <2>2. extracted[s] \in Content \cup {Partial}
    BY <1>2
  <2>3. QED
    BY <1>2, <2>1, <2>2
<1> HIDE DEF s, rest, pc, got
<1>5. q \in ThreadState
  BY <1>1, <1>4 DEF ThreadState
<1>6. q.pc = pc /\ q.task = thread[t].task /\ q.stem = thread[t].stem /\ q.new = thread[t].new
      /\ q.old = thread[t].old /\ q.todo = rest /\ q.got = got
  BY <1>1 DEF ThreadState
<1> HIDE DEF q
<1>7. thread' \in [Thread -> ThreadState] /\ thread'[t] = q /\ Alone(t)
  BY <1>3, <1>5, Moved
<1>8. QED
  BY <1>2, <1>6, <1>7 DEF SameTask, pc, rest, got, s

\* A request begins, and what Upload, Delete and DeleteAll ask for.
Asked(t, task, s, new, old, pc) ==
    /\ t \in Request
    /\ task \in {"upload", "delete", "deleteAll"} /\ s \in Stem /\ new \in Content /\ old \in SUBSET Stem
    /\ task = "upload" =>
          /\ new # Absent
          /\ s \in old \/ data[Server][s] = Absent
          /\ infra => \A r \in Stem : data[Server][r] # Absent => r \in old
          /\ Server \in failed /\ ~blind' => s \in old /\ ~infra
          /\ pc = IF old = {} THEN "move" ELSE "rmdir"
    /\ task = "delete" => pc = "rmdir" /\ old # {}
    /\ task = "deleteAll" => pc = "unlink"
    /\ Begin(t, task, s, new, old, pc)

LEMMA BeginMoves ==
    ASSUME thread \in [Thread -> ThreadState], NEW t, NEW task, NEW s, NEW new, NEW old, NEW pc,
           Asked(t, task, s, new, old, pc), pc \in PCs
    PROVE  /\ t \in Thread /\ thread' \in [Thread -> ThreadState] /\ Alone(t)
           /\ thread'[t].pc = pc /\ thread'[t].task = task /\ thread'[t].stem = s
           /\ thread'[t].new = new /\ thread'[t].old = old
           /\ thread'[t].todo = {} /\ thread'[t].got = NoPlugins
<1> DEFINE q == [Idle EXCEPT !.pc = pc, !.task = task, !.stem = s, !.new = new, !.old = old]
<1>1. t \in Thread /\ thread' = [thread EXCEPT ![t] = q]
  BY DEF Asked, Begin, Thread
<1>2. q \in ThreadState
  BY IdleIsThread DEF Asked, ThreadState, PCs
<1>3. q.pc = pc /\ q.task = task /\ q.stem = s /\ q.new = new /\ q.old = old
      /\ q.todo = {} /\ q.got = NoPlugins
  BY DEF Idle
<1> HIDE DEF q
<1>4. thread' \in [Thread -> ThreadState] /\ thread'[t] = q /\ Alone(t)
  BY <1>1, <1>2, Moved
<1>5. QED
  BY <1>1, <1>3, <1>4

-----------------------------------------------------------------------------
(* The types and the shapes of the threads are kept *)

Base == PluginTypeOK /\ Shapes /\ StartsAlone /\ OneAtATime

\* A step of a thread that runs, or of a process.
LEMMA BaseKept ==
    ASSUME Base, NEW t \in Thread, thread[t].pc # "idle" \/ t \in Process,
           Alone(t), PluginTypeOK', Shape(t)', raced' = raced,
           thread'[t].task = "start" => thread[t].task = "start"
    PROVE  Base'
<1>1. Shapes'
  BY DEF Base, Shapes, Alone, Shape
<1>2. \A u \in Request : thread'[u].pc # "idle" => thread[u].pc # "idle"
  BY Threads DEF Alone
<1>3. StartsAlone'
  BY <1>2, Threads DEF Base, StartsAlone, Alone
<1>4. OneAtATime'
  BY <1>2 DEF Base, OneAtATime
<1>5. QED
  BY <1>1, <1>3, <1>4 DEF Base

LEMMA ShapeGoto ==
    ASSUME Base, NEW t \in Thread, SameTask(t), SameLoad(t), thread'[t].old = thread[t].old,
           thread'[t].pc \in {"unlink", "scan", "extract", "read", "record", "sync"},
           thread[t].pc # "idle",
           thread'[t].pc = "unlink" => thread[t].pc = "rmdir",
           thread'[t].pc \in {"extract", "read"} => thread[t].pc \in {"open", "extract"},
           thread'[t].pc \in {"record", "sync"} => thread[t].task # "reload",
           thread'[t].pc = "sync" => t \in Process
    PROVE  Shape(t)'
<1>1. Shape(t)
  BY DEF Base, Shapes
<1>2. QED
  BY <1>1, Threads DEF Shape, SameTask, SameLoad

LEMMA ShapeIdle ==
    ASSUME NEW t \in Thread, thread'[t] = Idle PROVE Shape(t)'
BY IdleFields DEF Shape

LEMMA ShapeLoadEnds ==
    ASSUME Base, NEW t \in Thread, thread[t].pc \in {"open", "extract", "read", "assign"}, LoadEnds(t)
    PROVE  /\ thread' \in [Thread -> ThreadState] /\ Alone(t) /\ Shape(t)'
           /\ thread'[t].task = "start" => thread[t].task = "start"
           /\ thread'[t].pc \in {"idle", "sync"}
<1>1. thread \in [Thread -> ThreadState]
  BY DEF Base, PluginTypeOK
<1>2. CASE thread[t].task = "start"
  <2>1. Goto(t, "sync") /\ "sync" \in PCs
    BY <1>2 DEF LoadEnds, PCs
  <2>2. /\ thread' \in [Thread -> ThreadState] /\ Alone(t) /\ SameTask(t) /\ SameLoad(t)
        /\ thread'[t].pc = "sync" /\ thread'[t].old = thread[t].old
    BY <1>1, <2>1, GotoMoves
  <2>3. t \in Process
    BY <1>2 DEF Base, Shapes, Shape, Thread
  <2>4. Shape(t)'
    BY <1>2, <2>2, <2>3, ShapeGoto
  <2>5. QED
    BY <1>2, <2>2, <2>4
<1>3. CASE thread[t].task # "start"
  <2>1. Done(t)
    BY <1>3 DEF LoadEnds
  <2>2. QED
    BY <1>1, <2>1, DoneMoves, ShapeIdle, IdleFields
<1>4. QED
  BY <1>2, <1>3

LEMMA RemoveDirectoryBase == ASSUME Base, NEW t \in Thread, RemoveDirectory(t) PROVE Base'
<1>1. thread \in [Thread -> ThreadState] /\ PluginTypeOK /\ Shape(t)
  BY DEF Base, PluginTypeOK, Shapes
<1>2. /\ thread' \in [Thread -> ThreadState] /\ Alone(t) /\ SameTask(t) /\ SameLoad(t)
      /\ thread'[t].pc = IF thread[t].task = "deleteAll" THEN "record" ELSE "unlink"
      /\ thread'[t].old = thread[t].old
  BY <1>1, GotoMoves DEF RemoveDirectory, PCs
<1>3. extracted' \in [Stem -> Content \cup {Partial}]
  BY <1>1, EngineAssumption DEF RemoveDirectory, Without, PluginTypeOK, Content, Absent
<1>4. PluginTypeOK'
  BY <1>1, <1>2, <1>3 DEF RemoveDirectory, PluginTypeOK, counters, Intrudes, loads
<1>5. Shape(t)'
  BY <1>1, <1>2, ShapeGoto, Threads DEF RemoveDirectory, Shape
<1>6. QED
  BY <1>2, <1>4, <1>5, BaseKept DEF RemoveDirectory, SameTask

LEMMA UnlinkBase == ASSUME Base, NEW t \in Thread, Unlink(t) PROVE Base'
<1>1. thread \in [Thread -> ThreadState] /\ PluginTypeOK /\ Shape(t)
  BY DEF Base, PluginTypeOK, Shapes
<1>2. /\ thread' \in [Thread -> ThreadState] /\ Alone(t) /\ SameTask(t) /\ SameLoad(t)
      /\ thread'[t].old = thread[t].old \ {OldStem(t)}
      /\ thread'[t].pc = IF thread[t].task = "deleteAll" \/ thread[t].old # {OldStem(t)} THEN "rmdir"
                         ELSE IF thread[t].task = "upload" THEN "move"
                         ELSE "record"
  BY <1>1, UnlinkMoves
<1>3. zip' \in [Stem -> Content]
  BY <1>1, EngineAssumption DEF Unlink, Without, PluginTypeOK, Content, Absent
<1>4. PluginTypeOK'
  BY <1>1, <1>2, <1>3 DEF Unlink, PluginTypeOK, counters, Intrudes, loads
<1>5. t \in Request /\ t \notin Process
  BY <1>1, Threads DEF Unlink, Shape, Thread
<1>6. Shape(t)'
  <2>1. thread[t].task # "deleteAll" => thread[t].old # {} /\ OldStem(t) \in thread[t].old
    BY <1>1, <1>5, ChosenIsIn DEF Shape, Unlink, OldStem, Chosen
  <2>2. thread[t].task # "deleteAll" /\ thread[t].old # {OldStem(t)} => thread'[t].old # {}
    BY <1>2, <2>1
  <2>3. thread'[t].pc = "move" => thread[t].task = "upload" /\ thread'[t].old = {}
    BY <1>2
  <2>4. thread'[t].pc \in {"rmdir", "move", "record"}
    BY <1>2
  <2>5. thread'[t].pc = "rmdir" /\ thread[t].task # "deleteAll" => thread'[t].old # {}
    BY <1>2, <2>2
  <2>6. QED
    BY <1>1, <1>2, <1>5, <2>3, <2>4, <2>5 DEF Shape, SameTask, Unlink
<1>7. QED
  BY <1>2, <1>4, <1>6, BaseKept DEF Unlink, SameTask

LEMMA MoveBase == ASSUME Base, NEW t \in Thread, Move(t) PROVE Base'
<1>1. thread \in [Thread -> ThreadState] /\ PluginTypeOK /\ Shape(t) /\ thread[t] \in ThreadState
  BY DEF Base, PluginTypeOK, Shapes
<1>2. /\ thread' \in [Thread -> ThreadState] /\ Alone(t) /\ SameTask(t) /\ SameLoad(t)
      /\ thread'[t].pc = "scan" /\ thread'[t].old = thread[t].old
  BY <1>1, GotoMoves DEF Move, PCs
<1>3. zip' \in [Stem -> Content]
  <2>1. thread[t].new \in Content
    BY <1>1 DEF ThreadState
  <2>2. QED
    BY <1>1, <2>1 DEF Move, PluginTypeOK
<1>4. PluginTypeOK'
  BY <1>1, <1>2, <1>3 DEF Move, PluginTypeOK, counters, Intrudes, loads
<1>5. Shape(t)'
  BY <1>1, <1>2, ShapeGoto DEF Move
<1>6. QED
  BY <1>2, <1>4, <1>5, BaseKept DEF Move, SameTask

LEMMA RecordBase == ASSUME Base, NEW t \in Thread, Record(t) PROVE Base'
<1>1. thread \in [Thread -> ThreadState] /\ PluginTypeOK /\ Shape(t) /\ now \in Time
  BY DEF Base, PluginTypeOK, Shapes
<1>2. /\ thread' \in [Thread -> ThreadState] /\ Alone(t) /\ SameTask(t) /\ SameLoad(t)
      /\ thread'[t].pc = "write" /\ thread'[t].old = thread[t].old
  BY <1>1, RecordMoves
<1>3. last' \in [Process -> Time]
  BY <1>1 DEF Record, PluginTypeOK
<1>4. PluginTypeOK'
  BY <1>1, <1>2, <1>3 DEF Record, PluginTypeOK, counters, history, files, loads
<1>5. Shape(t)'
  BY <1>1, <1>2, Threads DEF Record, Shape, SameTask, SameLoad
<1>6. QED
  BY <1>2, <1>4, <1>5, BaseKept DEF Record, SameTask, history

LEMMA WriteFlagBase == ASSUME Base, NEW t \in Thread, WriteFlag(t) PROVE Base'
<1>1. thread \in [Thread -> ThreadState] /\ PluginTypeOK /\ Shape(t) /\ thread[t] \in ThreadState
  BY DEF Base, PluginTypeOK, Shapes
<1>2. /\ thread' \in [Thread -> ThreadState] /\ Alone(t) /\ Shape(t)'
      /\ thread'[t].task = "start" => thread[t].task = "start"
  <2>1. CASE thread[t].task \in {"upload", "start"}
    BY <1>1, <2>1, DoneMoves, ShapeIdle, IdleFields DEF WriteFlag
  <2>2. CASE thread[t].task \notin {"upload", "start"}
    <3>1. /\ thread' \in [Thread -> ThreadState] /\ Alone(t) /\ SameTask(t) /\ SameLoad(t)
          /\ thread'[t].pc = "scan" /\ thread'[t].old = thread[t].old
      BY <1>1, <2>2, GotoMoves DEF WriteFlag, PCs
    <3>2. Shape(t)'
      BY <3>1, ShapeGoto DEF WriteFlag
    <3>3. QED
      BY <3>1, <3>2 DEF SameTask
  <2>3. QED
    BY <2>1, <2>2
<1>3. last[ProcessOf(t)] \in Time
  BY <1>1, Threads DEF PluginTypeOK
<1>4. PluginTypeOK'
  BY <1>1, <1>2, <1>3 DEF WriteFlag, PluginTypeOK, counters, files, Hides
<1>5. QED
  BY <1>2, <1>4, BaseKept DEF WriteFlag

LEMMA CompareBase == ASSUME Base, NEW t \in Process, CompareChanges(t) PROVE Base'
<1>1. thread \in [Thread -> ThreadState] /\ PluginTypeOK /\ Shape(t) /\ t \in Thread
  BY Threads DEF Base, PluginTypeOK, Shapes
<1>2. /\ thread' \in [Thread -> ThreadState] /\ Alone(t)
      /\ thread'[t].pc = "scan" /\ thread'[t].task = "reload"
  BY <1>1, CompareMoves
<1>3. last' \in [Process -> Time]
  BY <1>1 DEF CompareChanges, PluginTypeOK
<1>4. PluginTypeOK'
  BY <1>1, <1>2, <1>3 DEF CompareChanges, PluginTypeOK, counters, history, files, loads
<1>5. Shape(t)'
  BY <1>2, Threads DEF Shape
<1>6. QED
  BY <1>1, <1>2, <1>4, <1>5, BaseKept DEF CompareChanges, history

LEMMA ScanBase == ASSUME Base, NEW t \in Thread, Scan(t) PROVE Base'
<1>1. thread \in [Thread -> ThreadState] /\ PluginTypeOK /\ Shape(t)
  BY DEF Base, PluginTypeOK, Shapes
<1>2. /\ thread' \in [Thread -> ThreadState] /\ Alone(t) /\ SameTask(t)
      /\ thread'[t].pc = IF zip = NoPlugins THEN "assign" ELSE "open"
      /\ thread'[t].todo = Present /\ thread'[t].old = thread[t].old
  BY <1>1, ScanMoves
<1>3. Present = {} <=> zip = NoPlugins
  BY <1>1 DEF PluginTypeOK, Present, NoPlugins
<1>4. Shape(t)'
  <2>1. thread[t].pc = "scan"
    BY DEF Scan
  <2>2. thread'[t].pc \in {"assign", "open"} /\ (thread'[t].pc = "assign" <=> thread'[t].todo = {})
    BY <1>2, <1>3
  <2>3. QED
    BY <1>1, <1>2, <2>1, <2>2, Threads DEF Shape, SameTask
<1>5. PluginTypeOK'
  BY <1>1, <1>2 DEF Scan, PluginTypeOK, counters, files, loads
<1>6. QED
  BY <1>2, <1>4, <1>5, BaseKept DEF Scan, SameTask

\* A load fails.
LEMMA FailsBase ==
    ASSUME Base, NEW t \in Thread, thread[t].pc \in {"open", "extract", "read"},
           NEW fault, LoadFails(t, fault),
           UNCHANGED <<zip, flag, now, data, last, counters, blind, clashed, cut, raced>>
    PROVE  Base'
<1>1. PluginTypeOK
  BY DEF Base
<1>2. /\ thread' \in [Thread -> ThreadState] /\ Alone(t) /\ Shape(t)'
      /\ thread'[t].task = "start" => thread[t].task = "start"
  BY ShapeLoadEnds DEF LoadFails
<1>3. failed' \subseteq Process /\ broken' \in BOOLEAN /\ missed' \in BOOLEAN
  BY <1>1, Threads DEF LoadFails, PluginTypeOK
<1>4. PluginTypeOK'
  BY <1>1, <1>2, <1>3 DEF LoadFails, PluginTypeOK, counters
<1>5. QED
  BY <1>2, <1>4, BaseKept

\* A load goes on to the next step.
LEMMA GoesOnBase ==
    ASSUME Base, NEW t \in Thread, thread[t].pc \in {"open", "extract"},
           NEW pc \in {"extract", "read"}, Goto(t, pc), extracted' \in [Stem -> Content \cup {Partial}],
           stepped' \in BOOLEAN,
           UNCHANGED <<zip, flag, now, data, last, counters, loads, blind, clashed, cut, raced>>
    PROVE  Base'
<1>1. PluginTypeOK /\ thread \in [Thread -> ThreadState] /\ pc \in PCs
  BY DEF Base, PluginTypeOK, PCs
<1>2. /\ thread' \in [Thread -> ThreadState] /\ Alone(t) /\ SameTask(t) /\ SameLoad(t)
      /\ thread'[t].pc = pc /\ thread'[t].old = thread[t].old
  BY <1>1, GotoMoves
<1>3. Shape(t)'
  BY <1>2, ShapeGoto
<1>4. PluginTypeOK'
  BY <1>1, <1>2 DEF PluginTypeOK, counters, loads
<1>5. QED
  BY <1>2, <1>3, <1>4, BaseKept DEF SameTask

LEMMA OpenBase == ASSUME Base, NEW t \in Thread, Open(t) PROVE Base'
<1>1. PluginTypeOK /\ thread[t].pc = "open" /\ thread[t].todo # {} /\ thread[t] \in ThreadState
  BY DEF Base, Open, Shapes, Shape, PluginTypeOK
<1>2. UNCHANGED <<zip, flag, now, data, last, counters, blind, clashed, cut, raced>>
  BY DEF Open
<1>3. NextStem(t) \in Stem
  BY <1>1, ChosenIsIn DEF ThreadState, NextStem, Chosen
<1>4. CASE LoadFails(t, TRUE)
  BY <1>1, <1>2, <1>4, FailsBase
<1>5. CASE extracted' = [extracted EXCEPT ![NextStem(t)] = Partial] /\ Goto(t, "extract")
           /\ Intrudes(t) /\ UNCHANGED loads
  BY <1>1, <1>2, <1>3, <1>5, GoesOnBase DEF PluginTypeOK, Intrudes
<1>6. CASE Goto(t, "read") /\ UNCHANGED <<extracted, stepped, loads>>
  BY <1>1, <1>2, <1>6, GoesOnBase DEF PluginTypeOK
<1>7. QED
  BY <1>4, <1>5, <1>6 DEF Open

LEMMA ExtractBase == ASSUME Base, NEW t \in Thread, Extract(t) PROVE Base'
<1>1. PluginTypeOK /\ thread[t].pc = "extract" /\ thread[t].todo # {} /\ thread[t] \in ThreadState
  BY DEF Base, Extract, Shapes, Shape, PluginTypeOK
<1>2. UNCHANGED <<zip, flag, now, data, last, counters, blind, clashed, cut, raced>>
  BY DEF Extract
<1>3. NextStem(t) \in Stem
  BY <1>1, ChosenIsIn DEF ThreadState, NextStem, Chosen
<1>4. CASE LoadFails(t, TRUE)
  BY <1>1, <1>2, <1>4, FailsBase
<1>5. CASE extracted' = [extracted EXCEPT ![NextStem(t)] = zip[NextStem(t)]] /\ Goto(t, "read")
           /\ Intrudes(t) /\ UNCHANGED loads
  BY <1>1, <1>2, <1>3, <1>5, GoesOnBase DEF PluginTypeOK, Intrudes
<1>6. QED
  BY <1>4, <1>5 DEF Extract

LEMMA ReadBase == ASSUME Base, NEW t \in Thread, ReadPlugin(t) PROVE Base'
<1>1. PluginTypeOK /\ thread[t].pc = "read" /\ thread[t].todo # {} /\ Shape(t)
      /\ extracted \in [Stem -> Content \cup {Partial}] /\ thread \in [Thread -> ThreadState]
  BY DEF Base, ReadPlugin, Shapes, Shape, PluginTypeOK
<1>2. UNCHANGED <<zip, flag, now, data, last, counters, blind, clashed, cut, raced>>
  BY DEF ReadPlugin
<1>3. CASE LoadFails(t, extracted[NextStem(t)] \in {Absent, Partial})
  BY <1>1, <1>2, <1>3, FailsBase
<1>4. CASE Reads(t) /\ UNCHANGED <<extracted, stepped, loads>>
  <2>1. /\ thread' \in [Thread -> ThreadState] /\ Alone(t) /\ SameTask(t)
        /\ thread'[t].pc = IF thread'[t].todo = {} THEN "assign" ELSE "open"
        /\ thread'[t].old = thread[t].old
    BY <1>1, <1>4, ReadsMoves
  <2>2. Shape(t)'
    BY <1>1, <2>1, Threads DEF Shape, SameTask
  <2>3. PluginTypeOK'
    BY <1>1, <1>2, <1>4, <2>1 DEF PluginTypeOK, counters, loads
  <2>4. QED
    BY <1>1, <1>2, <2>1, <2>2, <2>3, BaseKept DEF SameTask
<1>5. QED
  BY <1>3, <1>4 DEF ReadPlugin, Reads

LEMMA AssignBase == ASSUME Base, NEW t \in Thread, Assign(t) PROVE Base'
<1>1. thread \in [Thread -> ThreadState] /\ PluginTypeOK /\ Shape(t) /\ thread[t] \in ThreadState
      /\ thread[t].pc = "assign"
  BY DEF Base, PluginTypeOK, Shapes, Assign
<1>2. /\ thread' \in [Thread -> ThreadState] /\ Alone(t) /\ Shape(t)'
      /\ thread'[t].task = "start" => thread[t].task = "start"
  <2>1. CASE thread[t].task = "upload" /\ Goto(t, "record")
    <3>1. /\ thread' \in [Thread -> ThreadState] /\ Alone(t) /\ SameTask(t) /\ SameLoad(t)
          /\ thread'[t].pc = "record" /\ thread'[t].old = thread[t].old
      BY <1>1, <2>1, GotoMoves DEF PCs
    <3>2. Shape(t)'
      BY <1>1, <2>1, <3>1, ShapeGoto
    <3>3. QED
      BY <3>1, <3>2 DEF SameTask
  <2>2. CASE Done(t)
    BY <1>1, <2>2, DoneMoves, ShapeIdle, IdleFields
  <2>3. CASE LoadEnds(t)
    BY <1>1, <2>3, ShapeLoadEnds
  <2>4. QED
    BY <2>1, <2>2, <2>3 DEF Assign
<1>3. data' \in [Process -> [Stem -> Content \cup {Partial}]]
  <2>1. thread[t].got \in [Stem -> Content \cup {Partial}]
    BY <1>1 DEF ThreadState
  <2>2. QED
    BY <1>1, <2>1 DEF Assign, PluginTypeOK
<1>4. failed' \subseteq Process /\ missed' \in BOOLEAN
  BY <1>1 DEF Assign, PluginTypeOK
<1>5. PluginTypeOK'
  BY <1>1, <1>2, <1>3, <1>4 DEF Assign, PluginTypeOK, counters, files
<1>6. QED
  BY <1>1, <1>2, <1>5, BaseKept DEF Assign

LEMMA SyncBase == ASSUME Base, NEW t \in Thread, Sync(t) PROVE Base'
<1>1. thread \in [Thread -> ThreadState] /\ PluginTypeOK /\ Shape(t) /\ thread[t].pc = "sync"
  BY DEF Base, PluginTypeOK, Shapes, Sync
<1>2. /\ thread' \in [Thread -> ThreadState] /\ Alone(t) /\ Shape(t)'
      /\ thread'[t].task = "start" => thread[t].task = "start"
  <2>1. CASE flag = 0
    <3>1. /\ thread' \in [Thread -> ThreadState] /\ Alone(t) /\ SameTask(t) /\ SameLoad(t)
          /\ thread'[t].pc = "record" /\ thread'[t].old = thread[t].old
      BY <1>1, <2>1, GotoMoves DEF Sync, PCs
    <3>2. thread[t].task # "reload"
      BY <1>1, Threads DEF Shape, Thread
    <3>3. Shape(t)'
      BY <1>1, <3>1, <3>2, ShapeGoto
    <3>4. QED
      BY <3>1, <3>3 DEF SameTask
  <2>2. CASE flag # 0
    BY <1>1, <2>2, DoneMoves, ShapeIdle, IdleFields DEF Sync
  <2>3. QED
    BY <2>1, <2>2
<1>3. last' \in [Process -> Time]
  BY <1>1 DEF Sync, PluginTypeOK
<1>4. PluginTypeOK'
  BY <1>1, <1>2, <1>3 DEF Sync, PluginTypeOK, counters, history, files, loads
<1>5. QED
  BY <1>1, <1>2, <1>4, BaseKept DEF Sync, history

LEMMA UploadAsks ==
    ASSUME Base, NEW t \in Request, NEW s \in Stem, NEW replace \in BOOLEAN, Upload(t, s, replace)
    PROVE  /\ uploads' \in 0..MaxUploads /\ deletes' = deletes /\ blind' \in BOOLEAN
           /\ \E new, old, pc : Asked(t, "upload", s, new, old, pc)
<1> DEFINE old == IF replace THEN Loaded(Server) ELSE {s}
           pc == IF old = {} THEN "move" ELSE "rmdir"
<1>1. uploads \in 0..MaxUploads
  BY DEF Base, PluginTypeOK
<1>2. uploads < MaxUploads /\ uploads' = uploads + 1 /\ deletes' = deletes
      /\ (infra /\ ~replace => Loaded(Server) = {})
      /\ Begin(t, "upload", s, uploads', old, pc)
  BY DEF Upload
<1>3. uploads' \in 0..MaxUploads /\ uploads' # 0
  BY <1>1, <1>2, EngineAssumption
<1>4. old \in SUBSET Stem /\ (s \in old \/ data[Server][s] = Absent)
  BY DEF Loaded
<1>5. infra => \A r \in Stem : data[Server][r] # Absent => r \in old
  BY <1>2 DEF Loaded
<1> HIDE DEF old
<1>6. blind' \in BOOLEAN /\ (Server \in failed /\ ~blind' => s \in old /\ ~infra)
  BY DEF Upload, Base, PluginTypeOK, old
<1>7. Asked(t, "upload", s, uploads', old, pc)
  BY <1>2, <1>3, <1>4, <1>5, <1>6 DEF Asked, Content, Absent
<1>8. QED
  BY <1>2, <1>3, <1>6, <1>7

LEMMA BeginBase ==
    ASSUME Base, NEW t, NEW task, NEW s, NEW new, NEW old, NEW pc, Asked(t, task, s, new, old, pc),
           uploads' \in 0..MaxUploads, deletes' \in 0..MaxDeletes, blind' \in BOOLEAN
    PROVE  Base'
<1>1. thread \in [Thread -> ThreadState] /\ PluginTypeOK /\ pc \in PCs \ {"idle", "sync"}
  BY DEF Base, PluginTypeOK, Asked, PCs
<1>2. /\ t \in Thread /\ thread' \in [Thread -> ThreadState] /\ Alone(t)
      /\ thread'[t].pc = pc /\ thread'[t].task = task /\ thread'[t].stem = s
      /\ thread'[t].new = new /\ thread'[t].old = old
      /\ thread'[t].todo = {} /\ thread'[t].got = NoPlugins
  BY <1>1, BeginMoves
<1>3. PluginTypeOK'
  BY <1>1, <1>2 DEF Asked, Begin, PluginTypeOK, files, loads
<1>4. Shape(t)'
  BY <1>1, <1>2, Threads DEF Asked, Shape
<1>5. Shapes'
  BY <1>2, <1>4 DEF Base, Shapes, Alone, Shape
<1>6. StartsAlone'
  BY <1>2, Threads DEF Asked, Begin, StartsAlone, Alone
<1>7. OneAtATime'
  <2> SUFFICES ASSUME ~raced', NEW u \in Request, NEW v \in Request,
                      thread'[u].pc # "idle", thread'[v].pc # "idle"
               PROVE  u = v
    BY DEF OneAtATime
  <2>1. \A r \in Request : thread[r].pc = "idle"
    BY Threads DEF Asked, Begin, Running
  <2>2. QED
    BY <1>2, <2>1, Threads DEF Alone
<1>8. QED
  BY <1>3, <1>5, <1>6, <1>7 DEF Base

\* A request begins.
Requests(t) ==
    \/ DeleteAll(t)
    \/ \E s \in Stem : Delete(t, s) \/ \E replace \in BOOLEAN : Upload(t, s, replace)

LEMMA RequestAsks ==
    ASSUME Base, NEW t \in Request, Requests(t)
    PROVE  /\ uploads' \in 0..MaxUploads /\ deletes' \in 0..MaxDeletes /\ blind' \in BOOLEAN
           /\ \E task, s, new, old, pc : Asked(t, task, s, new, old, pc)
<1>1. uploads \in 0..MaxUploads /\ deletes \in 0..MaxDeletes /\ blind \in BOOLEAN
  BY DEF Base, PluginTypeOK
<1>2. CASE DeleteAll(t)
  <2>1. deletes' \in 0..MaxDeletes /\ uploads' = uploads /\ blind' = blind
    BY <1>1, <1>2, EngineAssumption DEF DeleteAll
  <2>2. Asked(t, "deleteAll", AnyStem, Absent, Stem, "unlink")
    BY <1>2, AnyStemIsIn, EngineAssumption DEF DeleteAll, Asked, Content, Absent
  <2>3. QED
    BY <1>1, <2>1, <2>2
<1>3. ASSUME NEW s \in Stem, Delete(t, s)
      PROVE  deletes' \in 0..MaxDeletes /\ uploads' = uploads /\ blind' = blind /\ Asked(t, "delete", s, Absent, {s}, "rmdir")
  BY <1>1, <1>3, EngineAssumption DEF Delete, Asked, Content, Absent
<1>4. QED
  BY <1>1, <1>2, <1>3, UploadAsks DEF Requests

LEMMA RestartMoves ==
    ASSUME Base, NEW p \in Process, Restart(p)
    PROVE  /\ thread' \in [Thread -> ThreadState]
           /\ thread'[p] = Starting
           /\ \A t \in Thread : t # p /\ ProcessOf(t) = p => thread'[t] = Idle
           /\ \A t \in Thread : ProcessOf(t) # p => thread'[t] = thread[t]
BY Threads, IdleIsThread DEF Restart, Base, PluginTypeOK

LEMMA RestartBase == ASSUME Base, NEW p \in Process, Restart(p) PROVE Base'
<1>1. PluginTypeOK /\ Shapes
  BY DEF Base
<1>2. restarts' \in 0..MaxRestarts
  BY <1>1, EngineAssumption DEF Restart, PluginTypeOK
<1>3. data' \in [Process -> [Stem -> Content \cup {Partial}]] /\ last' \in [Process -> Time]
  BY <1>1, EngineAssumption DEF Restart, PluginTypeOK, NoPlugins, Content, Absent, Time
<1>4. PluginTypeOK'
  BY <1>1, <1>2, <1>3, RestartMoves DEF Restart, PluginTypeOK, files, loads
<1>5. Shapes'
  <2> SUFFICES ASSUME NEW t \in Thread PROVE Shape(t)'
    BY DEF Shapes
  <2>1. CASE t = p
    BY <2>1, RestartMoves, IdleFields, Threads DEF Shape
  <2>2. CASE t # p /\ ProcessOf(t) = p
    BY <2>2, RestartMoves, ShapeIdle
  <2>3. CASE ProcessOf(t) # p
    BY <1>1, <2>3, RestartMoves DEF Shapes, Shape
  <2>4. QED
    BY <2>1, <2>2, <2>3, Threads
<1>6. \A t \in Request : thread'[t].pc # "idle" => thread'[t] = thread[t]
  BY RestartMoves, IdleFields, Threads
<1>7. StartsAlone'
  <2>1. CASE p = Server
    BY <2>1, RestartMoves, IdleFields, Threads DEF StartsAlone
  <2>2. CASE p # Server
    BY <1>6, <2>2, RestartMoves, Threads DEF StartsAlone, Base
  <2>3. QED
    BY <2>1, <2>2
<1>8. OneAtATime'
  BY <1>6 DEF Base, OneAtATime, Restart
<1>9. QED
  BY <1>4, <1>5, <1>7, <1>8 DEF Base

LEMMA TickBase == ASSUME Base, Tick PROVE Base'
<1>1. now' \in Time
  BY EngineAssumption DEF Tick, Base, PluginTypeOK, Time
<1>2. PluginTypeOK'
  BY <1>1 DEF Tick, Base, PluginTypeOK, files, counters, history, loads
<1>3. QED
  BY <1>2 DEF Tick, Base, Shapes, Shape, StartsAlone, OneAtATime, history

LEMMA BaseInit == PluginInit => Base
<1> SUFFICES ASSUME PluginInit PROVE Base
  OBVIOUS
<1>1. \A t \in Thread : thread[t] = IF t \in Process THEN Starting ELSE Idle
  BY DEF PluginInit
<1>2. thread \in [Thread -> ThreadState]
  BY IdleIsThread DEF PluginInit
<1>3. zip \in [Stem -> Content] /\ extracted \in [Stem -> Content \cup {Partial}]
      /\ data \in [Process -> [Stem -> Content \cup {Partial}]]
  <2>1. 0 \in Content /\ 1 \in Content
    BY EngineAssumption DEF Content
  <2>2. QED
    BY <2>1 DEF PluginInit, NoPlugins, Absent
<1>4. flag \in Time /\ now \in Time /\ last \in [Process -> Time]
      /\ uploads \in 0..MaxUploads /\ deletes \in 0..MaxDeletes /\ restarts \in 0..MaxRestarts
  BY EngineAssumption DEF PluginInit, Time
<1>5. PluginTypeOK
  BY <1>2, <1>3, <1>4 DEF PluginInit, PluginTypeOK
<1>6. Shapes
  BY <1>1, IdleFields, Threads DEF Shapes, Shape
<1>7. StartsAlone /\ OneAtATime
  BY <1>1, IdleFields, Threads DEF StartsAlone, OneAtATime
<1>8. QED
  BY <1>5, <1>6, <1>7 DEF Base

LEMMA BaseStep == Base /\ [PluginNext]_pluginVars => Base'
<1> SUFFICES ASSUME Base, [PluginNext]_pluginVars PROVE Base'
  OBVIOUS
<1>1. ASSUME NEW t \in Thread, Work(t) PROVE Base'
  BY <1>1, RemoveDirectoryBase, UnlinkBase, MoveBase, RecordBase, WriteFlagBase, ScanBase,
     OpenBase, ExtractBase, ReadBase, AssignBase, SyncBase DEF Work
<1>2. ASSUME NEW p \in Process, CompareChanges(p) \/ Restart(p) PROVE Base'
  BY <1>2, CompareBase, RestartBase
<1>3. ASSUME NEW t \in Request, Requests(t) PROVE Base'
  BY <1>3, RequestAsks, BeginBase
<1>4. CASE Tick
  BY <1>4, TickBase
<1>5. CASE UNCHANGED pluginVars
  BY <1>5 DEF Base, PluginTypeOK, Shapes, Shape, StartsAlone, OneAtATime, pluginVars, files, counters, loads
<1>6. QED
  BY <1>1, <1>2, <1>3, <1>4, <1>5 DEF PluginNext, Requests

\* The directory, the engines and their threads keep their types.
THEOREM PluginTypesKept == PluginSpec => []PluginTypeOK
<1>1. Base => PluginTypeOK
  BY DEF Base
<1>2. QED
  BY <1>1, BaseInit, BaseStep, PTL DEF PluginSpec

-----------------------------------------------------------------------------
(* Changes exclude loads *)

LEMMA IntactKept ==
    ASSUME Intact, NEW t \in Thread, Alone(t),
           Midway(t)' => Midway(t) \/ \A u \in Thread : u # t => ~Midway(u) /\ ~Loading(u),
           Loading(t)' => Loading(t) \/ \A u \in Thread : u # t => ~Midway(u),
           \A u \in Thread : u # t => Sound(thread[u], zip', extracted'),
           Sound(thread'[t], zip', extracted'),
           \A s \in Stem : extracted'[s] = Partial => Owned(s)',
           data' \in [Process -> [Stem -> Content]], broken' = broken
    PROVE  Intact'
<1>1. \A u \in Thread : u # t => (Midway(u)' <=> Midway(u)) /\ (Loading(u)' <=> Loading(u))
  BY DEF Alone, Midway, Loading
<1>2. Exclusive'
  BY <1>1 DEF Intact, Exclusive
<1>3. \A u \in Thread : Sound(thread'[u], zip', extracted')
  BY DEF Alone
<1>4. QED
  BY <1>2, <1>3 DEF Intact

\* The files stay as they are, and t was not filling a directory.
LEMMA IntactQuiet ==
    ASSUME Intact, NEW t \in Thread, Alone(t), UNCHANGED files,
           thread[t].pc # "extract",
           Midway(t)' => Midway(t),
           Loading(t)' => Loading(t) \/ \A u \in Thread : u # t => ~Midway(u),
           Sound(thread'[t], zip, extracted),
           data' \in [Process -> [Stem -> Content]], broken' = broken
    PROVE  Intact'
<1>1. \A s \in Stem : extracted'[s] = Partial => Owned(s)'
  <2> SUFFICES ASSUME NEW s \in Stem, extracted'[s] = Partial PROVE Owned(s)'
    OBVIOUS
  <2>1. PICK u \in Thread : thread[u].pc = "extract" /\ Chosen(thread[u].todo) = s
    BY DEF Intact, Owned, files
  <2>2. QED
    BY <2>1 DEF Owned, Alone
<1>2. \A u \in Thread : u # t => Sound(thread[u], zip', extracted')
  BY DEF Intact, files
<1>3. QED
  BY <1>1, <1>2, IntactKept DEF files

\* Nobody else loads or changes anything.
Undisturbed(t) == \A u \in Thread : u # t => ~Changing(u) /\ ~Loading(u)

LEMMA Undisturbing ==
    ASSUME NEW t \in Thread, Intrudes(t), ~stepped' PROVE Undisturbed(t)
BY DEF Intrudes, Undisturbed

LEMMA UndisturbedMidway ==
    ASSUME NEW t \in Thread, Undisturbed(t)
    PROVE  \A u \in Thread : u # t => ~Midway(u) /\ ~Loading(u)
BY DEF Undisturbed, Midway, Changing

LEMMA UndisturbedSound ==
    ASSUME Intact, NEW t \in Thread, Undisturbed(t), NEW z, NEW x
    PROVE  \A u \in Thread : u # t => Sound(thread[u], z, x)
BY DEF Intact, Undisturbed, Sound, Changing, Loading

\* When nobody else loads or changes anything, t may change what it likes.
LEMMA IntactUndisturbed ==
    ASSUME Intact, NEW t \in Thread, Alone(t), Undisturbed(t),
           Sound(thread'[t], zip', extracted'),
           \A s \in Stem : extracted'[s] = Partial =>
               \/ extracted[s] = Partial /\ thread[t].pc # "extract"
               \/ thread'[t].pc = "extract" /\ Chosen(thread'[t].todo) = s,
           data' = data, broken' = broken
    PROVE  Intact'
<1>1. \A u \in Thread : u # t => ~Midway(u) /\ ~Loading(u)
  BY UndisturbedMidway
<1>2. \A u \in Thread : u # t => Sound(thread[u], zip', extracted')
  BY UndisturbedSound
<1>3. \A s \in Stem : extracted'[s] = Partial => Owned(s)'
  <2> SUFFICES ASSUME NEW s \in Stem, extracted'[s] = Partial PROVE Owned(s)'
    OBVIOUS
  <2>1. CASE thread'[t].pc = "extract" /\ Chosen(thread'[t].todo) = s
    BY <2>1 DEF Owned
  <2>2. CASE extracted[s] = Partial /\ thread[t].pc # "extract"
    <3>1. PICK u \in Thread : thread[u].pc = "extract" /\ Chosen(thread[u].todo) = s
      BY <2>2 DEF Intact, Owned
    <3>2. QED
      BY <2>2, <3>1 DEF Owned, Alone
  <2>3. QED
    BY <2>1, <2>2
<1>4. data' \in [Process -> [Stem -> Content]]
  BY DEF Intact
<1>5. QED
  BY <1>1, <1>2, <1>3, <1>4, IntactKept

\* A step under which nothing was or is excused.
CleanStep == Clean /\ Clean' /\ Intact

LEMMA RemoveDirectoryIntact ==
    ASSUME Base, NEW t \in Thread, RemoveDirectory(t), CleanStep PROVE Intact'
<1>1. thread \in [Thread -> ThreadState] /\ extracted \in [Stem -> Content \cup {Partial}]
      /\ thread[t] \in ThreadState /\ Shape(t) /\ thread[t].pc = "rmdir"
  BY DEF Base, PluginTypeOK, Shapes, RemoveDirectory
<1>2. /\ Alone(t) /\ SameTask(t) /\ SameLoad(t)
      /\ thread'[t].pc = IF thread[t].task = "deleteAll" THEN "record" ELSE "unlink"
      /\ thread'[t].old = thread[t].old
  BY <1>1, GotoMoves DEF RemoveDirectory, PCs
<1>3. Undisturbed(t)
  BY Undisturbing DEF RemoveDirectory, CleanStep, Clean
<1>4. \A s \in Stem : extracted'[s] = IF thread[t].task = "deleteAll" \/ s = OldStem(t) THEN Absent ELSE extracted[s]
  BY DEF RemoveDirectory, Without
<1>5. thread[t].task # "deleteAll" => Chosen(thread[t].old) \in Stem /\ OldStem(t) = Chosen(thread[t].old)
  <2>1. thread[t].task # "deleteAll" => thread[t].old # {}
    BY <1>1, Threads DEF Shape, Thread
  <2>2. QED
    BY <1>1, <2>1, ChosenIsIn DEF OldStem, Chosen, ThreadState
<1>6. Sound(thread'[t], zip', extracted')
  <2>1. thread'[t].got \in [Stem -> Content]
    BY <1>2 DEF CleanStep, Intact, Sound, SameLoad
  <2>2. thread'[t].pc = "unlink" => extracted'[Chosen(thread'[t].old)] = Absent
    BY <1>2, <1>4, <1>5
  <2>3. QED
    BY <1>2, <2>1, <2>2 DEF Sound
<1>7. \A s \in Stem : extracted'[s] = Partial => extracted[s] = Partial
  BY <1>4 DEF Absent, Partial
<1>8. Intact /\ data' = data /\ broken' = broken
  BY DEF RemoveDirectory, CleanStep, loads
<1>9. \A s \in Stem : extracted'[s] = Partial => extracted[s] = Partial /\ thread[t].pc # "extract"
  BY <1>1, <1>7
<1>10. QED
  BY <1>2, <1>3, <1>6, <1>8, <1>9, IntactUndisturbed

LEMMA UnlinkIntact ==
    ASSUME Base, NEW t \in Thread, Unlink(t), CleanStep PROVE Intact'
<1>1. thread \in [Thread -> ThreadState] /\ thread[t].pc = "unlink"
  BY DEF Base, PluginTypeOK, Unlink
<1>2. Alone(t) /\ SameTask(t) /\ SameLoad(t) /\ thread'[t].pc \in {"rmdir", "move", "record"}
  BY <1>1, UnlinkMoves
<1>3. Undisturbed(t)
  BY Undisturbing DEF Unlink, CleanStep, Clean
<1>4. Sound(thread'[t], zip', extracted')
  BY <1>2 DEF CleanStep, Intact, Sound, SameLoad
<1>5. Intact /\ extracted' = extracted /\ data' = data /\ broken' = broken
  BY DEF Unlink, CleanStep, loads
<1>6. \A s \in Stem : extracted'[s] = Partial => extracted[s] = Partial /\ thread[t].pc # "extract"
  BY <1>1, <1>5
<1>7. QED
  BY <1>2, <1>3, <1>4, <1>5, <1>6, IntactUndisturbed

LEMMA MoveIntact ==
    ASSUME Base, NEW t \in Thread, Move(t), CleanStep PROVE Intact'
<1>1. thread \in [Thread -> ThreadState] /\ thread[t].pc = "move"
  BY DEF Base, PluginTypeOK, Move
<1>2. Alone(t) /\ SameTask(t) /\ SameLoad(t) /\ thread'[t].pc = "scan"
  BY <1>1, GotoMoves DEF Move, PCs
<1>3. Undisturbed(t)
  BY Undisturbing DEF Move, CleanStep, Clean
<1>4. Sound(thread'[t], zip', extracted')
  BY <1>2 DEF CleanStep, Intact, Sound, SameLoad
<1>5. Intact /\ extracted' = extracted /\ data' = data /\ broken' = broken
  BY DEF Move, CleanStep, loads
<1>6. \A s \in Stem : extracted'[s] = Partial => extracted[s] = Partial /\ thread[t].pc # "extract"
  BY <1>1, <1>5
<1>7. QED
  BY <1>2, <1>3, <1>4, <1>5, <1>6, IntactUndisturbed

LEMMA RecordIntact ==
    ASSUME Base, NEW t \in Thread, Record(t), CleanStep PROVE Intact'
<1>1. thread \in [Thread -> ThreadState] /\ now \in Time /\ thread[t].pc = "record"
  BY DEF Base, PluginTypeOK, Record
<1>2. Alone(t) /\ SameLoad(t) /\ thread'[t].pc = "write"
  BY <1>1, RecordMoves
<1>3. ~Midway(t)' /\ ~Loading(t)'
  BY <1>2 DEF Midway, Loading
<1>4. Sound(thread'[t], zip, extracted)
  BY <1>2 DEF CleanStep, Intact, Sound, SameLoad
<1>5. Intact /\ UNCHANGED files /\ data' \in [Process -> [Stem -> Content]] /\ broken' = broken
  BY DEF Record, CleanStep, Intact, history, loads
<1>6. QED
  BY <1>1, <1>2, <1>3, <1>4, <1>5, IntactQuiet

LEMMA WriteFlagIntact ==
    ASSUME Base, NEW t \in Thread, WriteFlag(t), CleanStep PROVE Intact'
<1>1. thread \in [Thread -> ThreadState] /\ thread[t].pc = "write"
  BY DEF Base, PluginTypeOK, WriteFlag
<1>2. /\ Alone(t) /\ thread'[t].pc \in {"idle", "scan"}
      /\ thread'[t].got = thread[t].got \/ thread'[t].got = NoPlugins
  <2>1. CASE thread[t].task \in {"upload", "start"}
    BY <1>1, <2>1, DoneMoves, IdleFields DEF WriteFlag
  <2>2. CASE thread[t].task \notin {"upload", "start"}
    BY <1>1, <2>2, GotoMoves DEF WriteFlag, PCs, SameLoad
  <2>3. QED
    BY <2>1, <2>2
<1>3. ~Midway(t)' /\ ~Loading(t)'
  BY <1>2 DEF Midway, Loading
<1>4. Sound(thread'[t], zip, extracted)
  BY <1>2, EngineAssumption DEF CleanStep, Intact, Sound, NoPlugins, Content, Absent
<1>5. Intact /\ UNCHANGED files /\ data' \in [Process -> [Stem -> Content]] /\ broken' = broken
  BY DEF WriteFlag, CleanStep, Intact
<1>6. QED
  BY <1>1, <1>2, <1>3, <1>4, <1>5, IntactQuiet

LEMMA CompareIntact ==
    ASSUME Base, NEW t \in Process, CompareChanges(t), CleanStep PROVE Intact'
<1>1. thread \in [Thread -> ThreadState] /\ t \in Thread /\ thread[t].pc = "idle"
  BY Threads DEF Base, PluginTypeOK, CompareChanges
<1>2. Alone(t) /\ SameLoad(t) /\ thread'[t].pc = "scan"
  BY <1>1, CompareMoves
<1>3. ~Midway(t)' /\ ~Loading(t)'
  BY <1>2 DEF Midway, Loading
<1>4. Sound(thread'[t], zip, extracted)
  BY <1>1, <1>2 DEF CleanStep, Intact, Sound, SameLoad
<1>5. Intact /\ UNCHANGED files /\ data' \in [Process -> [Stem -> Content]] /\ broken' = broken
  BY DEF CompareChanges, CleanStep, Intact, history, loads
<1>6. QED
  BY <1>1, <1>2, <1>3, <1>4, <1>5, IntactQuiet

LEMMA ScanIntact ==
    ASSUME Base, NEW t \in Thread, Scan(t), CleanStep PROVE Intact'
<1>1. thread \in [Thread -> ThreadState]
  BY DEF Base, PluginTypeOK
<1>2. /\ Alone(t) /\ thread'[t].pc \in {"assign", "open"}
      /\ thread'[t].todo = Present /\ thread'[t].got = NoPlugins
  BY <1>1, ScanMoves
<1>3. thread[t].pc = "scan" /\ UNCHANGED files /\ data' = data /\ broken' = broken
      /\ \A u \in Thread : u # t => ~Changing(u)
  BY DEF Scan, CleanStep, Clean, loads
<1>4. ~Midway(t)' /\ (\A u \in Thread : u # t => ~Midway(u))
  BY <1>2, <1>3 DEF Midway, Changing
<1>5. Sound(thread'[t], zip, extracted)
  BY <1>2, EngineAssumption DEF Sound, NoPlugins, Content, Absent, Present
<1>6. Intact /\ data' \in [Process -> [Stem -> Content]]
  BY <1>3 DEF CleanStep, Intact
<1>7. QED
  BY <1>2, <1>3, <1>4, <1>5, <1>6, IntactQuiet

\* What is to be loaded next.
LEMMA NextStemIsThere ==
    ASSUME Base, Intact, NEW t \in Thread, thread[t].pc \in {"open", "extract", "read"}
    PROVE  /\ thread[t].todo # {} /\ NextStem(t) = Chosen(thread[t].todo)
           /\ NextStem(t) \in thread[t].todo /\ NextStem(t) \in Stem
           /\ zip[NextStem(t)] # Absent
<1>1. thread[t].todo # {} /\ thread[t] \in ThreadState
  BY DEF Base, Shapes, Shape, PluginTypeOK
<1>2. NextStem(t) = Chosen(thread[t].todo)
  BY DEF NextStem, Chosen
<1>3. NextStem(t) \in thread[t].todo /\ NextStem(t) \in Stem
  BY <1>1, <1>2, ChosenIsIn DEF ThreadState
<1>4. QED
  BY <1>1, <1>2, <1>3 DEF Intact, Sound

LEMMA OpenIntact ==
    ASSUME Base, NEW t \in Thread, Open(t), CleanStep PROVE Intact'
<1>1. thread \in [Thread -> ThreadState] /\ thread[t].pc = "open" /\ Intact
      /\ extracted \in [Stem -> Content \cup {Partial}]
  BY DEF Base, PluginTypeOK, Open, CleanStep
<1>2. /\ NextStem(t) = Chosen(thread[t].todo) /\ NextStem(t) \in Stem
      /\ zip[NextStem(t)] # Absent
  BY <1>1, NextStemIsThere
<1>3. thread[t].got \in [Stem -> Content] /\ \A s \in thread[t].todo : zip[s] # Absent
  BY <1>1 DEF Intact, Sound
<1>4. UNCHANGED <<zip, data>>
  BY DEF Open
<1>5. CASE /\ extracted' = [extracted EXCEPT ![NextStem(t)] = Partial]
           /\ Goto(t, "extract") /\ Intrudes(t) /\ UNCHANGED loads
  <2>1. Undisturbed(t)
    BY <1>5, Undisturbing DEF CleanStep, Clean
  <2>2. Alone(t) /\ SameLoad(t) /\ thread'[t].pc = "extract"
    BY <1>1, <1>5, GotoMoves DEF PCs
  <2>3. Sound(thread'[t], zip', extracted')
    BY <1>3, <1>4, <2>2 DEF Sound, SameLoad
  <2>4. \A s \in Stem : extracted'[s] = Partial =>
               \/ extracted[s] = Partial /\ thread[t].pc # "extract"
               \/ thread'[t].pc = "extract" /\ Chosen(thread'[t].todo) = s
    BY <1>1, <1>2, <1>5, <2>2 DEF SameLoad
  <2>5. QED
    BY <1>1, <1>4, <1>5, <2>1, <2>2, <2>3, <2>4, IntactUndisturbed DEF loads
<1>6. CASE extracted[NextStem(t)] # Absent /\ Goto(t, "read") /\ UNCHANGED <<extracted, stepped, loads>>
  <2>1. Alone(t) /\ SameLoad(t) /\ thread'[t].pc = "read"
    BY <1>1, <1>6, GotoMoves DEF PCs
  <2>2. ~Midway(t)' /\ Loading(t)
    BY <1>1, <2>1 DEF Midway, Loading
  <2>3. Sound(thread'[t], zip, extracted)
    BY <1>2, <1>3, <1>6, <2>1 DEF Sound, SameLoad
  <2>4. UNCHANGED files /\ data' \in [Process -> [Stem -> Content]]
    BY <1>1, <1>4, <1>6 DEF files, Intact
  <2>5. QED
    BY <1>1, <1>6, <2>1, <2>2, <2>3, <2>4, IntactQuiet DEF loads
<1>7. QED
  BY <1>2, <1>5, <1>6 DEF Open

LEMMA ExtractIntact ==
    ASSUME Base, NEW t \in Thread, Extract(t), CleanStep PROVE Intact'
<1>1. thread \in [Thread -> ThreadState] /\ thread[t].pc = "extract" /\ Intact
      /\ extracted \in [Stem -> Content \cup {Partial}] /\ zip \in [Stem -> Content]
  BY DEF Base, PluginTypeOK, Extract, CleanStep
<1>2. /\ NextStem(t) = Chosen(thread[t].todo) /\ NextStem(t) \in Stem
      /\ zip[NextStem(t)] # Absent
  BY <1>1, NextStemIsThere
<1>3. thread[t].got \in [Stem -> Content] /\ \A s \in thread[t].todo : zip[s] # Absent
  BY <1>1 DEF Intact, Sound
<1>4. /\ UNCHANGED <<zip, data, broken>>
      /\ extracted' = [extracted EXCEPT ![NextStem(t)] = zip[NextStem(t)]]
      /\ Goto(t, "read") /\ Intrudes(t)
  BY <1>2 DEF Extract, loads
<1>5. Undisturbed(t)
  BY <1>4, Undisturbing DEF CleanStep, Clean
<1>6. Alone(t) /\ SameLoad(t) /\ thread'[t].pc = "read"
  BY <1>1, <1>4, GotoMoves DEF PCs
<1>7. Sound(thread'[t], zip', extracted')
  BY <1>1, <1>2, <1>3, <1>4, <1>6 DEF Sound, SameLoad
<1>8. \A u \in Thread : u # t => ~Midway(u) /\ ~Loading(u)
  BY <1>5, UndisturbedMidway
<1>9. \A s \in Stem : extracted'[s] # Partial
  <2> SUFFICES ASSUME NEW s \in Stem, extracted'[s] = Partial PROVE FALSE
    OBVIOUS
  <2>1. zip[NextStem(t)] # Partial
    <3>1. zip[NextStem(t)] \in Content
      BY <1>1, <1>2
    <3>2. QED
      BY <3>1, EngineAssumption DEF Content, Partial
  <2>2. s # NextStem(t) /\ extracted[s] = Partial
    BY <1>1, <1>2, <1>4, <2>1
  <2>3. PICK u \in Thread : thread[u].pc = "extract" /\ Chosen(thread[u].todo) = s
    BY <1>1, <2>2 DEF Intact, Owned
  <2>4. u # t
    BY <1>2, <2>2, <2>3
  <2>5. QED
    BY <1>8, <2>3, <2>4 DEF Midway
<1>10. QED
  BY <1>1, <1>4, <1>5, <1>6, <1>7, <1>9, IntactUndisturbed

\* While t reads, nothing is half way through.
LEMMA NothingPartial ==
    ASSUME Intact, NEW t \in Thread, Loading(t), thread[t].pc # "extract"
    PROVE  \A s \in Stem : extracted[s] # Partial
<1> SUFFICES ASSUME NEW s \in Stem, extracted[s] = Partial PROVE FALSE
  OBVIOUS
<1>1. PICK u \in Thread : thread[u].pc = "extract"
  BY DEF Intact, Owned
<1>2. QED
  BY <1>1 DEF Intact, Exclusive, Midway

\* A plugin that is whole fails to load: the files stay as they are.
Raises(t) == thread[t].pc = "read" /\ LoadFails(t, FALSE) /\ UNCHANGED <<zip, flag, data, last, infra>>

LEMMA RaisesMoves ==
    ASSUME Base, NEW t \in Thread, Raises(t)
    PROVE  /\ thread \in [Thread -> ThreadState] /\ Alone(t) /\ thread'[t].pc \in {"idle", "sync"}
           /\ thread'[t].got = thread[t].got \/ thread'[t].got = NoPlugins
           /\ thread[t].task = "start" => thread'[t].pc = "sync"
           /\ t \in Request => thread[t].task # "start"
<1>1. thread \in [Thread -> ThreadState] /\ LoadEnds(t) /\ Shape(t)
  BY DEF Base, PluginTypeOK, Raises, LoadFails, Shapes
<1>2. QED
  BY <1>1, LoadEndsMoves, IdleFields DEF SameLoad, Shape

LEMMA RaisesIntact ==
    ASSUME Base, NEW t \in Thread, Raises(t), CleanStep PROVE Intact'
<1>1. Intact /\ Loading(t) /\ thread[t].pc = "read"
  BY DEF CleanStep, Raises, Loading
<1>2. /\ Alone(t) /\ thread'[t].pc \in {"idle", "sync"}
      /\ thread'[t].got = thread[t].got \/ thread'[t].got = NoPlugins
  BY RaisesMoves
<1>3. ~Midway(t)'
  BY <1>2 DEF Midway
<1>4. Sound(thread'[t], zip, extracted)
  BY <1>1, <1>2, EngineAssumption DEF Intact, Sound, NoPlugins, Content, Absent
<1>5. UNCHANGED files /\ data' = data /\ TRUE
  BY DEF Raises, LoadFails, files
<1>6. data' \in [Process -> [Stem -> Content]]
  BY <1>1, <1>5 DEF Intact
<1>7. broken \in BOOLEAN /\ broken' = broken
  BY DEF Raises, LoadFails, Base, PluginTypeOK
<1>8. QED
  BY <1>1, <1>2, <1>3, <1>4, <1>5, <1>6, <1>7, IntactQuiet

\* A load that goes on has read a whole plugin.
LEMMA ReadsOrRaises ==
    ASSUME Base, NEW t \in Thread, ReadPlugin(t), CleanStep
    PROVE  /\ thread[t].todo # {} /\ NextStem(t) \in Stem
           /\ extracted[NextStem(t)] \notin {Absent, Partial}
           /\ \/ Raises(t)
              \/ Reads(t) /\ UNCHANGED <<extracted, stepped, loads, zip, data, infra>>
<1>1. thread[t].pc = "read" /\ Intact /\ Loading(t)
  BY DEF ReadPlugin, CleanStep, Loading
<1>2. thread[t].todo # {} /\ NextStem(t) \in Stem /\ extracted[NextStem(t)] # Absent
  BY <1>1, NextStemIsThere DEF Intact, Sound
<1>3. extracted[NextStem(t)] # Partial
  BY <1>1, <1>2, NothingPartial
<1>4. (extracted[NextStem(t)] \in {Absent, Partial}) = FALSE
  BY <1>2, <1>3
<1>5. CASE LoadFails(t, extracted[NextStem(t)] \in {Absent, Partial})
  <2>1. LoadFails(t, FALSE)
    BY <1>4, <1>5 DEF LoadFails
  <2>2. QED
    BY <1>1, <1>2, <1>3, <2>1 DEF ReadPlugin, Raises, counters
<1>6. CASE ~LoadFails(t, extracted[NextStem(t)] \in {Absent, Partial})
  BY <1>2, <1>3, <1>6 DEF ReadPlugin, Reads, counters
<1>7. QED
  BY <1>5, <1>6

LEMMA ReadIntact ==
    ASSUME Base, NEW t \in Thread, ReadPlugin(t), CleanStep PROVE Intact'
<1>1. thread \in [Thread -> ThreadState] /\ thread[t].pc = "read" /\ Intact
      /\ extracted \in [Stem -> Content \cup {Partial}] /\ Loading(t)
  BY DEF Base, PluginTypeOK, ReadPlugin, CleanStep, Loading
<1>2. /\ thread[t].todo # {} /\ NextStem(t) \in Stem
      /\ extracted[NextStem(t)] \notin {Absent, Partial}
  BY ReadsOrRaises
<1>3. CASE Raises(t)
  BY <1>3, RaisesIntact
<1>4. CASE Reads(t) /\ UNCHANGED <<extracted, stepped, loads, zip, data, infra>>
  <2>1. /\ Alone(t)
        /\ thread'[t].todo = thread[t].todo \ {NextStem(t)}
        /\ thread'[t].got = [thread[t].got EXCEPT ![NextStem(t)] = extracted[NextStem(t)]]
        /\ thread'[t].pc \in {"assign", "open"}
    BY <1>1, <1>2, <1>4, ReadsMoves
  <2>2. ~Midway(t)'
    BY <2>1 DEF Midway
  <2>3. thread[t].got \in [Stem -> Content] /\ \A s \in thread[t].todo : zip[s] # Absent
    BY <1>1 DEF Intact, Sound
  <2>4. extracted[NextStem(t)] \in Content
    BY <1>1, <1>2
  <2>5. thread'[t].got \in [Stem -> Content]
    BY <2>1, <2>3, <2>4
  <2>6. Sound(thread'[t], zip, extracted)
    BY <2>1, <2>3, <2>5 DEF Sound
  <2>7. UNCHANGED files /\ data' \in [Process -> [Stem -> Content]] /\ broken' = broken
    BY <1>1, <1>4 DEF files, Intact, loads
  <2>8. QED
    BY <1>1, <2>1, <2>2, <2>6, <2>7, IntactQuiet
<1>5. QED
  BY <1>3, <1>4, ReadsOrRaises

LEMMA AssignMoves ==
    ASSUME thread \in [Thread -> ThreadState], NEW t \in Thread, Assign(t)
    PROVE  /\ Alone(t) /\ thread'[t].pc \in {"idle", "sync", "record"}
           /\ thread'[t].got = thread[t].got \/ thread'[t].got = NoPlugins
           /\ thread[t].task = "upload" => thread'[t].pc = "record" \/ missed'
           /\ missed => missed'
<1>1. CASE thread[t].task = "upload" /\ Goto(t, "record") /\ UNCHANGED missed
  BY <1>1, GotoMoves DEF PCs, SameLoad
<1>2. CASE thread[t].task = "upload" /\ Done(t) /\ missed' = TRUE
  BY <1>2, DoneMoves, IdleFields
<1>3. CASE thread[t].task # "upload" /\ LoadEnds(t) /\ UNCHANGED missed
  BY <1>3, LoadEndsMoves, IdleFields DEF SameLoad
<1>4. QED
  BY <1>1, <1>2, <1>3 DEF Assign

LEMMA AssignIntact ==
    ASSUME Base, NEW t \in Thread, Assign(t), CleanStep PROVE Intact'
<1>1. thread \in [Thread -> ThreadState] /\ thread[t].pc = "assign" /\ Intact
      /\ thread[t].got \in [Stem -> Content] /\ Loading(t)
  BY DEF Base, PluginTypeOK, Assign, CleanStep, Intact, Sound, Loading
<1>2. /\ Alone(t) /\ thread'[t].pc \in {"idle", "sync", "record"}
      /\ thread'[t].got = thread[t].got \/ thread'[t].got = NoPlugins
  BY <1>1, AssignMoves
<1>3. ~Midway(t)'
  BY <1>2 DEF Midway
<1>4. Sound(thread'[t], zip, extracted)
  BY <1>1, <1>2, EngineAssumption DEF Sound, NoPlugins, Content, Absent
<1>5. UNCHANGED files /\ broken' = broken /\ data' = [data EXCEPT ![ProcessOf(t)] = thread[t].got]
  BY DEF Assign
<1>6. data' \in [Process -> [Stem -> Content]]
  BY <1>1, <1>5 DEF Intact
<1>7. QED
  BY <1>1, <1>2, <1>3, <1>4, <1>5, <1>6, IntactQuiet

LEMMA SyncIntact ==
    ASSUME Base, NEW t \in Thread, Sync(t), CleanStep PROVE Intact'
<1>1. thread \in [Thread -> ThreadState] /\ thread[t].pc = "sync" /\ Intact
      /\ thread[t].got \in [Stem -> Content]
  BY DEF Base, PluginTypeOK, Sync, CleanStep, Intact, Sound
<1>2. /\ Alone(t) /\ thread'[t].pc \in {"idle", "record"}
      /\ thread'[t].got = thread[t].got \/ thread'[t].got = NoPlugins
  <2>1. CASE flag = 0
    BY <1>1, <2>1, GotoMoves DEF Sync, PCs, SameLoad
  <2>2. CASE flag # 0
    BY <1>1, <2>2, DoneMoves, IdleFields DEF Sync
  <2>3. QED
    BY <2>1, <2>2
<1>3. ~Midway(t)' /\ ~Loading(t)'
  BY <1>2 DEF Midway, Loading
<1>4. Sound(thread'[t], zip, extracted)
  BY <1>1, <1>2, EngineAssumption DEF Sound, NoPlugins, Content, Absent
<1>5. UNCHANGED files /\ broken' = broken /\ data' \in [Process -> [Stem -> Content]]
  BY <1>1 DEF Sync, history, Intact, loads
<1>6. QED
  BY <1>1, <1>2, <1>3, <1>4, <1>5, IntactQuiet

LEMMA BeginIntact ==
    ASSUME Base, NEW t, NEW task, NEW s, NEW new, NEW old, NEW pc, Asked(t, task, s, new, old, pc),
           CleanStep
    PROVE  Intact'
<1>1. thread \in [Thread -> ThreadState] /\ pc \in {"move", "rmdir", "unlink"} /\ pc \in PCs
      /\ t \in Thread /\ thread[t].pc = "idle" /\ Intact
      /\ task \in {"upload", "delete", "deleteAll"}
  BY DEF Base, PluginTypeOK, Asked, Begin, PCs, CleanStep, Thread
<1>2. Alone(t) /\ thread'[t].pc = pc /\ thread'[t].task = task /\ thread'[t].got = NoPlugins
  BY <1>1, BeginMoves
<1>3. ~Midway(t)' /\ ~Loading(t)'
  BY <1>1, <1>2 DEF Midway, Loading, Asked
<1>4. Sound(thread'[t], zip, extracted)
  BY <1>1, <1>2, EngineAssumption DEF Sound, NoPlugins, Content, Absent, Asked
<1>5. UNCHANGED files /\ broken' = broken /\ data' \in [Process -> [Stem -> Content]]
  BY <1>1 DEF Asked, Begin, Intact, loads
<1>6. QED
  BY <1>1, <1>2, <1>3, <1>4, <1>5, IntactQuiet

\* A process that restarts without cutting anything off was idle, and so were
\* its requests.
LEMMA RestartIdles ==
    ASSUME Base, NEW p \in Process, Restart(p), ~cut'
    PROVE  /\ \A t \in Thread : ProcessOf(t) = p => thread[t].pc = "idle"
           /\ \A t \in Thread : \/ thread'[t] = thread[t]
                                \/ thread[t].pc = "idle" /\ thread'[t] = Idle
                                \/ thread[t].pc = "idle" /\ t = p /\ thread'[t] = Starting
<1>1. \A t \in Thread : ProcessOf(t) = p => thread[t].pc = "idle"
  BY DEF Restart, Running
<1>2. QED
  BY <1>1, RestartMoves, Threads

LEMMA RestartIntact ==
    ASSUME Base, NEW p \in Process, Restart(p), CleanStep PROVE Intact'
<1>1. Intact /\ ~cut' /\ UNCHANGED <<zip, extracted>> /\ broken' = broken
      /\ data' = [data EXCEPT ![p] = NoPlugins]
  BY DEF CleanStep, Clean, Restart, files, loads
<1>2. \A t \in Thread : \/ thread'[t] = thread[t]
                        \/ thread'[t] = Idle
                        \/ thread'[t] = Starting
  BY <1>1, RestartIdles
<1>3. \A t \in Thread : thread[t].pc # "idle" => thread'[t] = thread[t]
  BY <1>1, RestartIdles
<1>4. \A t \in Thread : (Midway(t)' => Midway(t)) /\ (Loading(t)' => Loading(t))
  BY <1>2, IdleFields DEF Midway, Loading
<1>5. Exclusive'
  BY <1>1, <1>4 DEF Intact, Exclusive
<1>6. NoPlugins \in [Stem -> Content]
  BY EngineAssumption DEF NoPlugins, Content, Absent
<1>7. \A t \in Thread : Sound(thread'[t], zip, extracted)
  BY <1>1, <1>2, <1>6, IdleFields DEF Intact, Sound
<1>8. \A s \in Stem : extracted'[s] = Partial => Owned(s)'
  <2> SUFFICES ASSUME NEW s \in Stem, extracted'[s] = Partial PROVE Owned(s)'
    OBVIOUS
  <2>1. PICK u \in Thread : thread[u].pc = "extract" /\ Chosen(thread[u].todo) = s
    BY <1>1 DEF Intact, Owned
  <2>2. thread'[u] = thread[u]
    BY <1>3, <2>1
  <2>3. QED
    BY <2>1, <2>2 DEF Owned
<1>9. data' \in [Process -> [Stem -> Content]]
  BY <1>1, <1>6 DEF Intact
<1>10. QED
  BY <1>1, <1>5, <1>7, <1>8, <1>9 DEF Intact

LEMMA WholeInit == PluginInit => Whole
<1> SUFFICES ASSUME PluginInit PROVE Intact
  BY DEF Whole
<1>1. \A t \in Thread : thread[t] \in {Starting, Idle}
  BY DEF PluginInit
<1>2. NoPlugins \in [Stem -> Content] /\ \A s \in Stem : NoPlugins[s] # Partial
  BY EngineAssumption DEF NoPlugins, Content, Absent, Partial
<1>3. Exclusive
  BY <1>1, IdleFields DEF Exclusive, Midway
<1>4. \A t \in Thread : Sound(thread[t], zip, extracted)
  BY <1>1, <1>2, IdleFields DEF Sound
<1>5. QED
  BY <1>2, <1>3, <1>4 DEF Intact, PluginInit

\* What is once excused stays so.
LEMMA CleanBefore == Base /\ [PluginNext]_pluginVars /\ Clean' => Clean
<1> SUFFICES ASSUME Base, [PluginNext]_pluginVars, Clean' PROVE Clean
  OBVIOUS
<1>0. stepped \in BOOLEAN /\ cut \in BOOLEAN /\ ~stepped' /\ ~cut'
  BY DEF Base, PluginTypeOK, Clean
<1>1. ASSUME NEW t \in Thread, Work(t) PROVE Clean
  <2>1. CASE RemoveDirectory(t) \/ Unlink(t) \/ Move(t)
    BY <1>0, <2>1 DEF RemoveDirectory, Unlink, Move, Intrudes, Clean
  <2>2. CASE Record(t) \/ WriteFlag(t) \/ Assign(t) \/ Sync(t)
    BY <1>0, <2>2 DEF Record, WriteFlag, Assign, Sync, history, Clean
  <2>3. CASE Scan(t)
    <3>1. stepped' = (stepped \/ \E u \in Thread \ {t} : Changing(u)) /\ cut' = cut
      BY <2>3 DEF Scan
    <3>2. QED
      BY <1>0, <3>1 DEF Clean
  <2>4. CASE Open(t) \/ Extract(t) \/ ReadPlugin(t)
    <3>1. (stepped' = stepped \/ Intrudes(t)) /\ cut' = cut
      BY <2>4 DEF Open, Extract, ReadPlugin, LoadFails
    <3>2. QED
      BY <1>0, <3>1 DEF Intrudes, Clean
  <2>5. QED
    BY <1>1, <2>1, <2>2, <2>3, <2>4 DEF Work
<1>2. ASSUME NEW p \in Process, CompareChanges(p) \/ Restart(p) PROVE Clean
  BY <1>0, <1>2 DEF Clean, CompareChanges, Restart, history
<1>3. ASSUME NEW t \in Request, Requests(t) PROVE Clean
  <2>1. PICK task, s, new, old, pc : Begin(t, task, s, new, old, pc)
    BY <1>3 DEF Requests, DeleteAll, Delete, Upload
  <2>2. QED
    BY <1>0, <2>1 DEF Clean, Begin
<1>4. CASE Tick
  BY <1>0, <1>4 DEF Clean, Tick, history
<1>5. CASE UNCHANGED pluginVars
  BY <1>0, <1>5 DEF Clean, pluginVars
<1>6. QED
  BY <1>1, <1>2, <1>3, <1>4, <1>5 DEF PluginNext, Requests

LEMMA WholeStep == Base /\ Whole /\ [PluginNext]_pluginVars => Whole'
<1> SUFFICES ASSUME Base, Whole, [PluginNext]_pluginVars, Clean' PROVE Intact'
  BY DEF Whole
<1>1. CleanStep
  BY CleanBefore DEF CleanStep, Whole
<1>2. ASSUME NEW t \in Thread, Work(t) PROVE Intact'
  BY <1>1, <1>2, RemoveDirectoryIntact, UnlinkIntact, MoveIntact, RecordIntact, WriteFlagIntact, ScanIntact,
     OpenIntact, ExtractIntact, ReadIntact, AssignIntact, SyncIntact DEF Work
<1>3. ASSUME NEW p \in Process, CompareChanges(p) \/ Restart(p) PROVE Intact'
  BY <1>1, <1>3, CompareIntact, RestartIntact
<1>4. ASSUME NEW t \in Request, Requests(t) PROVE Intact'
  BY <1>1, <1>4, RequestAsks, BeginIntact
<1>5. CASE Tick
  BY <1>1, <1>5 DEF Tick, CleanStep, Intact, Exclusive, Midway, Loading, Owned, files, history, loads
<1>6. CASE UNCHANGED pluginVars
  BY <1>1, <1>6 DEF pluginVars, CleanStep, Intact, Exclusive, Midway, Loading, Owned, files, loads
<1>7. QED
  BY <1>2, <1>3, <1>4, <1>5, <1>6 DEF PluginNext, Requests

\* Half of a plugin is loaded only if files were changed under a load, or a
\* restart left a directory half extracted (load_plugin_from_zip).
THEOREM HalfLoadedExplained == PluginSpec => []HalfLoadedHasCause
<1>1. Base /\ Whole => HalfLoadedHasCause
  <2> SUFFICES ASSUME Base, Whole, NEW p \in Process, NEW s \in Stem, data[p][s] = Partial, Clean PROVE FALSE
    BY DEF HalfLoadedHasCause, Clean
  <2>1. data[p][s] \in Content
    BY DEF Whole, Intact
  <2>2. QED
    BY <2>1, EngineAssumption DEF Content, Partial
<1>2. PluginInit => Base /\ Whole
  BY BaseInit, WholeInit
<1>3. Base /\ Whole /\ [PluginNext]_pluginVars => (Base /\ Whole)'
  BY BaseStep, WholeStep
<1>4. QED
  BY <1>1, <1>2, <1>3, PTL DEF PluginSpec

\* A load finds a file missing or half a directory for the same causes only
\* (load_plugins_from_dir).
THEOREM BrokenLoadExplained == PluginSpec => []BrokenLoadHasCause
<1>1. Whole => BrokenLoadHasCause
  BY DEF Whole, Intact, Clean, BrokenLoadHasCause
<1>2. PluginInit => Base /\ Whole
  BY BaseInit, WholeInit
<1>3. Base /\ Whole /\ [PluginNext]_pluginVars => (Base /\ Whole)'
  BY BaseStep, WholeStep
<1>4. QED
  BY <1>1, <1>2, <1>3, PTL DEF PluginSpec

-----------------------------------------------------------------------------
(* What is loaded is what is there *)

LoadingPCs == {"scan", "open", "extract", "read", "assign"}

\* A step of requests that are served one at a time.
OrderStep == CleanStep /\ ~raced /\ ~raced' /\ ~blind' /\ InOrder

LEMMA ServerKept ==
    ASSUME ServerIsCurrent, NEW t \in Thread, Alone(t), zip' = zip, data'[Server] = data[Server],
           Server \in failed => Server \in failed',
           t \in Request /\ Unloaded(t) => Unloaded(t)',
           t = Server /\ thread[t].task = "start" /\ thread[t].pc \in LoadingPCs =>
               thread'[t].task = "start" /\ thread'[t].pc \in LoadingPCs
    PROVE  ServerIsCurrent'
<1>0. CASE Server \in failed
  BY <1>0 DEF ServerIsCurrent
<1>1. CASE data[Server] = zip
  BY <1>1 DEF ServerIsCurrent
<1>2. CASE thread[Server].task = "start" /\ thread[Server].pc \in LoadingPCs
  <2>1. thread'[Server].task = "start" /\ thread'[Server].pc \in LoadingPCs
    BY <1>2, Threads DEF Alone
  <2>2. QED
    BY <2>1 DEF ServerIsCurrent, LoadingPCs
<1>3. CASE \E u \in Request : Unloaded(u)
  <2>1. PICK u \in Request : Unloaded(u)
    BY <1>3
  <2>2. Unloaded(u)'
    BY <2>1, Threads DEF Unloaded, Alone
  <2>3. QED
    BY <2>2 DEF ServerIsCurrent
<1>4. QED
  BY <1>0, <1>1, <1>2, <1>3 DEF ServerIsCurrent, LoadingPCs

\* The files stay as they are.
LEMMA OrderQuiet ==
    ASSUME InOrder, NEW t \in Thread, Alone(t), UNCHANGED <<zip, extracted, infra>>,
           thread[t].pc # "rmdir",
           Fits(thread'[t], zip, extracted, infra), ServerIsCurrent'
    PROVE  InOrder'
<1>1. DirectoriesFit'
  <2>1. CASE Clearing
    <3>1. PICK u \in Request : thread[u].pc = "rmdir" /\ thread[u].task = "deleteAll"
      BY <2>1 DEF Clearing
    <3>2. thread'[u] = thread[u]
      BY <3>1, Threads DEF Alone
    <3>3. QED
      BY <3>1, <3>2 DEF DirectoriesFit, Clearing
  <2>2. CASE ~Clearing
    BY <2>2 DEF InOrder, DirectoriesFit
  <2>3. QED
    BY <2>1, <2>2
<1>2. \A u \in Thread : Fits(thread'[u], zip, extracted, infra)
  BY DEF InOrder, Alone
<1>3. OneVersion'
  BY DEF InOrder, OneVersion
<1>4. QED
  BY <1>1, <1>2, <1>3 DEF InOrder

\* Nobody else is half way through an upload, or loads.
LEMMA FitsAway ==
    ASSUME Base, ~raced, NEW t \in Request, thread[t].pc # "idle", Undisturbed(t),
           NEW z, NEW x, NEW i
    PROVE  \A u \in Thread : u # t => Fits(thread[u], z, x, i)
<1> SUFFICES ASSUME NEW u \in Thread, u # t PROVE Fits(thread[u], z, x, i)
  OBVIOUS
<1>1. thread[u].pc \notin {"open", "extract", "read", "assign"}
  BY DEF Undisturbed, Loading
<1>2. thread[u].pc \notin {"rmdir", "unlink", "move"}
  <2>1. CASE u \in Request
    BY <2>1 DEF Base, OneAtATime
  <2>2. CASE u \in Process
    BY <2>2 DEF Base, Shapes, Shape
  <2>3. QED
    BY <2>1, <2>2 DEF Thread
<1>3. QED
  BY <1>1, <1>2 DEF Fits

\* Files are changed by requests.
LEMMA ChangerIsRequest ==
    ASSUME Base, NEW t \in Thread, thread[t].pc \in {"rmdir", "unlink", "move"}
    PROVE  t \in Request /\ thread[t].task \in {"upload", "delete", "deleteAll"}
BY Threads DEF Base, Shapes, Shape, Thread

LEMMA RemoveDirectoryOrder ==
    ASSUME Base, NEW t \in Thread, RemoveDirectory(t), OrderStep PROVE InOrder'
<1>1. thread \in [Thread -> ThreadState] /\ thread[t].pc = "rmdir" /\ t \in Request
      /\ thread[t].task \in {"upload", "delete", "deleteAll"} /\ InOrder
  BY ChangerIsRequest DEF Base, PluginTypeOK, RemoveDirectory, OrderStep
<1>2. /\ Alone(t) /\ SameTask(t)
      /\ thread'[t].pc = IF thread[t].task = "deleteAll" THEN "record" ELSE "unlink"
      /\ thread'[t].old = thread[t].old
  BY <1>1, GotoMoves DEF RemoveDirectory, PCs
<1>3. Undisturbed(t)
  BY Undisturbing DEF RemoveDirectory, OrderStep, CleanStep, Clean
<1>4. /\ \A s \in Stem : extracted'[s] = Absent \/ extracted'[s] = extracted[s]
      /\ thread[t].task = "deleteAll" => \A s \in Stem : extracted'[s] = Absent
  BY DEF RemoveDirectory, Without
<1>5. zip' = zip /\ infra' = infra
  BY DEF RemoveDirectory, counters
<1>6. DirectoriesFit'
  <2>1. CASE Clearing
    <3>1. PICK u \in Request : thread[u].pc = "rmdir" /\ thread[u].task = "deleteAll"
      BY <2>1 DEF Clearing
    <3>2. u = t
      BY <1>1, <3>1 DEF Base, OneAtATime, OrderStep
    <3>3. QED
      BY <1>4, <3>1, <3>2 DEF DirectoriesFit
  <2>2. CASE ~Clearing
    BY <1>1, <1>4, <1>5, <2>2 DEF InOrder, DirectoriesFit
  <2>3. QED
    BY <2>1, <2>2
<1>7. \A u \in Thread : Fits(thread'[u], zip', extracted', infra')
  <2>1. \A u \in Thread : u # t => Fits(thread[u], zip', extracted', infra')
    BY <1>1, <1>3, FitsAway DEF OrderStep
  <2>2. Fits(thread[t], zip, extracted, infra)
    BY <1>1 DEF InOrder
  <2>3. thread[t].stem \in Stem
    BY <1>1 DEF ThreadState
  <2>4. Fits(thread'[t], zip', extracted', infra')
    BY <1>1, <1>2, <1>4, <1>5, <2>2, <2>3 DEF Fits, SameTask
  <2>5. QED
    BY <1>2, <2>1, <2>4 DEF Alone
<1>8. Unloaded(t)'
  BY <1>1, <1>2 DEF Unloaded, SameTask
<1>9. OneVersion'
  BY <1>1, <1>5 DEF InOrder, OneVersion
<1>10. QED
  BY <1>1, <1>6, <1>7, <1>8, <1>9 DEF InOrder, ServerIsCurrent

\* No other request clears the directory.
LEMMA NotClearing ==
    ASSUME Base, ~raced, NEW t \in Request, thread[t].pc \in {"unlink", "move"} PROVE ~Clearing
BY DEF Base, OneAtATime, Clearing

LEMMA UnlinkOrder ==
    ASSUME Base, NEW t \in Thread, Unlink(t), OrderStep PROVE InOrder'
<1>1. thread \in [Thread -> ThreadState] /\ thread[t].pc = "unlink" /\ t \in Request
      /\ thread[t].task \in {"upload", "delete", "deleteAll"} /\ InOrder /\ Intact
  BY ChangerIsRequest DEF Base, PluginTypeOK, Unlink, OrderStep, CleanStep
<1>2. /\ Alone(t) /\ SameTask(t)
      /\ thread'[t].old = thread[t].old \ {OldStem(t)}
      /\ thread'[t].pc \in {"rmdir", "move", "record"}
      /\ thread[t].task = "deleteAll" => thread'[t].pc = "rmdir"
      /\ thread[t].task = "upload" => thread'[t].pc # "record"
  BY <1>1, UnlinkMoves
<1>3. Undisturbed(t)
  BY Undisturbing DEF Unlink, OrderStep, CleanStep, Clean
<1>4. extracted' = extracted /\ infra' = infra
      /\ \A s \in Stem : zip'[s] = IF thread[t].task = "deleteAll" \/ s = OldStem(t) THEN Absent ELSE zip[s]
  BY DEF Unlink, Without, counters
<1>5. thread[t].task # "deleteAll" => extracted[OldStem(t)] = Absent
  BY <1>1 DEF Intact, Sound, OldStem, Chosen
<1>6. DirectoriesFit'
  <2>1. CASE thread[t].task = "deleteAll"
    BY <1>1, <1>2, <2>1 DEF DirectoriesFit, Clearing, SameTask
  <2>2. CASE thread[t].task # "deleteAll"
    <3>1. \A s \in Stem : extracted[s] \in {Absent, Partial, zip[s]}
      BY <1>1, NotClearing DEF InOrder, DirectoriesFit, OrderStep
    <3>2. QED
      BY <1>4, <1>5, <2>2, <3>1 DEF DirectoriesFit
  <2>3. QED
    BY <2>1, <2>2
<1>7. \A u \in Thread : Fits(thread'[u], zip', extracted', infra')
  <2>1. \A u \in Thread : u # t => Fits(thread[u], zip', extracted', infra')
    BY <1>1, <1>3, FitsAway DEF OrderStep
  <2>2. Fits(thread'[t], zip', extracted', infra')
    <3>1. SUFFICES ASSUME thread[t].task = "upload"
                   PROVE  /\ thread[t].stem \in thread'[t].old
                             \/ (zip'[thread[t].stem] = Absent /\ extracted'[thread[t].stem] = Absent)
                          /\ infra => \A s \in Stem : zip'[s] # Absent => s \in thread'[t].old
      BY <1>2, <1>4 DEF Fits, SameTask
    <3>2. /\ thread[t].stem \in thread[t].old
             \/ (zip[thread[t].stem] = Absent /\ extracted[thread[t].stem] = Absent)
          /\ infra => \A s \in Stem : zip[s] # Absent => s \in thread[t].old
      BY <1>1, <3>1 DEF InOrder, Fits
    <3>3. thread[t].stem \in Stem
      BY <1>1 DEF ThreadState
    <3>4. QED
      BY <1>2, <1>4, <1>5, <3>1, <3>2, <3>3
  <2>3. QED
    BY <1>2, <2>1, <2>2 DEF Alone
<1>8. Unloaded(t)'
  BY <1>1, <1>2 DEF Unloaded, SameTask
<1>9. OneVersion'
  BY <1>1, <1>4 DEF InOrder, OneVersion
<1>10. QED
  BY <1>1, <1>6, <1>7, <1>8, <1>9 DEF InOrder, ServerIsCurrent

LEMMA MoveOrder ==
    ASSUME Base, NEW t \in Thread, Move(t), OrderStep PROVE InOrder'
<1>1. thread \in [Thread -> ThreadState] /\ thread[t].pc = "move" /\ t \in Request
      /\ thread[t].task = "upload" /\ thread[t].old = {} /\ InOrder
      /\ zip \in [Stem -> Content] /\ thread[t].stem \in Stem
  BY ChangerIsRequest DEF Base, PluginTypeOK, Move, OrderStep, Shapes, Shape, ThreadState
<1>2. Alone(t) /\ SameTask(t) /\ thread'[t].pc = "scan"
  BY <1>1, GotoMoves DEF Move, PCs
<1>3. Undisturbed(t)
  BY Undisturbing DEF Move, OrderStep, CleanStep, Clean
<1>4. /\ extracted' = extracted /\ infra' = infra
      /\ \A s \in Stem : s # thread[t].stem => zip'[s] = zip[s]
  BY <1>1 DEF Move, counters
<1>5. /\ zip[thread[t].stem] = Absent /\ extracted[thread[t].stem] = Absent
      /\ infra => \A s \in Stem : zip[s] = Absent
  BY <1>1 DEF InOrder, Fits
<1>6. DirectoriesFit'
  <2>1. \A s \in Stem : extracted[s] \in {Absent, Partial, zip[s]}
    BY <1>1, NotClearing DEF InOrder, DirectoriesFit, OrderStep
  <2>2. QED
    BY <1>4, <1>5, <2>1 DEF DirectoriesFit
<1>7. \A u \in Thread : Fits(thread'[u], zip', extracted', infra')
  <2>1. \A u \in Thread : u # t => Fits(thread[u], zip', extracted', infra')
    BY <1>1, <1>3, FitsAway DEF OrderStep
  <2>2. Fits(thread'[t], zip', extracted', infra')
    BY <1>2 DEF Fits
  <2>3. QED
    BY <1>2, <2>1, <2>2 DEF Alone
<1>8. Unloaded(t)'
  BY <1>1, <1>2 DEF Unloaded
<1>9. OneVersion'
  BY <1>4, <1>5 DEF OneVersion
<1>10. QED
  BY <1>1, <1>6, <1>7, <1>8, <1>9 DEF InOrder, ServerIsCurrent

LEMMA RecordOrder ==
    ASSUME Base, NEW t \in Thread, Record(t), OrderStep PROVE InOrder'
<1>1. thread \in [Thread -> ThreadState] /\ now \in Time /\ thread[t].pc = "record" /\ InOrder
  BY DEF Base, PluginTypeOK, Record, OrderStep
<1>2. Alone(t) /\ SameTask(t) /\ thread'[t].pc = "write"
  BY <1>1, RecordMoves
<1>3. UNCHANGED <<zip, extracted, infra, data, failed>>
  BY DEF Record, files, counters, history, loads
<1>4. ServerIsCurrent'
  BY <1>1, <1>2, <1>3, ServerKept DEF InOrder, Unloaded, SameTask, LoadingPCs
<1>5. Fits(thread'[t], zip, extracted, infra)
  BY <1>2 DEF Fits
<1>6. QED
  BY <1>1, <1>2, <1>3, <1>4, <1>5, OrderQuiet

LEMMA WriteFlagOrder ==
    ASSUME Base, NEW t \in Thread, WriteFlag(t), OrderStep PROVE InOrder'
<1>1. thread \in [Thread -> ThreadState] /\ thread[t].pc = "write" /\ InOrder
  BY DEF Base, PluginTypeOK, WriteFlag, OrderStep
<1>2. /\ Alone(t) /\ thread'[t].pc \in {"idle", "scan"}
      /\ thread[t].task \notin {"upload", "start"} => thread'[t].pc = "scan" /\ thread'[t].task = thread[t].task
  <2>1. CASE thread[t].task \in {"upload", "start"}
    BY <1>1, <2>1, DoneMoves, IdleFields DEF WriteFlag
  <2>2. CASE thread[t].task \notin {"upload", "start"}
    BY <1>1, <2>2, GotoMoves DEF WriteFlag, PCs, SameTask
  <2>3. QED
    BY <2>1, <2>2
<1>3. UNCHANGED <<zip, extracted, infra, data, failed>>
  BY DEF WriteFlag, files, counters
<1>4. t \in Request => thread[t].task # "start"
  BY DEF Base, Shapes, Shape
<1>5. ServerIsCurrent'
  BY <1>1, <1>2, <1>3, <1>4, ServerKept DEF InOrder, Unloaded, LoadingPCs
<1>6. Fits(thread'[t], zip, extracted, infra)
  BY <1>2 DEF Fits
<1>7. QED
  BY <1>1, <1>2, <1>3, <1>5, <1>6, OrderQuiet

LEMMA CompareOrder ==
    ASSUME Base, NEW t \in Process, CompareChanges(t), OrderStep PROVE InOrder'
<1>1. thread \in [Thread -> ThreadState] /\ thread[t].pc = "idle" /\ InOrder
      /\ t \in Thread /\ t \notin Request /\ thread[t].task = "none"
  BY Threads DEF Base, PluginTypeOK, CompareChanges, OrderStep, Shapes, Shape
<1>2. Alone(t) /\ thread'[t].pc = "scan"
  BY <1>1, CompareMoves
<1>3. UNCHANGED <<zip, extracted, infra, data, failed>>
  BY DEF CompareChanges, files, counters, history, loads
<1>4. ServerIsCurrent'
  BY <1>1, <1>2, <1>3, ServerKept DEF InOrder
<1>5. Fits(thread'[t], zip, extracted, infra)
  BY <1>2 DEF Fits
<1>6. QED
  BY <1>1, <1>2, <1>3, <1>4, <1>5, OrderQuiet

LEMMA ScanOrder ==
    ASSUME Base, NEW t \in Thread, Scan(t), OrderStep PROVE InOrder'
<1>1. thread \in [Thread -> ThreadState] /\ InOrder
  BY DEF Base, PluginTypeOK, OrderStep
<1>2. /\ Alone(t) /\ SameTask(t) /\ thread'[t].pc \in {"assign", "open"}
      /\ thread'[t].todo = Present /\ thread'[t].got = NoPlugins
  BY <1>1, ScanMoves
<1>3. UNCHANGED <<zip, extracted, infra, data, failed>> /\ thread[t].pc = "scan"
  BY DEF Scan, files, counters, loads
<1>4. ServerIsCurrent'
  BY <1>1, <1>2, <1>3, ServerKept DEF InOrder, Unloaded, SameTask, LoadingPCs
<1>5. Fits(thread'[t], zip, extracted, infra)
  BY <1>2 DEF Fits, Present, NoPlugins
<1>6. QED
  BY <1>1, <1>2, <1>3, <1>4, <1>5, OrderQuiet

\* A thread that loads fills the directory of a file that is there.
LEMMA FilledOrder ==
    ASSUME Base, InOrder, NEW t \in Thread, thread[t].pc \in {"open", "extract"}, Alone(t), SameTask(t), SameLoad(t),
           Undisturbed(t), thread'[t].pc \in {"extract", "read"}, UNCHANGED <<zip, infra, data, failed>>,
           NEW s \in Stem, zip[s] # Absent, extracted \in [Stem -> Content \cup {Partial}],
           NEW c \in {Partial, zip[s]}, extracted' = [extracted EXCEPT ![s] = c]
    PROVE  InOrder'
<1>1. \A r \in Stem : extracted'[r] = IF r = s THEN c ELSE extracted[r]
  OBVIOUS
<1>2. DirectoriesFit'
  <2>1. CASE Clearing
    <3>1. PICK u \in Request : thread[u].pc = "rmdir" /\ thread[u].task = "deleteAll"
      BY <2>1 DEF Clearing
    <3>2. thread'[u] = thread[u]
      BY <3>1, Threads DEF Alone
    <3>3. QED
      BY <3>1, <3>2 DEF DirectoriesFit, Clearing
  <2>2. CASE ~Clearing
    <3>1. \A r \in Stem : extracted[r] \in {Absent, Partial, zip[r]}
      BY <2>2 DEF InOrder, DirectoriesFit
    <3>2. \A r \in Stem : extracted'[r] \in {Absent, Partial, zip'[r]}
      BY <1>1, <3>1
    <3>3. QED
      BY <3>2 DEF DirectoriesFit
  <2>3. QED
    BY <2>1, <2>2
<1>3. \A u \in Thread : u # t => Fits(thread[u], zip', extracted', infra')
  <2> SUFFICES ASSUME NEW u \in Thread, u # t PROVE Fits(thread[u], zip', extracted', infra')
    OBVIOUS
  <2>1. thread[u].pc \notin {"open", "extract", "read", "assign"}
    BY DEF Undisturbed, Loading
  <2>2. Fits(thread[u], zip, extracted, infra) /\ thread[u].stem \in Stem
    BY DEF InOrder, Base, PluginTypeOK, ThreadState
  <2>3. zip[thread[u].stem] = Absent => thread[u].stem # s
    OBVIOUS
  <2>4. QED
    BY <1>1, <2>1, <2>2, <2>3 DEF Fits
<1>4. Fits(thread'[t], zip', extracted', infra')
  <2>1. Fits(thread[t], zip, extracted, infra)
    BY DEF InOrder
  <2>2. QED
    BY <2>1 DEF Fits, SameLoad
<1>5. \A u \in Thread : Fits(thread'[u], zip', extracted', infra')
  BY <1>3, <1>4 DEF Alone
<1>6. ServerIsCurrent'
  BY ServerKept DEF InOrder, Unloaded, SameTask, LoadingPCs
<1>7. OneVersion'
  BY DEF InOrder, OneVersion
<1>8. QED
  BY <1>2, <1>5, <1>6, <1>7 DEF InOrder

LEMMA OpenOrder ==
    ASSUME Base, NEW t \in Thread, Open(t), OrderStep PROVE InOrder'
<1>1. thread \in [Thread -> ThreadState] /\ thread[t].pc = "open" /\ InOrder /\ Intact
      /\ extracted \in [Stem -> Content \cup {Partial}]
  BY DEF Base, PluginTypeOK, Open, OrderStep, CleanStep
<1>2. NextStem(t) \in Stem /\ zip[NextStem(t)] # Absent
  BY <1>1, NextStemIsThere
<1>3. UNCHANGED <<zip, infra, data>>
  BY DEF Open, counters
<1>4. CASE extracted' = [extracted EXCEPT ![NextStem(t)] = Partial] /\ Goto(t, "extract") /\ Intrudes(t) /\ UNCHANGED loads
  <2>1. Undisturbed(t)
    BY <1>4, Undisturbing DEF OrderStep, CleanStep, Clean
  <2>2. Alone(t) /\ SameTask(t) /\ SameLoad(t) /\ thread'[t].pc = "extract"
    BY <1>1, <1>4, GotoMoves DEF PCs
  <2>3. QED
    BY <1>1, <1>2, <1>3, <1>4, <2>1, <2>2, FilledOrder DEF loads
<1>5. CASE Goto(t, "read") /\ UNCHANGED <<extracted, stepped, loads>>
  <2>1. Alone(t) /\ SameTask(t) /\ SameLoad(t) /\ thread'[t].pc = "read"
    BY <1>1, <1>5, GotoMoves DEF PCs
  <2>2. ServerIsCurrent'
    BY <1>1, <1>3, <1>5, <2>1, ServerKept DEF InOrder, Unloaded, SameTask, LoadingPCs, loads
  <2>3. Fits(thread[t], zip, extracted, infra)
    BY <1>1 DEF InOrder
  <2>4. Fits(thread'[t], zip, extracted, infra)
    BY <1>1, <2>1, <2>3 DEF Fits, SameLoad
  <2>5. QED
    BY <1>1, <1>3, <1>5, <2>1, <2>2, <2>4, OrderQuiet
<1>6. QED
  BY <1>2, <1>4, <1>5 DEF Open

LEMMA ExtractOrder ==
    ASSUME Base, NEW t \in Thread, Extract(t), OrderStep PROVE InOrder'
<1>1. thread \in [Thread -> ThreadState] /\ thread[t].pc = "extract" /\ InOrder /\ Intact
      /\ extracted \in [Stem -> Content \cup {Partial}]
  BY DEF Base, PluginTypeOK, Extract, OrderStep, CleanStep
<1>2. NextStem(t) \in Stem /\ zip[NextStem(t)] # Absent
  BY <1>1, NextStemIsThere
<1>3. UNCHANGED <<zip, infra, data, failed>> /\ Goto(t, "read") /\ Intrudes(t)
      /\ extracted' = [extracted EXCEPT ![NextStem(t)] = zip[NextStem(t)]]
  BY <1>2 DEF Extract, counters, loads
<1>4. Undisturbed(t)
  BY <1>3, Undisturbing DEF OrderStep, CleanStep, Clean
<1>5. Alone(t) /\ SameTask(t) /\ SameLoad(t) /\ thread'[t].pc = "read"
  BY <1>1, <1>3, GotoMoves DEF PCs
<1>6. QED
  BY <1>1, <1>2, <1>3, <1>4, <1>5, FilledOrder

\* A request whose load fails leaves Lifecycle with what it had.
LEMMA RaisesOrder ==
    ASSUME Base, NEW t \in Thread, Raises(t), OrderStep PROVE InOrder'
<1>1. thread[t].pc = "read" /\ InOrder /\ UNCHANGED <<zip, extracted, infra, data>>
      /\ failed' = failed \cup {ProcessOf(t)}
  BY DEF Raises, LoadFails, OrderStep
<1>2. /\ Alone(t) /\ thread'[t].pc \in {"idle", "sync"}
      /\ thread[t].task = "start" => thread'[t].pc = "sync"
  BY RaisesMoves
<1>3. ServerIsCurrent'
  <2>1. CASE ProcessOf(t) = Server
    BY <1>1, <2>1 DEF ServerIsCurrent
  <2>2. CASE ProcessOf(t) # Server
    <3>1. t \notin Request /\ t # Server
      BY <2>2, Threads, EngineAssumption
    <3>2. QED
      BY <1>1, <1>2, <3>1, ServerKept DEF InOrder
  <2>3. QED
    BY <2>1, <2>2
<1>4. Fits(thread'[t], zip, extracted, infra)
  BY <1>2 DEF Fits
<1>5. QED
  BY <1>1, <1>2, <1>3, <1>4, OrderQuiet

LEMMA ReadOrder ==
    ASSUME Base, NEW t \in Thread, ReadPlugin(t), OrderStep PROVE InOrder'
<1>1. thread \in [Thread -> ThreadState] /\ thread[t].pc = "read" /\ InOrder /\ Intact
      /\ extracted \in [Stem -> Content \cup {Partial}] /\ Loading(t)
      /\ thread[t].got \in [Stem -> Content]
  BY DEF Base, PluginTypeOK, ReadPlugin, OrderStep, CleanStep, Loading, Intact, Sound
<1>2. /\ thread[t].todo # {} /\ NextStem(t) \in Stem
      /\ extracted[NextStem(t)] # Absent /\ extracted[NextStem(t)] # Partial
  BY ReadsOrRaises DEF OrderStep
<1>3. CASE Raises(t)
  BY <1>3, RaisesOrder
<1>4. CASE Reads(t) /\ UNCHANGED <<extracted, stepped, loads, zip, data, infra>>
  <2>1. /\ Alone(t) /\ SameTask(t)
        /\ thread'[t].todo = thread[t].todo \ {NextStem(t)}
        /\ thread'[t].got = [thread[t].got EXCEPT ![NextStem(t)] = extracted[NextStem(t)]]
        /\ thread'[t].pc \in {"assign", "open"}
    BY <1>1, <1>2, <1>4, ReadsMoves
  <2>2. ~Clearing
    <3> SUFFICES ASSUME NEW u \in Request, thread[u].pc = "rmdir", thread[u].task = "deleteAll" PROVE FALSE
      BY DEF Clearing
    <3>1. u \in Thread /\ u # t /\ Midway(u)
      BY <1>1, Threads DEF Midway
    <3>2. QED
      BY <1>1, <3>1 DEF Intact, Exclusive
  <2>3. extracted[NextStem(t)] = zip[NextStem(t)]
    BY <1>1, <1>2, <2>2 DEF InOrder, DirectoriesFit
  <2>4. Fits(thread'[t], zip, extracted, infra)
    <3>1. \A s \in Stem \ thread[t].todo : thread[t].got[s] = zip[s]
      BY <1>1 DEF InOrder, Fits
    <3>2. \A s \in Stem \ thread'[t].todo : thread'[t].got[s] = zip[s]
      BY <1>1, <1>2, <2>1, <2>3, <3>1
    <3>3. QED
      BY <2>1, <3>2 DEF Fits
  <2>5. ServerIsCurrent'
    BY <1>1, <1>4, <2>1, ServerKept DEF InOrder, Unloaded, SameTask, LoadingPCs, loads
  <2>6. QED
    BY <1>1, <1>4, <2>1, <2>4, <2>5, OrderQuiet
<1>5. QED
  BY <1>3, <1>4, ReadsOrRaises DEF OrderStep

\* What is assigned is what is there.
LEMMA AssignedIsThere ==
    ASSUME Base, Intact, InOrder, NEW t \in Thread, thread[t].pc = "assign"
    PROVE  thread[t].got = zip
<1>1. thread[t].todo = {} /\ zip \in [Stem -> Content]
  BY DEF Base, PluginTypeOK, Shapes, Shape
<1>2. thread[t].got \in [Stem -> Content]
  BY DEF Intact, Sound
<1>3. \A s \in Stem : thread[t].got[s] = zip[s]
  BY <1>1 DEF InOrder, Fits
<1>4. QED
  BY <1>1, <1>2, <1>3

LEMMA AssignOrder ==
    ASSUME Base, NEW t \in Thread, Assign(t), OrderStep PROVE InOrder'
<1>1. thread \in [Thread -> ThreadState] /\ thread[t].pc = "assign" /\ InOrder /\ Intact
      /\ data \in [Process -> [Stem -> Content]]
  BY DEF Base, PluginTypeOK, Assign, OrderStep, CleanStep, Intact
<1>2. Alone(t) /\ thread'[t].pc \in {"idle", "sync", "record"}
  BY <1>1, AssignMoves
<1>3. UNCHANGED <<zip, extracted, infra>> /\ data' = [data EXCEPT ![ProcessOf(t)] = zip]
  BY <1>1, AssignedIsThere DEF Assign, files, counters
<1>4. ServerIsCurrent'
  <2>1. CASE ProcessOf(t) = Server
    <3>1. data'[Server] = zip'
      BY <1>1, <1>3, <2>1, EngineAssumption
    <3>2. QED
      BY <3>1 DEF ServerIsCurrent
  <2>2. CASE ProcessOf(t) # Server
    <3>1. data'[Server] = data[Server] /\ t \notin Request /\ t # Server
          /\ (Server \in failed => Server \in failed')
      BY <1>1, <1>3, <2>2, Threads, EngineAssumption DEF Assign
    <3>2. QED
      BY <1>1, <1>2, <1>3, <3>1, ServerKept DEF InOrder
  <2>3. QED
    BY <2>1, <2>2
<1>5. Fits(thread'[t], zip, extracted, infra)
  BY <1>2 DEF Fits
<1>6. QED
  BY <1>1, <1>2, <1>3, <1>4, <1>5, OrderQuiet

LEMMA SyncOrder ==
    ASSUME Base, NEW t \in Thread, Sync(t), OrderStep PROVE InOrder'
<1>1. thread \in [Thread -> ThreadState] /\ thread[t].pc = "sync" /\ InOrder /\ t \notin Request
  BY DEF Base, PluginTypeOK, Sync, OrderStep, Shapes, Shape
<1>2. Alone(t) /\ thread'[t].pc \in {"idle", "record"}
  <2>1. CASE flag = 0
    BY <1>1, <2>1, GotoMoves DEF Sync, PCs
  <2>2. CASE flag # 0
    BY <1>1, <2>2, DoneMoves, IdleFields DEF Sync
  <2>3. QED
    BY <2>1, <2>2
<1>3. UNCHANGED <<zip, extracted, infra, data, failed>>
  BY DEF Sync, files, counters, history, loads
<1>4. ServerIsCurrent'
  BY <1>1, <1>2, <1>3, ServerKept DEF InOrder, LoadingPCs
<1>5. Fits(thread'[t], zip, extracted, infra)
  BY <1>2 DEF Fits
<1>6. QED
  BY <1>1, <1>2, <1>3, <1>4, <1>5, OrderQuiet

LEMMA BeginOrder ==
    ASSUME Base, NEW t, NEW task, NEW s, NEW new, NEW old, NEW pc, Asked(t, task, s, new, old, pc),
           OrderStep
    PROVE  InOrder'
<1>1. thread \in [Thread -> ThreadState] /\ pc \in {"move", "rmdir", "unlink"} /\ pc \in PCs
      /\ t \in Request /\ t \in Thread /\ thread[t].pc = "idle" /\ InOrder /\ Intact
      /\ task \in {"upload", "delete", "deleteAll"} /\ s \in Stem
      /\ thread[Server].task # "start" /\ UNCHANGED <<zip, extracted, infra, data>>
  BY DEF Base, PluginTypeOK, Asked, Begin, PCs, OrderStep, CleanStep, Thread, files
<1>2. /\ Alone(t) /\ thread'[t].pc = pc /\ thread'[t].task = task /\ thread'[t].stem = s
      /\ thread'[t].old = old /\ thread'[t].got = NoPlugins
  BY <1>1, BeginMoves
<1>3. \A u \in Request : thread[u].pc = "idle"
  BY Threads DEF Asked, Begin, Running, OrderStep
<1>4. (data[Server] = zip \/ Server \in failed) /\ ~Clearing
  BY <1>1, <1>3 DEF InOrder, ServerIsCurrent, Unloaded, Clearing
<1>5. Unloaded(t)'
  BY <1>1, <1>2 DEF Unloaded
<1>6. ServerIsCurrent'
  BY <1>1, <1>5 DEF ServerIsCurrent
<1>7. zip[s] = Absent => extracted[s] = Absent
  <2> SUFFICES ASSUME zip[s] = Absent, extracted[s] # Absent PROVE FALSE
    OBVIOUS
  <2>1. extracted[s] = Partial
    BY <1>1, <1>4 DEF InOrder, DirectoriesFit
  <2>2. PICK u \in Thread : thread[u].pc = "extract" /\ Chosen(thread[u].todo) = s
    BY <1>1, <2>1 DEF Intact, Owned
  <2>3. NextStem(u) = s /\ zip[NextStem(u)] # Absent
    BY <1>1, <2>2, NextStemIsThere
  <2>4. QED
    BY <2>3
<1>8. Fits(thread'[t], zip, extracted, infra)
  <2>1. task = "upload" => /\ s \in old \/ zip[s] = Absent
                           /\ infra => \A r \in Stem : zip[r] # Absent => r \in old
    BY <1>4 DEF Asked, OrderStep
  <2>2. QED
    BY <1>1, <1>2, <1>7, <2>1 DEF Fits
<1>9. QED
  BY <1>1, <1>2, <1>6, <1>8, OrderQuiet

LEMMA RestartOrder ==
    ASSUME Base, NEW p \in Process, Restart(p), OrderStep PROVE InOrder'
<1>1. /\ InOrder /\ ~cut' /\ UNCHANGED <<zip, extracted, infra, failed>>
      /\ data' = [data EXCEPT ![p] = NoPlugins] /\ data \in [Process -> [Stem -> Content]]
  BY DEF OrderStep, CleanStep, Clean, Restart, files, Intact, loads
<1>2. \A t \in Thread : thread'[t] \in {thread[t], Idle, Starting}
  BY <1>1, RestartIdles
<1>3. \A t \in Thread : thread[t].pc # "idle" => thread'[t] = thread[t]
  BY <1>1, RestartIdles
<1>4. DirectoriesFit'
  <2>1. CASE Clearing
    <3>1. PICK u \in Request : thread[u].pc = "rmdir" /\ thread[u].task = "deleteAll"
      BY <2>1 DEF Clearing
    <3>2. thread'[u] = thread[u]
      BY <1>3, <3>1, Threads
    <3>3. QED
      BY <3>1, <3>2 DEF DirectoriesFit, Clearing
  <2>2. CASE ~Clearing
    BY <1>1, <2>2 DEF InOrder, DirectoriesFit
  <2>3. QED
    BY <2>1, <2>2
<1>5. \A t \in Thread : Fits(thread'[t], zip', extracted', infra')
  BY <1>1, <1>2, IdleFields DEF InOrder, Fits
<1>6. ServerIsCurrent'
  <2>1. CASE p = Server
    BY <2>1, RestartMoves, IdleFields DEF ServerIsCurrent
  <2>2. CASE p # Server
    <3>1. data'[Server] = data[Server]
      BY <1>1, <2>2, EngineAssumption
    <3>2. thread'[Server] = thread[Server] /\ \A t \in Request : thread'[t] = thread[t]
      BY <2>2, RestartMoves, Threads, EngineAssumption
    <3>3. QED
      BY <1>1, <3>1, <3>2 DEF InOrder, ServerIsCurrent, Unloaded
  <2>3. QED
    BY <2>1, <2>2
<1>7. OneVersion'
  BY <1>1 DEF InOrder, OneVersion
<1>8. QED
  BY <1>4, <1>5, <1>6, <1>7 DEF InOrder

LEMMA OrderInit == PluginInit => Order
<1> SUFFICES ASSUME PluginInit PROVE InOrder
  BY DEF Order
<1>1. \A t \in Thread : thread[t] \in {Starting, Idle}
  BY DEF PluginInit
<1>2. DirectoriesFit
  BY DEF PluginInit, NoPlugins, DirectoriesFit
<1>3. \A t \in Thread : Fits(thread[t], zip, extracted, infra)
  BY <1>1, IdleFields DEF Fits
<1>4. ServerIsCurrent
  <2>1. thread[Server] = Starting
    BY EngineAssumption, Threads DEF PluginInit
  <2>2. QED
    BY <2>1, IdleFields DEF ServerIsCurrent
<1>5. OneVersion
  BY DEF PluginInit, OneVersion
<1>6. QED
  BY <1>2, <1>3, <1>4, <1>5 DEF InOrder

LEMMA OrderlyBefore == Base /\ [PluginNext]_pluginVars /\ Orderly' => Orderly
<1> SUFFICES ASSUME Base, [PluginNext]_pluginVars, Orderly' PROVE ~raced /\ ~blind
  BY CleanBefore DEF Orderly
<1>0. raced \in BOOLEAN /\ ~raced' /\ blind \in BOOLEAN /\ ~blind'
  BY DEF Base, PluginTypeOK, Orderly
<1>1. ASSUME NEW t \in Thread, Work(t) PROVE ~raced /\ ~blind
  <2>1. CASE RemoveDirectory(t) \/ Unlink(t) \/ Move(t)
    BY <1>0, <2>1 DEF RemoveDirectory, Unlink, Move
  <2>2. CASE Record(t) \/ WriteFlag(t) \/ Assign(t) \/ Sync(t)
    BY <1>0, <2>2 DEF Record, WriteFlag, Assign, Sync, history
  <2>3. CASE Scan(t)
    <3>1. raced' = raced /\ blind' = blind
      BY <2>3 DEF Scan
    <3>2. QED
      BY <1>0, <3>1
  <2>4. CASE Open(t) \/ Extract(t) \/ ReadPlugin(t)
    <3>1. raced' = raced /\ blind' = blind
      BY <2>4 DEF Open, Extract, ReadPlugin
    <3>2. QED
      BY <1>0, <3>1
  <2>5. QED
    BY <1>1, <2>1, <2>2, <2>3, <2>4 DEF Work
<1>2. ASSUME NEW p \in Process, CompareChanges(p) \/ Restart(p) PROVE ~raced /\ ~blind
  BY <1>0, <1>2 DEF CompareChanges, Restart, history
<1>3. ASSUME NEW t \in Request, Requests(t) PROVE ~raced /\ ~blind
  <2>1. PICK task, s, new, old, pc : Begin(t, task, s, new, old, pc)
    BY <1>3 DEF Requests, DeleteAll, Delete, Upload
  <2>2. ~raced
    BY <1>0, <2>1 DEF Begin
  <2>3. blind => blind'
    BY <1>0, <1>3 DEF Requests, DeleteAll, Delete, Upload
  <2>4. QED
    BY <1>0, <2>2, <2>3
<1>4. CASE Tick
  BY <1>0, <1>4 DEF Tick, history
<1>5. CASE UNCHANGED pluginVars
  BY <1>0, <1>5 DEF pluginVars
<1>6. QED
  BY <1>1, <1>2, <1>3, <1>4, <1>5 DEF PluginNext, Requests

LEMMA InOrderSame ==
    ASSUME InOrder, UNCHANGED <<zip, extracted, infra, data, failed, thread>> PROVE InOrder'
BY DEF InOrder, DirectoriesFit, Clearing, Fits, ServerIsCurrent, Unloaded, OneVersion

LEMMA OrderKept == Base /\ Whole /\ Order /\ [PluginNext]_pluginVars => Order'
<1> SUFFICES ASSUME Base, Whole, Order, [PluginNext]_pluginVars, Orderly' PROVE InOrder'
  BY DEF Order
<1>1. OrderStep
  BY OrderlyBefore DEF OrderStep, CleanStep, Orderly, Order, Whole
<1>2. ASSUME NEW t \in Thread, Work(t) PROVE InOrder'
  BY <1>1, <1>2, RemoveDirectoryOrder, UnlinkOrder, MoveOrder, RecordOrder, WriteFlagOrder, ScanOrder,
     OpenOrder, ExtractOrder, ReadOrder, AssignOrder, SyncOrder DEF Work
<1>3. ASSUME NEW p \in Process, CompareChanges(p) \/ Restart(p) PROVE InOrder'
  BY <1>1, <1>3, CompareOrder, RestartOrder
<1>4. ASSUME NEW t \in Request, Requests(t) PROVE InOrder'
  BY <1>1, <1>4, RequestAsks, BeginOrder
<1>5. CASE Tick
  <2>1. UNCHANGED <<zip, extracted, infra, data, failed, thread>>
    BY <1>5 DEF Tick, files, counters, history, loads
  <2>2. QED
    BY <1>1, <2>1, InOrderSame DEF OrderStep
<1>6. CASE UNCHANGED pluginVars
  <2>1. UNCHANGED <<zip, extracted, infra, data, failed, thread>>
    BY <1>6 DEF pluginVars, files, counters, loads
  <2>2. QED
    BY <1>1, <2>1, InOrderSame DEF OrderStep
<1>7. QED
  BY <1>2, <1>3, <1>4, <1>5, <1>6 DEF PluginNext, Requests

\* There is one version of an infrastructure plugin at a time: a replacement
\* deletes what is loaded, which is what is there (upload_plugin).
LEMMA OneIsPresent == Order /\ PluginTypeOK => OneInfrastructure
<1> SUFFICES ASSUME Order, PluginTypeOK, infra, ~stepped, ~raced, ~cut, ~blind PROVE Cardinality(Present) <= 1
  BY DEF OneInfrastructure
<1>1. OneVersion
  BY DEF Order, Orderly, Clean, InOrder
<1>2. \A r, s \in Present : r = s
  BY <1>1 DEF OneVersion, Present
<1>3. CASE Present = {}
  <2>1. Cardinality({}) = 0
    BY FS_EmptySet
  <2>2. Cardinality(Present) = 0
    BY <1>3, <2>1
  <2>3. QED
    BY <2>2
<1>4. CASE Present # {}
  <2>1. PICK s \in Present : TRUE
    BY <1>4
  <2>2. Present = {s}
    BY <1>2, <2>1
  <2>3. Cardinality({s}) = 1
    BY FS_Singleton
  <2>4. Cardinality(Present) = 1
    BY <2>2, <2>3
  <2>5. QED
    BY <2>4
<1>5. QED
  BY <1>3, <1>4

\* What an engine holds is whole and of one version: no half of a plugin is
\* loaded, no load fails and no second version of an infrastructure plugin is
\* uploaded, but for the causes that are named (load_plugin_from_zip,
\* upload_plugin).
THEOREM WholePlugins == PluginSpec => []PluginsAreWhole
<1>1. Base /\ Order => OneInfrastructure
  BY OneIsPresent DEF Base
<1>2. PluginInit => Base /\ Whole /\ Order
  BY BaseInit, WholeInit, OrderInit
<1>3. Base /\ Whole /\ Order /\ [PluginNext]_pluginVars => (Base /\ Whole /\ Order)'
  BY BaseStep, WholeStep, OrderKept
<1>4. OneInfrastructure /\ HalfLoadedHasCause /\ BrokenLoadHasCause => PluginsAreWhole
  BY DEF PluginsAreWhole
<1>5. QED
  BY <1>1, <1>2, <1>3, <1>4, HalfLoadedExplained, BrokenLoadExplained, PTL DEF PluginSpec

-----------------------------------------------------------------------------
(* Every process sees what was recorded *)

Informed(p) == Remembers(p) /\ Follows(p)

\* A step under which no record hides another one.
SightStep(p) == OrderStep /\ ~clashed /\ ~clashed' /\ Informed(p)

\* What another thread does besides the files and the flag, p follows.
LEMMA SightKept ==
    ASSUME NEW p \in Process, p # Server, NEW t \in Thread, t # p, Alone(t), Informed(p),
           UNCHANGED <<zip, flag>>, data'[p] = data[p], last'[p] = last[p],
           p \in failed => p \in failed', missed => missed',
           t \in Request /\ Unrecorded(t) => Unrecorded(t)' \/ missed'
    PROVE  Informed(p)'
<1>1. thread'[p] = thread[p]
  BY Threads DEF Alone
<1>2. Remembers(p)'
  BY <1>1 DEF Informed, Remembers
<1>3. Untold => Untold'
  <2>1. CASE missed
    BY <2>1 DEF Untold
  <2>2. ASSUME NEW u \in Request, Unrecorded(u) PROVE Untold'
    <3>1. CASE u = t
      BY <2>2, <3>1 DEF Untold
    <3>2. CASE u # t
      <4>1. Unrecorded(u)'
        BY <2>2, <3>2, Threads DEF Alone, Unrecorded
      <4>2. QED
        BY <4>1 DEF Untold
    <3>3. QED
      BY <3>1, <3>2
  <2>3. QED
    BY <2>1, <2>2 DEF Untold
<1>4. Follows(p)'
  BY <1>1, <1>3 DEF Informed, Follows
<1>5. QED
  BY <1>2, <1>4 DEF Informed

\* A request that changes a file has still to record it.
LEMMA SightOfChange ==
    ASSUME Base, NEW p \in Process, p # Server, NEW t \in Request, Alone(t), Undisturbed(t), Informed(p),
           UNCHANGED <<flag, data, last>>, Unrecorded(t)'
    PROVE  Informed(p)'
<1>1. thread'[p] = thread[p] /\ p # t /\ p \in Thread
  BY Threads DEF Alone
<1>2. thread[p].pc # "sync"
  BY <1>1 DEF Undisturbed, Loading
<1>3. Follows(p)'
  BY <1>1, <1>2 DEF Follows, Untold
<1>4. Remembers(p)'
  BY <1>1 DEF Informed, Remembers
<1>5. QED
  BY <1>3, <1>4 DEF Informed

LEMMA RemoveDirectorySight ==
    ASSUME Base, NEW t \in Thread, RemoveDirectory(t), NEW p \in Process, p # Server, SightStep(p)
    PROVE  Informed(p)'
<1>1. thread \in [Thread -> ThreadState] /\ thread[t].pc = "rmdir" /\ t \in Request /\ t # p
  BY ChangerIsRequest, Threads DEF Base, PluginTypeOK, RemoveDirectory
<1>2. Alone(t) /\ thread'[t].pc \in {"record", "unlink"}
  BY <1>1, GotoMoves DEF RemoveDirectory, PCs
<1>3. UNCHANGED <<zip, flag, data, last, failed, missed>> /\ Informed(p)
  BY DEF RemoveDirectory, SightStep, loads
<1>4. Unrecorded(t)'
  BY <1>2 DEF Unrecorded
<1>5. QED
  BY <1>1, <1>2, <1>3, <1>4, SightKept

LEMMA UnlinkSight ==
    ASSUME Base, NEW t \in Thread, Unlink(t), NEW p \in Process, p # Server, SightStep(p)
    PROVE  Informed(p)'
<1>1. thread \in [Thread -> ThreadState] /\ t \in Request
  BY ChangerIsRequest DEF Base, PluginTypeOK, Unlink
<1>2. /\ Alone(t) /\ SameTask(t)
      /\ thread'[t].pc \in {"rmdir", "record"} \/ (thread'[t].pc = "move" /\ thread[t].task = "upload")
  BY <1>1, UnlinkMoves
<1>3. UNCHANGED <<flag, data, last>> /\ Informed(p) /\ Undisturbed(t)
  BY Undisturbing DEF Unlink, SightStep, OrderStep, CleanStep, Clean
<1>4. Unrecorded(t)'
  BY <1>2 DEF Unrecorded, SameTask
<1>5. QED
  BY <1>1, <1>2, <1>3, <1>4, SightOfChange

LEMMA MoveSight ==
    ASSUME Base, NEW t \in Thread, Move(t), NEW p \in Process, p # Server, SightStep(p)
    PROVE  Informed(p)'
<1>1. thread \in [Thread -> ThreadState] /\ t \in Request /\ thread[t].pc = "move" /\ thread[t].task = "upload"
  BY ChangerIsRequest DEF Base, PluginTypeOK, Move, Shapes, Shape
<1>2. Alone(t) /\ SameTask(t) /\ thread'[t].pc = "scan"
  BY <1>1, GotoMoves DEF Move, PCs
<1>3. UNCHANGED <<flag, data, last>> /\ Informed(p) /\ Undisturbed(t)
  BY Undisturbing DEF Move, SightStep, OrderStep, CleanStep, Clean
<1>4. Unrecorded(t)'
  BY <1>1, <1>2 DEF Unrecorded, SameTask
<1>5. QED
  BY <1>1, <1>2, <1>3, <1>4, SightOfChange

LEMMA RecordSight ==
    ASSUME Base, NEW t \in Thread, Record(t), NEW p \in Process, p # Server, SightStep(p)
    PROVE  Informed(p)'
<1>1. thread \in [Thread -> ThreadState] /\ last \in [Process -> Time]
      /\ thread[t].pc = "record" /\ Informed(p)
  BY DEF Base, PluginTypeOK, Record, SightStep
<1>2. Alone(t) /\ SameTask(t) /\ thread'[t].pc = "write"
  BY <1>1, RecordMoves
<1>3. UNCHANGED <<zip, flag, data, failed, missed>> /\ last' = [last EXCEPT ![ProcessOf(t)] = now]
  BY DEF Record, files, history, loads
<1>4. Unrecorded(t) => Unrecorded(t)'
  BY <1>1, <1>2 DEF Unrecorded
<1>5. CASE t # p
  <2>1. ProcessOf(t) # p
    BY <1>5, Threads DEF Thread
  <2>2. last'[p] = last[p]
    BY <1>1, <1>3, <2>1
  <2>3. QED
    BY <1>1, <1>2, <1>3, <1>4, <1>5, <2>2, SightKept
<1>6. CASE t = p
  <2>1. Remembers(p)'
    BY <1>2, <1>6 DEF Remembers
  <2>2. (\E u \in Request : Unrecorded(u)) => (\E u \in Request : Unrecorded(u)')
    BY <1>2, <1>6, Threads DEF Alone, Unrecorded
  <2>3. Untold => Untold'
    BY <1>3, <2>2 DEF Untold
  <2>4. Follows(p)'
    BY <1>1, <1>2, <1>3, <1>6, <2>3 DEF Informed, Follows
  <2>5. QED
    BY <2>1, <2>4 DEF Informed
<1>7. QED
  BY <1>5, <1>6

\* A record that hides nothing is later than all that p has seen.
LEMMA WriteFlagSight ==
    ASSUME Base, NEW t \in Thread, WriteFlag(t), NEW p \in Process, p # Server, SightStep(p)
    PROVE  Informed(p)'
<1>1. thread \in [Thread -> ThreadState] /\ last \in [Process -> Time] /\ flag \in Time
      /\ thread[t] \in ThreadState /\ thread[t].pc = "write" /\ Informed(p) /\ p \in Thread
  BY Threads DEF Base, PluginTypeOK, WriteFlag, SightStep
<1>2. Alone(t)
  <2>1. CASE thread[t].task \in {"upload", "start"}
    BY <1>1, <2>1, DoneMoves DEF WriteFlag
  <2>2. CASE thread[t].task \notin {"upload", "start"}
    BY <1>1, <2>2, GotoMoves DEF WriteFlag, PCs
  <2>3. QED
    BY <2>1, <2>2
<1>3. UNCHANGED <<zip, data, last, failed>> /\ flag' = last[ProcessOf(t)] /\ ~Hides(t)
      /\ missed' = (missed /\ thread[t].task = "start")
  BY DEF WriteFlag, files, SightStep
<1>4. last[ProcessOf(t)] \in Int /\ flag \in Nat /\ last[p] \in Int
  BY <1>1, Threads, EngineAssumption DEF Time
<1>5. flag < flag' /\ (thread[t].task = "start" => flag = 0)
  BY <1>3, <1>4 DEF Hides
<1>6. Shape(p) /\ thread[p] \in ThreadState
  BY <1>1 DEF Base, Shapes
<1>7. CASE t # p
  <2>1. thread'[p] = thread[p]
    BY <1>1, <1>2, <1>7 DEF Alone
  <2>2. thread[p].pc # "write" => last[p] < flag'
    BY <1>1, <1>4, <1>5, <1>3 DEF Informed, Remembers
  <2>3. thread[p].pc # "write" => last[p] <= flag' /\ last[p] # flag'
    BY <1>3, <1>4, <2>2
  <2>4. Remembers(p)'
    BY <1>1, <1>3, <2>1, <2>3 DEF Informed, Remembers
  <2>5. flag' # 0
    BY <1>3, <1>4, <1>5
  <2>6. thread[p].pc \in {"idle", "scan", "open", "extract", "read", "assign", "record", "write", "sync"}
    BY <1>6 DEF Shape, ThreadState
  <2>7. thread[p].pc = "sync" => data[p] = zip \/ p \in failed
    BY <1>1 DEF Informed, Follows
  <2>8. Follows(p)'
    BY <1>3, <2>1, <2>3, <2>5, <2>6, <2>7 DEF Follows
  <2>9. QED
    BY <2>4, <2>8 DEF Informed
<1>8. CASE t = p
  <2>1. thread[p].task = "start"
    BY <1>1, <1>6, <1>8, Threads DEF Shape
  <2>2. thread'[p] = Idle
    BY <1>1, <1>8, <2>1, DoneMoves DEF WriteFlag
  <2>3. last[p] = flag'
    BY <1>1, <1>3, <1>8, Threads
  <2>4. Remembers(p)'
    BY <1>3, <1>4, <2>2, <2>3, IdleFields DEF Remembers
  <2>5. data[p] = zip \/ p \in failed \/ Untold
    BY <1>1, <1>5, <1>8, <2>1 DEF Informed, Follows
  <2>6. Untold => Untold'
    <3>1. (\E u \in Request : Unrecorded(u)) => (\E u \in Request : Unrecorded(u)')
      BY <1>2, <1>8, Threads DEF Alone, Unrecorded
    <3>2. missed => missed'
      BY <1>3, <1>8, <2>1
    <3>3. QED
      BY <3>1, <3>2 DEF Untold
  <2>7. Follows(p)'
    BY <1>3, <2>2, <2>5, <2>6, IdleFields DEF Follows
  <2>8. QED
    BY <2>4, <2>7 DEF Informed
<1>9. QED
  BY <1>7, <1>8

LEMMA CompareSight ==
    ASSUME Base, NEW t \in Process, CompareChanges(t), NEW p \in Process, p # Server, SightStep(p)
    PROVE  Informed(p)'
<1>1. thread \in [Thread -> ThreadState] /\ last \in [Process -> Time] /\ flag \in Time
      /\ t \in Thread /\ t \notin Request /\ Informed(p)
  BY Threads DEF Base, PluginTypeOK, SightStep
<1>2. Alone(t) /\ thread'[t].pc = "scan"
  BY <1>1, CompareMoves
<1>3. UNCHANGED <<zip, flag, data, failed, missed>> /\ last' = [last EXCEPT ![t] = flag]
  BY DEF CompareChanges, files, history, loads
<1>4. CASE t # p
  BY <1>1, <1>2, <1>3, <1>4, SightKept
<1>5. CASE t = p
  <2>1. last'[p] = flag /\ flag \in Int
    BY <1>1, <1>3, <1>5, EngineAssumption DEF Time
  <2>2. Remembers(p)'
    BY <1>2, <1>3, <1>5, <2>1 DEF Remembers
  <2>3. Follows(p)'
    BY <1>2, <1>5 DEF Follows
  <2>4. QED
    BY <2>2, <2>3 DEF Informed
<1>6. QED
  BY <1>4, <1>5

\* A load goes on.
LEMMA SightOfLoad ==
    ASSUME Base, NEW t \in Thread, thread[t].pc \in {"scan", "open", "extract", "read"}, Alone(t), SameTask(t),
           thread'[t].pc \in {"open", "extract", "read", "assign"},
           UNCHANGED <<zip, flag, data, last, failed, missed>>, NEW p \in Process, p # Server, Informed(p)
    PROVE  Informed(p)'
<1>1. CASE t # p
  <2>1. Unrecorded(t) => Unrecorded(t)'
    BY DEF Unrecorded, SameTask
  <2>2. QED
    BY <1>1, <2>1, SightKept
<1>2. CASE t = p
  BY <1>2 DEF Informed, Remembers, Follows
<1>3. QED
  BY <1>1, <1>2

\* A load that fails is known to have failed, and nobody was told of an upload.
LEMMA RaisesSight ==
    ASSUME Base, NEW t \in Thread, Raises(t), NEW p \in Process, p # Server, SightStep(p)
    PROVE  Informed(p)'
<1>1. /\ Informed(p) /\ thread[t].pc = "read" /\ UNCHANGED <<zip, flag, data, last>>
      /\ failed' = failed \cup {ProcessOf(t)}
      /\ missed' = (missed \/ thread[t].task = "upload")
  BY DEF Raises, LoadFails, SightStep
<1>2. Alone(t) /\ thread'[t].pc \in {"idle", "sync"}
  BY RaisesMoves
<1>3. CASE t # p
  <2>1. Unrecorded(t) => missed'
    BY <1>1 DEF Unrecorded
  <2>2. QED
    BY <1>1, <1>2, <1>3, <2>1, SightKept
<1>4. CASE t = p
  <2>1. p \in failed'
    BY <1>1, <1>4, Threads
  <2>2. Remembers(p)'
    BY <1>1, <1>4 DEF Informed, Remembers
  <2>3. QED
    BY <2>1, <2>2 DEF Informed, Follows
<1>5. QED
  BY <1>3, <1>4

LEMMA LoadSight ==
    ASSUME Base, NEW t \in Thread, Scan(t) \/ Open(t) \/ Extract(t) \/ ReadPlugin(t),
           NEW p \in Process, p # Server, SightStep(p)
    PROVE  Informed(p)'
<1>1. thread \in [Thread -> ThreadState] /\ extracted \in [Stem -> Content \cup {Partial}]
      /\ Informed(p) /\ Intact
  BY DEF Base, PluginTypeOK, SightStep, OrderStep, CleanStep
<1>2. CASE Scan(t)
  <2>1. Alone(t) /\ SameTask(t) /\ thread'[t].pc \in {"assign", "open"}
    BY <1>1, <1>2, ScanMoves
  <2>2. thread[t].pc = "scan" /\ UNCHANGED <<zip, flag, data, last, failed, missed>>
    BY <1>2 DEF Scan, files, loads
  <2>3. QED
    BY <1>1, <2>1, <2>2, SightOfLoad
<1>3. CASE Open(t)
  <2>1. thread[t].pc = "open" /\ UNCHANGED <<zip, flag, data, last>>
    BY <1>3 DEF Open
  <2>2. zip[NextStem(t)] # Absent
    BY <1>1, <2>1, NextStemIsThere
  <2>3. (Goto(t, "extract") \/ Goto(t, "read")) /\ UNCHANGED <<failed, missed>>
    BY <1>3, <2>2 DEF Open, loads
  <2>4. Alone(t) /\ SameTask(t) /\ thread'[t].pc \in {"extract", "read"}
    BY <1>1, <2>3, GotoMoves DEF PCs
  <2>5. QED
    BY <1>1, <2>1, <2>3, <2>4, SightOfLoad
<1>4. CASE Extract(t)
  <2>1. thread[t].pc = "extract" /\ UNCHANGED <<zip, flag, data, last>>
    BY <1>4 DEF Extract
  <2>2. zip[NextStem(t)] # Absent
    BY <1>1, <2>1, NextStemIsThere
  <2>3. Goto(t, "read") /\ UNCHANGED <<failed, missed>>
    BY <1>4, <2>2 DEF Extract, loads
  <2>4. Alone(t) /\ SameTask(t) /\ thread'[t].pc = "read"
    BY <1>1, <2>3, GotoMoves DEF PCs
  <2>5. QED
    BY <1>1, <2>1, <2>3, <2>4, SightOfLoad
<1>5. CASE ReadPlugin(t) /\ Raises(t)
  BY <1>5, RaisesSight
<1>6. CASE ReadPlugin(t) /\ Reads(t) /\ UNCHANGED <<extracted, stepped, loads, zip, data, infra>>
  <2>1. thread[t].pc = "read" /\ UNCHANGED <<zip, flag, data, last, failed, missed>>
    BY <1>6 DEF ReadPlugin, loads
  <2>2. thread[t].todo # {}
    BY <1>6, ReadsOrRaises DEF SightStep, OrderStep
  <2>3. Alone(t) /\ SameTask(t) /\ thread'[t].pc \in {"assign", "open"}
    BY <1>1, <1>6, <2>2, ReadsMoves
  <2>4. QED
    BY <1>1, <2>1, <2>3, SightOfLoad
<1>7. ReadPlugin(t) => Raises(t) \/ (Reads(t) /\ UNCHANGED <<extracted, stepped, loads, zip, data, infra>>)
  BY ReadsOrRaises DEF SightStep, OrderStep
<1>8. QED
  BY <1>2, <1>3, <1>4, <1>5, <1>6, <1>7

LEMMA AssignSight ==
    ASSUME Base, NEW t \in Thread, Assign(t), NEW p \in Process, p # Server, SightStep(p)
    PROVE  Informed(p)'
<1>1. thread \in [Thread -> ThreadState] /\ thread[t].pc = "assign" /\ Informed(p)
      /\ data \in [Process -> [Stem -> Content]] /\ InOrder /\ Intact
  BY DEF Base, PluginTypeOK, Assign, SightStep, OrderStep, CleanStep, Intact
<1>2. /\ Alone(t) /\ thread'[t].pc \in {"idle", "sync", "record"}
      /\ thread[t].task = "upload" => thread'[t].pc = "record" \/ missed'
      /\ missed => missed'
  BY <1>1, AssignMoves
<1>3. UNCHANGED <<zip, flag, last>> /\ data' = [data EXCEPT ![ProcessOf(t)] = zip]
  BY <1>1, AssignedIsThere DEF Assign, files
<1>4. CASE t # p
  <2>1. ProcessOf(t) # p
    BY <1>4, Threads DEF Thread
  <2>2. data'[p] = data[p] /\ (p \in failed => p \in failed')
    BY <1>1, <1>3, <2>1 DEF Assign
  <2>3. Unrecorded(t) => Unrecorded(t)' \/ missed'
    BY <1>1, <1>2 DEF Unrecorded
  <2>4. QED
    BY <1>1, <1>2, <1>3, <1>4, <2>2, <2>3, SightKept
<1>5. CASE t = p
  <2>1. data'[p] = zip'
    BY <1>1, <1>3, <1>5, Threads
  <2>2. Remembers(p)'
    BY <1>1, <1>2, <1>3, <1>5 DEF Informed, Remembers
  <2>3. QED
    BY <2>1, <2>2 DEF Informed, Follows
<1>6. QED
  BY <1>4, <1>5

\* What a start has loaded is there when it reads the flag.
LEMMA SyncSight ==
    ASSUME Base, NEW t \in Thread, Sync(t), NEW p \in Process, p # Server, SightStep(p)
    PROVE  Informed(p)'
<1>1. thread \in [Thread -> ThreadState] /\ thread[t].pc = "sync" /\ t \notin Request /\ t \in Process
      /\ last \in [Process -> Time] /\ flag \in Time /\ Informed(p)
  BY DEF Base, PluginTypeOK, Sync, Shapes, Shape, SightStep, Thread
<1>2. Alone(t) /\ thread'[t].pc \in {"idle", "record"}
  <2>1. CASE flag = 0
    BY <1>1, <2>1, GotoMoves DEF Sync, PCs
  <2>2. CASE flag # 0
    BY <1>1, <2>2, DoneMoves, IdleFields DEF Sync
  <2>3. QED
    BY <2>1, <2>2
<1>3. UNCHANGED <<zip, flag, data, failed, missed>> /\ last' = [last EXCEPT ![t] = flag]
  BY DEF Sync, files, history, loads
<1>4. CASE t # p
  BY <1>1, <1>2, <1>3, <1>4, SightKept
<1>5. CASE t = p
  <2>1. data[p] = zip \/ p \in failed
    BY <1>1, <1>5 DEF Informed, Follows
  <2>2. last'[p] = flag /\ flag \in Int
    BY <1>1, <1>3, <1>5, EngineAssumption DEF Time
  <2>3. Remembers(p)'
    BY <1>2, <1>3, <1>5, <2>2 DEF Remembers
  <2>4. QED
    BY <1>3, <2>1, <2>3 DEF Informed, Follows
<1>6. QED
  BY <1>4, <1>5

LEMMA BeginSight ==
    ASSUME Base, NEW t, NEW task, NEW s, NEW new, NEW old, NEW pc, Asked(t, task, s, new, old, pc),
           NEW p \in Process, p # Server, SightStep(p)
    PROVE  Informed(p)'
<1>1. /\ thread \in [Thread -> ThreadState] /\ pc \in {"move", "rmdir", "unlink"} /\ pc \in PCs
      /\ t \in Request /\ t \in Thread /\ t # p
      /\ task = "upload" \/ pc \in {"rmdir", "unlink"}
      /\ Informed(p) /\ UNCHANGED <<zip, flag, data, last, failed, missed>>
  BY Threads DEF Base, PluginTypeOK, Asked, Begin, PCs, SightStep, files, loads
<1>2. Alone(t) /\ thread'[t].pc = pc /\ thread'[t].task = task
  BY <1>1, BeginMoves
<1>3. Unrecorded(t)'
  BY <1>1, <1>2 DEF Unrecorded
<1>4. QED
  BY <1>1, <1>2, <1>3, SightKept

LEMMA RestartSight ==
    ASSUME Base, NEW q \in Process, Restart(q), NEW p \in Process, p # Server, SightStep(p)
    PROVE  Informed(p)'
<1>1. /\ ~cut' /\ UNCHANGED <<zip, flag, failed, missed>> /\ Informed(p)
      /\ data' = [data EXCEPT ![q] = NoPlugins] /\ last' = [last EXCEPT ![q] = 0]
      /\ data \in [Process -> [Stem -> Content]] /\ last \in [Process -> Time] /\ flag \in Time
  BY DEF Base, PluginTypeOK, SightStep, OrderStep, CleanStep, Clean, Restart, files, Intact, loads
<1>2. CASE q = p
  <2>1. thread'[p] = Starting /\ last'[p] = 0 /\ flag' >= 0
    BY <1>1, <1>2, RestartMoves, EngineAssumption DEF Time
  <2>2. QED
    BY <2>1, IdleFields DEF Informed, Remembers, Follows
<1>3. CASE q # p
  <2>1. thread'[p] = thread[p] /\ data'[p] = data[p] /\ last'[p] = last[p]
    BY <1>1, <1>3, RestartMoves, Threads
  <2>2. \A u \in Request : thread[u].pc # "idle" => thread'[u] = thread[u]
    BY <1>1, RestartIdles, Threads
  <2>3. Untold => Untold'
    BY <1>1, <2>2 DEF Unrecorded, Untold
  <2>4. QED
    BY <1>1, <2>1, <2>3 DEF Informed, Remembers, Follows
<1>4. QED
  BY <1>2, <1>3

LEMMA InformedSame ==
    ASSUME NEW p, Informed(p), UNCHANGED <<zip, flag, data, last, failed, missed, thread>> PROVE Informed(p)'
BY DEF Informed, Remembers, Follows, Unrecorded, Untold

LEMMA SightInit == PluginInit => Sight
<1> SUFFICES ASSUME PluginInit, NEW p \in Process PROVE Remembers(p) /\ Follows(p)
  BY DEF Sight
<1>1. thread[p] = Starting /\ last[p] = 0 /\ flag \in {0, 1}
  BY Threads DEF PluginInit
<1>2. QED
  BY <1>1, IdleFields DEF Remembers, Follows

LEMMA UnclashedBefore == Base /\ [PluginNext]_pluginVars /\ ~clashed' => ~clashed
<1> SUFFICES ASSUME Base, [PluginNext]_pluginVars, ~clashed' PROVE ~clashed
  OBVIOUS
<1>0. clashed \in BOOLEAN
  BY DEF Base, PluginTypeOK
<1>1. ASSUME NEW t \in Thread, Work(t) PROVE ~clashed
  <2>1. CASE RemoveDirectory(t) \/ Unlink(t) \/ Move(t)
    BY <1>0, <2>1 DEF RemoveDirectory, Unlink, Move
  <2>2. CASE Record(t) \/ Assign(t) \/ Sync(t)
    BY <1>0, <2>2 DEF Record, Assign, Sync, history
  <2>3. CASE WriteFlag(t)
    <3>1. clashed' = (clashed \/ Hides(t))
      BY <2>3 DEF WriteFlag
    <3>2. QED
      BY <1>0, <3>1
  <2>4. CASE Scan(t)
    <3>1. clashed' = clashed
      BY <2>4 DEF Scan
    <3>2. QED
      BY <1>0, <3>1
  <2>5. CASE Open(t) \/ Extract(t) \/ ReadPlugin(t)
    <3>1. clashed' = clashed
      BY <2>5 DEF Open, Extract, ReadPlugin
    <3>2. QED
      BY <1>0, <3>1
  <2>6. QED
    BY <1>1, <2>1, <2>2, <2>3, <2>4, <2>5 DEF Work
<1>2. ASSUME NEW p \in Process, CompareChanges(p) \/ Restart(p) PROVE ~clashed
  BY <1>0, <1>2 DEF CompareChanges, Restart, history
<1>3. ASSUME NEW t \in Request, Requests(t) PROVE ~clashed
  <2>1. PICK task, s, new, old, pc : Begin(t, task, s, new, old, pc)
    BY <1>3 DEF Requests, DeleteAll, Delete, Upload
  <2>2. QED
    BY <1>0, <2>1 DEF Begin
<1>4. CASE Tick
  BY <1>0, <1>4 DEF Tick, history
<1>5. CASE UNCHANGED pluginVars
  BY <1>0, <1>5 DEF pluginVars
<1>6. QED
  BY <1>1, <1>2, <1>3, <1>4, <1>5 DEF PluginNext, Requests

LEMMA SightStays == Base /\ Whole /\ Order /\ Sight /\ [PluginNext]_pluginVars => Sight'
<1> SUFFICES ASSUME Base, Whole, Order, Sight, [PluginNext]_pluginVars, Orderly', ~clashed',
                    NEW p \in Process, p # Server
             PROVE  Informed(p)'
  BY DEF Sight, Informed
<1>1. SightStep(p)
  BY OrderlyBefore, UnclashedBefore DEF SightStep, OrderStep, CleanStep, Orderly, Order, Whole, Sight, Informed
<1>2. ASSUME NEW t \in Thread, Work(t) PROVE Informed(p)'
  BY <1>1, <1>2, RemoveDirectorySight, UnlinkSight, MoveSight, RecordSight, WriteFlagSight, LoadSight,
     AssignSight, SyncSight DEF Work
<1>3. ASSUME NEW q \in Process, CompareChanges(q) \/ Restart(q) PROVE Informed(p)'
  BY <1>1, <1>3, CompareSight, RestartSight
<1>4. ASSUME NEW t \in Request, Requests(t) PROVE Informed(p)'
  BY <1>1, <1>4, RequestAsks, BeginSight
<1>5. CASE Tick
  <2>1. UNCHANGED <<zip, flag, data, last, failed, missed, thread>>
    BY <1>5 DEF Tick, files, history, loads
  <2>2. QED
    BY <1>1, <2>1, InformedSame DEF SightStep
<1>6. CASE UNCHANGED pluginVars
  <2>1. UNCHANGED <<zip, flag, data, last, failed, missed, thread>>
    BY <1>6 DEF pluginVars, files, loads
  <2>2. QED
    BY <1>1, <2>1, InformedSame DEF SightStep
<1>7. QED
  BY <1>2, <1>3, <1>4, <1>5, <1>6 DEF PluginNext, Requests

LEMMA InvInit == PluginInit => PluginInv
BY BaseInit, WholeInit, OrderInit, SightInit DEF PluginInv, Base

LEMMA InvStep == PluginInv /\ [PluginNext]_pluginVars => PluginInv'
BY BaseStep, WholeStep, OrderKept, SightStays DEF PluginInv, Base

LEMMA QuietIsLoaded == PluginInv => LoadedIsUploaded
<1> SUFFICES ASSUME PluginInv, Quiet, ~stepped, ~raced, ~clashed, ~cut, ~blind, NEW p \in Process
             PROVE  data[p] = zip \/ p \in failed \/ (missed /\ p # Server)
  BY DEF LoadedIsUploaded
<1>1. Orderly /\ InOrder
  BY DEF PluginInv, Order, Orderly, Clean
<1>2. \A t \in Thread : thread[t].pc = "idle"
  BY DEF Quiet, Running
<1>3. \A t \in Request : ~Unloaded(t) /\ ~Unrecorded(t)
  BY <1>2, Threads DEF Unloaded, Unrecorded
<1>4. CASE p = Server
  <2>1. thread[Server].pc = "idle"
    BY <1>2, Threads
  <2>2. QED
    BY <1>1, <1>3, <1>4, <2>1 DEF InOrder, ServerIsCurrent
<1>5. CASE p # Server
  <2>1. Follows(p)
    BY <1>1, <1>5 DEF PluginInv, Sight
  <2>2. thread[p].pc = "idle" /\ last[p] = flag
    BY <1>2, Threads DEF Quiet
  <2>3. QED
    BY <1>3, <1>5, <2>1, <2>2 DEF Follows, Untold
<1>6. QED
  BY <1>4, <1>5

\* When nothing runs and every process has seen the flag, every process has
\* loaded what the directory holds, but for the causes that are named
\* (_watch_plugins_changes, _record_last_change).
THEOREM UploadsAreLoaded == PluginSpec => []LoadedIsUploaded
BY InvInit, InvStep, QuietIsLoaded, PTL DEF PluginSpec

=============================================================================
