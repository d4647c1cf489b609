----------------------------- MODULE EventStream -----------------------------
(***************************************************************************)
(* Lifecycle's event stream and the pages of the dashboard that follow it. *)
(* A watcher thread, started by the first client, reads all jobs again and *)
(* again and tells the clients when they changed; it ends when it sees no  *)
(* client.  A page loads the jobs when it is opened and again, after a     *)
(* short delay, for every event; loads are answered in any order.          *)
(***************************************************************************)
EXTENDS Naturals, FiniteSets

CONSTANTS
    Page,           \* pages of the dashboard, one websocket each
    MaxVersion,     \* bound: what the jobs may look like
    MaxChanges,     \* bound: changes of the jobs
    MaxErrors       \* bound: errors of the database and of loads

ASSUME EventAssumption == MaxVersion \in Nat \ {0} /\ MaxChanges \in Nat /\ MaxErrors \in Nat

VARIABLES
    jobs,           \* the jobs in the database
    changes, errors,
    watcher,        \* the watcher thread
    clients,        \* EventStreamServer.clients
    page,           \* [Page -> PageState]
    orphaned,       \* history: a client came while the watcher was leaving
    killed,         \* history: an exception ended the watcher
    reverted        \* history: the jobs changed back before they were read

eventVars == <<jobs, changes, errors, watcher, clients, page, orphaned,
               killed, reverted>>

-----------------------------------------------------------------------------
Version == 1..MaxVersion
Unknown == 0

\* pc none is a watcher_thread of None, over a thread that is not alive.  last
\* is last_jobs, todo the clients still to be notified in this round.
WatcherState ==
    [pc : {"none", "check", "read", "notify", "sleep", "leave", "over"},
     last : Version \cup {Unknown}, todo : SUBSET Page]
Watcher(pc) == [pc |-> pc, last |-> Unknown, todo |-> {}]

\* closing: the tab is closed and the server has not noticed.  timers are
\* pending reloads, asked loads on their way, answers those that come back.
\* told: an event of this watcher arrived; spoiled: a load failed or was overtaken by an older.
PageState ==
    [socket : {"off", "open", "closing", "closed"},
     shown : Version \cup {Unknown}, timers : 0..MaxChanges,
     asked : 0..(MaxChanges + 1), answers : SUBSET Version,
     told : BOOLEAN, spoiled : BOOLEAN]
NewPage == [socket |-> "off", shown |-> Unknown, timers |-> 0, asked |-> 0,
            answers |-> {}, told |-> FALSE, spoiled |-> FALSE]

EventInit ==
    /\ jobs \in Version /\ changes = 0 /\ errors = 0
    /\ watcher = Watcher("none") /\ clients = {}
    /\ page = [p \in Page |-> NewPage]
    /\ orphaned = FALSE /\ killed = FALSE /\ reverted = FALSE

Alive == watcher.pc \notin {"none", "over"}

\* Any write of Lifecycle to the table of jobs.
Change ==
    /\ changes < MaxChanges /\ changes' = changes + 1
    /\ jobs' \in Version \ {jobs}
    /\ reverted' = (reverted \/ jobs' = watcher.last)
    /\ UNCHANGED <<errors, watcher, clients, page, orphaned, killed>>

-----------------------------------------------------------------------------
(* The server *)

\* Mutant: the thread counts as running once it has been started.
ConnectOnce(p) ==
    /\ page[p].socket = "off"
    /\ clients' = clients \cup {p}
    /\ watcher' = IF watcher.pc = "none" THEN Watcher("check") ELSE watcher
    /\ orphaned' = (orphaned \/ watcher.pc = "leave")
    /\ page' = [page EXCEPT ![p].socket = "open", ![p].asked = 1]
    /\ UNCHANGED <<jobs, changes, errors, killed, reverted>>

\* The page is opened: fetchJobs and setupEventStreamClient; on_websocket adds
\* the client and starts a watcher unless one is alive.
Connect(p) ==
    /\ page[p].socket = "off"
    /\ clients' = clients \cup {p}
    /\ watcher' = IF Alive THEN watcher ELSE Watcher("check")
    /\ orphaned' = (orphaned \/ watcher.pc = "leave")
    /\ page' = [q \in Page |->
                  IF q = p THEN [NewPage EXCEPT !.socket = "open", !.asked = 1]
                  ELSE [page[q] EXCEPT !.told = @ /\ Alive]]
    /\ UNCHANGED <<jobs, changes, errors, killed, reverted>>

\* The tab is closed.
Leave(p) ==
    /\ page[p].socket = "open"
    /\ page' = [page EXCEPT ![p] = [NewPage EXCEPT !.socket = "closing"]]
    /\ UNCHANGED <<jobs, changes, errors, watcher, clients, orphaned, killed,
                   reverted>>

\* The finally clause of on_websocket.
Disconnect(p) ==
    /\ page[p].socket = "closing"
    /\ page' = [page EXCEPT ![p].socket = "closed"]
    /\ clients' = clients \ {p}
    /\ UNCHANGED <<jobs, changes, errors, watcher, orphaned, killed, reverted>>

\* while len(self.clients) > 0
Check ==
    /\ watcher.pc = "check"
    /\ watcher' = [watcher EXCEPT !.pc = IF clients = {} THEN "leave"
                                                         ELSE "read"]
    /\ UNCHANGED <<jobs, changes, errors, clients, page, orphaned, killed,
                   reverted>>

\* list_job_registry, compared with the last round; the first round only
\* remembers.
ReadJobs ==
    /\ watcher.pc = "read"
    /\ watcher' =
          IF watcher.last \notin {Unknown, jobs}
          THEN [pc |-> "notify", last |-> jobs, todo |-> clients]
          ELSE [pc |-> "sleep", last |-> jobs, todo |-> {}]
    /\ UNCHANGED <<jobs, changes, errors, clients, page, orphaned, killed,
                   reverted>>

\* Mutant: the page takes no notice of an event while it is loading.
NotifyIdle(p) ==
    /\ watcher.pc = "notify" /\ p \in watcher.todo
    /\ watcher' = [watcher EXCEPT !.todo = @ \ {p}]
    /\ page' = IF page[p].socket = "open"
               THEN [page EXCEPT ![p].told = TRUE,
                         ![p].timers = IF page[p].answers = {} THEN @ + 1 ELSE @]
               ELSE page
    /\ UNCHANGED <<jobs, changes, errors, clients, orphaned, killed, reverted>>

\* notify_clients_async: one client of the copied list.  A client that is gone
\* may raise, and that ends the watcher.
Notify(p) ==
    /\ watcher.pc = "notify" /\ p \in watcher.todo
    /\ \/ /\ watcher' = [watcher EXCEPT !.todo = @ \ {p}]
          /\ page' = IF page[p].socket = "open"
                     THEN [page EXCEPT ![p].timers = @ + 1, ![p].told = TRUE]
                     ELSE page
          /\ UNCHANGED killed
       \/ /\ page[p].socket # "open"
          /\ watcher' = Watcher("over") /\ killed' = TRUE
          /\ UNCHANGED page
    /\ UNCHANGED <<jobs, changes, errors, clients, orphaned, reverted>>

\* time.sleep(job_watcher_interval), once all clients are notified.
Wake ==
    /\ watcher.pc = "sleep" \/ (watcher.pc = "notify" /\ watcher.todo = {})
    /\ watcher' = [watcher EXCEPT !.pc = "check"]
    /\ UNCHANGED <<jobs, changes, errors, clients, page, orphaned, killed,
                   reverted>>

\* An error of the database ends the watcher.
ReadRaises ==
    /\ watcher.pc = "read" /\ errors < MaxErrors /\ errors' = errors + 1
    /\ watcher' = Watcher("over") /\ killed' = TRUE
    /\ UNCHANGED <<jobs, changes, clients, page, orphaned, reverted>>

\* The thread that left its loop is no longer alive.
Stop ==
    /\ watcher.pc = "leave"
    /\ watcher' = Watcher("over")
    /\ UNCHANGED <<jobs, changes, errors, clients, page, orphaned, killed,
                   reverted>>

-----------------------------------------------------------------------------
(* The page *)

\* The timer of onWebsocketEvent fires: fetchJobs.
Reload(p) ==
    /\ page[p].timers > 0
    /\ page' = [page EXCEPT ![p].timers = @ - 1, ![p].asked = @ + 1]
    /\ UNCHANGED <<jobs, changes, errors, watcher, clients, orphaned, killed,
                   reverted>>

\* Lifecycle answers one load.
AnswerLoad(p) ==
    /\ page[p].asked > 0
    /\ page' = [page EXCEPT ![p].asked = @ - 1, ![p].answers = @ \cup {jobs}]
    /\ UNCHANGED <<jobs, changes, errors, watcher, clients, orphaned, killed,
                   reverted>>

\* A load fails: the page tells the user and keeps what it shows.
LoadFails(p) ==
    /\ page[p].asked > 0 /\ errors < MaxErrors /\ errors' = errors + 1
    /\ page' = [page EXCEPT ![p].asked = @ - 1, ![p].spoiled = TRUE]
    /\ UNCHANGED <<jobs, changes, watcher, clients, orphaned, killed, reverted>>

\* An answer is shown, in whatever order the answers come.
Show(p, v) ==
    /\ v \in page[p].answers
    /\ page' = [page EXCEPT ![p].answers = @ \ {v}, ![p].shown = v,
                    ![p].spoiled = @ \/ page[p].answers # {v}]
    /\ UNCHANGED <<jobs, changes, errors, watcher, clients, orphaned, killed,
                   reverted>>

-----------------------------------------------------------------------------
WatcherStep ==
    \/ Check \/ ReadJobs \/ Wake \/ Stop \/ \E p \in Page : Notify(p)
EventNext ==
    \/ Change \/ WatcherStep \/ ReadRaises
    \/ \E p \in Page :
          \/ Connect(p) \/ Leave(p) \/ Disconnect(p)
          \/ Reload(p) \/ AnswerLoad(p) \/ LoadFails(p)
          \/ \E v \in Version : Show(p, v)

\* The thread runs, and the server notices sockets that are closed.
EventFairness ==
    /\ WF_eventVars(WatcherStep)
    /\ \A p \in Page : WF_eventVars(Disconnect(p))

EventSpec == EventInit /\ [][EventNext]_eventVars /\ EventFairness

-----------------------------------------------------------------------------
\* Type invariant of the watcher, its clients and the pages.
EventTypeOK ==
    /\ jobs \in Version /\ changes \in 0..MaxChanges /\ errors \in 0..MaxErrors
    /\ watcher \in WatcherState /\ clients \subseteq Page
    /\ page \in [Page -> PageState]
    /\ orphaned \in BOOLEAN /\ killed \in BOOLEAN /\ reverted \in BOOLEAN

\* Clients are without a watcher only after an exception ended the thread
\* (nothing starts another until somebody connects), or after a client came
\* when the thread had left its loop and was still alive.
UnwatchedHasCause ==
    clients # {} /\ ~Alive => killed \/ orphaned

\* The page has nothing on its way and the watcher has nothing to report.
Settled(p) ==
    /\ page[p].socket = "open" /\ page[p].timers = 0
    /\ page[p].asked = 0 /\ page[p].answers = {}
    /\ watcher.pc \in {"notify", "sleep"} /\ watcher.todo = {}
    /\ watcher.last = jobs

\* A page that has had an event of this watcher shows the jobs as they are once
\* it is settled, unless loads failed or overlapped or the jobs changed back
\* between two reads: no interleaving of reads, events and reloads loses a
\* change.
SettledPageIsCurrent ==
    \A p \in Page : Settled(p) /\ page[p].told
        => page[p].shown = jobs \/ page[p].spoiled \/ reverted
=============================================================================
