----------------------------- MODULE LiveProofs -----------------------------
(***************************************************************************)
(* Proofs about the long-lived connections: the event stream with any      *)
(* number of pages, the logs with any number of clients and threads, the   *)
(* websocket of a remote gateway with any number of calls.                 *)
(***************************************************************************)
EXTENDS RemoteGateway, EventStream, LogSessions, FiniteSetTheorems, TLAPS

-----------------------------------------------------------------------------
(* The event stream: the inductive invariant                               *)

Seen == Version \cup {Unknown}
WatcherPC == {"none", "check", "read", "notify", "sleep", "leave", "over"}
WatcherShape == [pc : WatcherPC, last : Seen, todo : SUBSET Page]
PageShape ==
    [socket : {"off", "open", "closing", "closed"}, shown : Seen, timers : Nat, asked : Nat,
     answers : SUBSET Version, told : BOOLEAN, spoiled : BOOLEAN]

EventShapes ==
    /\ jobs \in Version /\ clients \subseteq Page
    /\ watcher \in WatcherShape
    /\ page \in [Page -> PageShape]
    /\ orphaned \in BOOLEAN /\ killed \in BOOLEAN /\ reverted \in BOOLEAN

\* A thread that has left its loop has left nobody behind, or it is on record.
LeavesNobody == watcher.pc \in {"none", "leave", "over"} /\ clients # {} => killed \/ orphaned

\* A page that is open is a client, and what has told it something has read the
\* jobs before.
OpenIsClient == \A p \in Page : page[p].socket = "open" => p \in clients
ToldAfterRead ==
    /\ \A p \in Page : Alive /\ page[p].told => watcher.last # Unknown
    /\ watcher.pc = "notify" => watcher.last # Unknown
    /\ watcher.pc \in {"none", "over"} => watcher.last = Unknown

\* Something that the page will load, is loading or has loaded is newer than
\* all changes, or the watcher has still to tell it of one.
Informed(p) ==
    \/ page[p].timers > 0 \/ page[p].asked > 0
    \/ jobs \in page[p].answers
    \/ page[p].answers = {} /\ page[p].shown = jobs
    \/ watcher.last # jobs
    \/ watcher.pc = "notify" /\ p \in watcher.todo
NothingIsMissed ==
    \A p \in Page : page[p].socket = "open" /\ page[p].told
        => Informed(p) \/ page[p].spoiled \/ reverted

EventInv == EventShapes /\ LeavesNobody /\ OpenIsClient /\ ToldAfterRead /\ NothingIsMissed

LEMMA UnknownIsNoVersion == Unknown \notin Version
BY EventAssumption DEF Unknown, Version

LEMMA WatcherOf == ASSUME NEW pc \in WatcherPC PROVE Watcher(pc) \in WatcherShape
BY DEF Watcher, WatcherShape, Seen

LEMMA NewPageShape == NewPage \in PageShape
BY DEF NewPage, PageShape, Seen

-----------------------------------------------------------------------------
(* The steps of the event stream                                           *)

LEMMA ChangeStep == ASSUME EventInv, Change PROVE EventInv'
<1>1. EventShapes'
  BY DEF EventInv, EventShapes, Change
<1>2. LeavesNobody' /\ OpenIsClient' /\ ToldAfterRead'
  BY DEF EventInv, LeavesNobody, OpenIsClient, ToldAfterRead, Alive, Change
<1>3. NothingIsMissed'
  BY DEF EventInv, EventShapes, NothingIsMissed, Informed, Change
<1>4. QED
  BY <1>1, <1>2, <1>3 DEF EventInv

LEMMA EventInitInv == EventInit => EventInv
<1> SUFFICES ASSUME EventInit PROVE EventInv
  OBVIOUS
<1>1. EventShapes
  BY NewPageShape, WatcherOf DEF EventInit, EventShapes, WatcherPC
<1>2. watcher.pc = "none" /\ watcher.last = Unknown /\ clients = {}
  BY DEF EventInit, Watcher
<1>3. \A p \in Page : page[p].socket = "off" /\ page[p].told = FALSE
  BY DEF EventInit, NewPage
<1>4. QED
  BY <1>1, <1>2, <1>3 DEF EventInv, LeavesNobody, OpenIsClient, ToldAfterRead, NothingIsMissed, Alive

\* The pages stay as they are while the watcher goes on.
LEMMA WatcherMoves ==
    ASSUME EventInv, page' = page, jobs' = jobs, clients' = clients, reverted' = reverted,
           orphaned' = orphaned, killed' \in BOOLEAN, killed => killed',
           watcher' \in WatcherShape, LeavesNobody', ToldAfterRead',
           \A p \in Page : page[p].socket = "open" /\ page[p].told /\ Informed(p) => Informed(p)'
    PROVE  EventInv'
<1>1. EventShapes'
  BY DEF EventInv, EventShapes
<1>2. OpenIsClient'
  BY DEF EventInv, OpenIsClient
<1>3. NothingIsMissed'
  BY DEF EventInv, NothingIsMissed
<1>4. QED
  BY <1>1, <1>2, <1>3 DEF EventInv

LEMMA CheckMoves == ASSUME EventInv, Check PROVE EventInv'
<1>1. watcher \in WatcherShape
  BY DEF EventInv, EventShapes
<1>2. watcher' \in WatcherShape /\ watcher'.last = watcher.last /\ watcher'.todo = watcher.todo
  BY <1>1 DEF Check, WatcherShape, WatcherPC
<1>3. watcher'.pc = IF clients = {} THEN "leave" ELSE "read"
  BY <1>1 DEF Check, WatcherShape
<1>4. LeavesNobody'
  BY <1>3 DEF LeavesNobody, Check
<1>5. ToldAfterRead'
  BY <1>2, <1>3 DEF ToldAfterRead, Alive, Check, EventInv
<1>6. \A p \in Page : Informed(p) => Informed(p)'
  BY <1>2, <1>3 DEF Informed, Check
<1>7. QED
  BY <1>2, <1>4, <1>5, <1>6, WatcherMoves DEF Check, EventInv, EventShapes

LEMMA ReadJobsMoves == ASSUME EventInv, ReadJobs PROVE EventInv'
<1>1. watcher \in WatcherShape /\ jobs \in Version /\ clients \subseteq Page
  BY DEF EventInv, EventShapes
<1>2. watcher' \in WatcherShape /\ watcher'.last = jobs /\ watcher'.pc \in {"notify", "sleep"}
      /\ (watcher.last \notin {Unknown, jobs} => watcher'.pc = "notify" /\ watcher'.todo = clients)
  <2>1. CASE watcher.last \notin {Unknown, jobs}
    <3>1. watcher' = [pc |-> "notify", last |-> jobs, todo |-> clients]
      BY <2>1 DEF ReadJobs
    <3>2. QED
      BY <1>1, <3>1 DEF WatcherShape, WatcherPC, Seen
  <2>2. CASE watcher.last \in {Unknown, jobs}
    <3>1. watcher' = [pc |-> "sleep", last |-> jobs, todo |-> {}]
      BY <2>2 DEF ReadJobs
    <3>2. QED
      BY <1>1, <2>2, <3>1 DEF WatcherShape, WatcherPC, Seen
  <2>3. QED
    BY <2>1, <2>2
<1>3. LeavesNobody'
  BY <1>2 DEF LeavesNobody
<1>4. ToldAfterRead'
  BY <1>1, <1>2, UnknownIsNoVersion DEF ToldAfterRead
<1>5. ASSUME NEW p \in Page, page[p].socket = "open", page[p].told, Informed(p)
      PROVE  Informed(p)'
  <2>1. watcher.pc = "read" /\ watcher.last # Unknown
    BY <1>5 DEF EventInv, ToldAfterRead, Alive, ReadJobs
  <2>2. CASE watcher.last # jobs
    <3>1. p \in clients
      BY <1>5 DEF EventInv, OpenIsClient
    <3>2. QED
      BY <1>2, <2>1, <2>2, <3>1 DEF Informed
  <2>3. CASE watcher.last = jobs
    BY <1>5, <2>1, <2>3 DEF Informed, ReadJobs
  <2>4. QED
    BY <2>2, <2>3
<1>6. QED
  BY <1>2, <1>3, <1>4, <1>5, WatcherMoves DEF ReadJobs, EventInv, EventShapes

LEMMA WakeMoves == ASSUME EventInv, Wake PROVE EventInv'
<1>1. watcher \in WatcherShape
  BY DEF EventInv, EventShapes
<1>2. /\ watcher' \in WatcherShape /\ watcher'.last = watcher.last
      /\ watcher'.todo = watcher.todo /\ watcher'.pc = "check"
  BY <1>1 DEF Wake, WatcherShape, WatcherPC
<1>3. LeavesNobody'
  BY <1>2 DEF LeavesNobody
<1>4. ToldAfterRead'
  BY <1>2 DEF ToldAfterRead, Alive, Wake, EventInv
<1>5. \A p \in Page : Informed(p) => Informed(p)'
  BY <1>2 DEF Informed, Wake
<1>6. QED
  BY <1>2, <1>3, <1>4, <1>5, WatcherMoves DEF Wake, EventInv, EventShapes

\* The thread is over, and whoever is told anything is told by another.
LEMMA OverMoves ==
    ASSUME EventInv, page' = page, jobs' = jobs, clients' = clients, reverted' = reverted,
           orphaned' = orphaned, killed' \in BOOLEAN, killed => killed',
           watcher' = Watcher("over"), clients # {} => killed' \/ orphaned
    PROVE  EventInv'
<1>1. watcher' \in WatcherShape /\ watcher'.pc = "over" /\ watcher'.last = Unknown
  BY WatcherOf DEF Watcher, WatcherPC
<1>2. LeavesNobody'
  BY DEF LeavesNobody
<1>3. ToldAfterRead'
  BY <1>1 DEF ToldAfterRead, Alive
<1>4. \A p \in Page : Informed(p)'
  BY <1>1, UnknownIsNoVersion DEF Informed, EventInv, EventShapes
<1>5. QED
  BY <1>1, <1>2, <1>3, <1>4, WatcherMoves

LEMMA ReadRaisesMoves == ASSUME EventInv, ReadRaises PROVE EventInv'
BY OverMoves DEF ReadRaises

LEMMA StopMoves == ASSUME EventInv, Stop PROVE EventInv'
BY OverMoves DEF Stop, EventInv, EventShapes, LeavesNobody

\* One page goes on: the others are as well informed as before.
LEMMA PageMoves ==
    ASSUME EventInv, NEW p \in Page,
           page' \in [Page -> PageShape], \A q \in Page : q # p => page'[q] = page[q],
           jobs' = jobs, watcher' = watcher, clients' \subseteq Page, clients \ {p} \subseteq clients',
           reverted' = reverted, orphaned' = orphaned, killed' = killed, clients' # {} => clients # {},
           page'[p].socket = "open" => p \in clients',
           page'[p].told => page[p].told \/ watcher.last # Unknown,
           page'[p].socket = "open" /\ page'[p].told => Informed(p)' \/ page'[p].spoiled \/ reverted
    PROVE  EventInv'
<1>1. EventShapes'
  BY DEF EventInv, EventShapes
<1>2. LeavesNobody'
  BY DEF EventInv, LeavesNobody
<1>3. OpenIsClient'
  <2> SUFFICES ASSUME NEW q \in Page, page'[q].socket = "open" PROVE q \in clients'
    BY DEF OpenIsClient
  <2>1. CASE q = p
    BY <2>1
  <2>2. CASE q # p
    BY <2>2 DEF EventInv, OpenIsClient
  <2>3. QED
    BY <2>1, <2>2
<1>4. ToldAfterRead'
  <2>1. ASSUME NEW q \in Page, Alive, page'[q].told PROVE watcher.last # Unknown
    <3>1. CASE q = p
      BY <2>1, <3>1 DEF EventInv, ToldAfterRead
    <3>2. CASE q # p
      BY <2>1, <3>2 DEF EventInv, ToldAfterRead
    <3>3. QED
      BY <3>1, <3>2
  <2>2. QED
    BY <2>1 DEF EventInv, ToldAfterRead, Alive
<1>5. NothingIsMissed'
  <2> SUFFICES ASSUME NEW q \in Page, page'[q].socket = "open", page'[q].told
               PROVE  Informed(q)' \/ page'[q].spoiled \/ reverted
    BY DEF NothingIsMissed
  <2>1. CASE q = p
    BY <2>1
  <2>2. CASE q # p
    <3>1. page'[q] = page[q]
      BY <2>2
    <3>2. Informed(q) \/ page[q].spoiled \/ reverted
      BY <3>1 DEF EventInv, NothingIsMissed
    <3>3. QED
      BY <3>1, <3>2 DEF Informed
  <2>3. QED
    BY <2>1, <2>2
<1>6. QED
  BY <1>1, <1>2, <1>3, <1>4, <1>5 DEF EventInv

\* What a step leaves of a page, and what it makes of it.
LEMMA PageUpdate ==
    ASSUME page \in [Page -> PageShape], NEW p \in Page, NEW q \in PageShape,
           page' = [page EXCEPT ![p] = q]
    PROVE  /\ page' \in [Page -> PageShape] /\ page'[p] = q
           /\ \A o \in Page : o # p => page'[o] = page[o]
OBVIOUS

LEMMA LeaveMoves == ASSUME EventInv, NEW p \in Page, Leave(p) PROVE EventInv'
<1>1. [NewPage EXCEPT !.socket = "closing"] \in PageShape
  BY NewPageShape DEF PageShape
<1>2. [NewPage EXCEPT !.socket = "closing"].socket = "closing" /\ ~[NewPage EXCEPT !.socket = "closing"].told
  BY DEF NewPage
<1>3. /\ page' \in [Page -> PageShape] /\ page'[p] = [NewPage EXCEPT !.socket = "closing"]
      /\ \A o \in Page : o # p => page'[o] = page[o]
  BY <1>1, PageUpdate DEF Leave, EventInv, EventShapes
<1>4. QED
  BY <1>2, <1>3, PageMoves DEF Leave, EventInv, EventShapes

LEMMA DisconnectMoves == ASSUME EventInv, NEW p \in Page, Disconnect(p) PROVE EventInv'
<1>1. page \in [Page -> PageShape] /\ page[p] \in PageShape
  BY DEF EventInv, EventShapes
<1>2. /\ page' \in [Page -> PageShape] /\ page'[p].socket = "closed" /\ page'[p].told = page[p].told
      /\ \A o \in Page : o # p => page'[o] = page[o]
  BY <1>1 DEF Disconnect, PageShape
<1>3. QED
  BY <1>2, PageMoves DEF Disconnect, EventInv, EventShapes

LEMMA ReloadMoves == ASSUME EventInv, NEW p \in Page, Reload(p) PROVE EventInv'
<1>1. page \in [Page -> PageShape] /\ page[p] \in PageShape /\ page[p].timers > 0
  BY DEF EventInv, EventShapes, Reload
<1>2. /\ page' \in [Page -> PageShape] /\ page'[p].asked > 0
      /\ page'[p].socket = page[p].socket /\ page'[p].told = page[p].told
      /\ \A o \in Page : o # p => page'[o] = page[o]
  BY <1>1 DEF Reload, PageShape
<1>3. Informed(p)'
  BY <1>2 DEF Informed
<1>4. QED
  BY <1>2, <1>3, PageMoves DEF Reload, EventInv, EventShapes, OpenIsClient

LEMMA AnswerLoadMoves == ASSUME EventInv, NEW p \in Page, AnswerLoad(p) PROVE EventInv'
<1>1. page \in [Page -> PageShape] /\ page[p] \in PageShape /\ page[p].asked > 0 /\ jobs \in Version
  BY DEF EventInv, EventShapes, AnswerLoad
<1>2. /\ page' \in [Page -> PageShape] /\ jobs \in page'[p].answers
      /\ page'[p].socket = page[p].socket /\ page'[p].told = page[p].told
      /\ \A o \in Page : o # p => page'[o] = page[o]
  <2>1. page[p].asked - 1 \in Nat /\ page[p].answers \cup {jobs} \in SUBSET Version
    BY <1>1 DEF PageShape
  <2>2. page' \in [Page -> PageShape]
    BY <1>1, <2>1 DEF AnswerLoad, PageShape
  <2>3. page'[p].answers = page[p].answers \cup {jobs}
    BY <1>1 DEF AnswerLoad, PageShape
  <2>4. page'[p].socket = page[p].socket /\ page'[p].told = page[p].told
    BY <1>1 DEF AnswerLoad, PageShape
  <2>5. \A o \in Page : o # p => page'[o] = page[o]
    BY <1>1 DEF AnswerLoad
  <2>6. QED
    BY <2>2, <2>3, <2>4, <2>5
<1>3. Informed(p)'
  BY <1>2 DEF Informed, AnswerLoad
<1>4. QED
  BY <1>2, <1>3, PageMoves DEF AnswerLoad, EventInv, EventShapes, OpenIsClient

LEMMA LoadFailsMoves ==
    ASSUME EventInv, NEW p \in Page, LoadFails(p)
    PROVE  EventInv'
<1>1. page \in [Page -> PageShape] /\ page[p] \in PageShape /\ page[p].asked > 0
  BY DEF EventInv, EventShapes, LoadFails
<1>2. /\ page' \in [Page -> PageShape] /\ page'[p].spoiled
      /\ page'[p].socket = page[p].socket /\ page'[p].told = page[p].told
      /\ \A o \in Page : o # p => page'[o] = page[o]
  <2>1. page[p].asked - 1 \in Nat
    BY <1>1 DEF PageShape
  <2>2. page' \in [Page -> PageShape]
    BY <1>1, <2>1 DEF LoadFails, PageShape
  <2>3. page'[p].spoiled
    BY <1>1 DEF LoadFails, PageShape
  <2>4. page'[p].socket = page[p].socket /\ page'[p].told = page[p].told
    BY <1>1 DEF LoadFails, PageShape
  <2>5. \A o \in Page : o # p => page'[o] = page[o]
    BY <1>1 DEF LoadFails
  <2>6. QED
    BY <2>2, <2>3, <2>4, <2>5
<1>3. QED
  BY <1>2, PageMoves DEF LoadFails, EventInv, EventShapes, OpenIsClient

LEMMA ShowMoves ==
    ASSUME EventInv, NEW p \in Page, NEW v \in Version, Show(p, v)
    PROVE  EventInv'
<1>1. page \in [Page -> PageShape] /\ page[p] \in PageShape /\ v \in page[p].answers
  BY DEF EventInv, EventShapes, Show
<1>2. page' \in [Page -> PageShape] /\ \A o \in Page : o # p => page'[o] = page[o]
  BY <1>1 DEF Show, PageShape, Seen
<1>3. /\ page'[p].socket = page[p].socket /\ page'[p].told = page[p].told
      /\ page'[p].timers = page[p].timers /\ page'[p].asked = page[p].asked
      /\ page'[p].answers = page[p].answers \ {v} /\ page'[p].shown = v
  BY <1>1 DEF Show, PageShape
<1>4. page'[p].spoiled = (page[p].spoiled \/ page[p].answers # {v})
  BY <1>1 DEF Show, PageShape
<1>5. ASSUME page[p].socket = "open", page[p].told, ~page'[p].spoiled, ~reverted
      PROVE  Informed(p)'
  <2>1. Informed(p) /\ page[p].answers = {v}
    BY <1>4, <1>5 DEF EventInv, NothingIsMissed
  <2>2. QED
    BY <1>3, <2>1 DEF Informed, Show
<1>6. QED
  <2>1. page'[p].socket = "open" => p \in clients
    BY <1>3 DEF EventInv, OpenIsClient
  <2>2. page'[p].told => page[p].told
    BY <1>3
  <2>3. page'[p].socket = "open" /\ page'[p].told => Informed(p)' \/ page'[p].spoiled \/ reverted
    BY <1>3, <1>5
  <2>4. /\ jobs' = jobs /\ watcher' = watcher /\ clients' = clients /\ clients \subseteq Page
        /\ reverted' = reverted /\ orphaned' = orphaned /\ killed' = killed
    BY DEF Show, EventInv, EventShapes
  <2>5. QED
    BY <1>2, <2>1, <2>2, <2>3, <2>4, PageMoves

LEMMA NotifyMoves == ASSUME EventInv, NEW p \in Page, Notify(p) PROVE EventInv'
<1>1. page \in [Page -> PageShape] /\ page[p] \in PageShape /\ watcher \in WatcherShape
  BY DEF EventInv, EventShapes
<1>2. CASE page[p].socket # "open" /\ watcher' = Watcher("over") /\ killed' = TRUE /\ UNCHANGED page
  BY <1>2, OverMoves DEF Notify
<1>3. CASE /\ watcher' = [watcher EXCEPT !.todo = @ \ {p}]
           /\ page' = IF page[p].socket = "open"
                      THEN [page EXCEPT ![p].timers = @ + 1, ![p].told = TRUE]
                      ELSE page
           /\ UNCHANGED killed
  <2>1. /\ watcher' \in WatcherShape /\ watcher'.pc = watcher.pc /\ watcher'.last = watcher.last
        /\ watcher'.todo = watcher.todo \ {p}
    BY <1>1, <1>3 DEF WatcherShape
  <2>2. /\ page' \in [Page -> PageShape] /\ page'[p].socket = page[p].socket
        /\ page[p].socket = "open" => page'[p].timers > 0
        /\ \A q \in Page : q # p => page'[q] = page[q]
    <3>1. CASE page[p].socket = "open"
      <4>1. page' = [page EXCEPT ![p].timers = @ + 1, ![p].told = TRUE] /\ page[p].timers + 1 \in Nat
        BY <1>1, <1>3, <3>1 DEF PageShape
      <4>2. page' \in [Page -> PageShape]
        BY <1>1, <4>1 DEF PageShape
      <4>3. page'[p].socket = page[p].socket
        BY <1>1, <4>1 DEF PageShape
      <4>4. page'[p].timers = page[p].timers + 1 /\ page[p].timers \in Nat
        BY <1>1, <4>1 DEF PageShape
      <4>5. \A q \in Page : q # p => page'[q] = page[q]
        BY <1>1, <4>1
      <4>6. QED
        BY <4>2, <4>3, <4>4, <4>5
    <3>2. CASE page[p].socket # "open"
      BY <1>1, <1>3, <3>2
    <3>3. QED
      BY <3>1, <3>2
  <2>3. EventShapes'
    BY <2>1, <2>2 DEF EventInv, EventShapes, Notify
  <2>4. LeavesNobody'
    BY <1>3, <2>1 DEF EventInv, LeavesNobody, Notify
  <2>5. OpenIsClient'
    BY <2>2 DEF EventInv, OpenIsClient, Notify
  <2>6. ToldAfterRead'
    BY <2>1 DEF EventInv, ToldAfterRead, Notify
  <2>7. NothingIsMissed'
    <3> SUFFICES ASSUME NEW q \in Page, page'[q].socket = "open", page'[q].told
                 PROVE  Informed(q)' \/ page'[q].spoiled \/ reverted
      BY DEF NothingIsMissed, Notify
    <3>1. CASE q = p
      BY <2>2, <3>1 DEF Informed
    <3>2. CASE q # p
      <4>1. page'[q] = page[q]
        BY <2>2, <3>2
      <4>2. Informed(q) \/ page[q].spoiled \/ reverted
        BY <4>1 DEF EventInv, NothingIsMissed
      <4>3. QED
        BY <2>1, <3>2, <4>1, <4>2 DEF Informed, Notify
    <3>3. QED
      BY <3>1, <3>2
  <2>8. QED
    BY <2>3, <2>4, <2>5, <2>6, <2>7 DEF EventInv
<1>4. QED
  BY <1>2, <1>3 DEF Notify

LEMMA ConnectMoves == ASSUME EventInv, NEW p \in Page, Connect(p) PROVE EventInv'
<1>1. page \in [Page -> PageShape] /\ watcher \in WatcherShape /\ clients \subseteq Page /\ orphaned \in BOOLEAN
  BY DEF EventInv, EventShapes
<1>2. \A q \in Page : page'[q] = IF q = p THEN [NewPage EXCEPT !.socket = "open", !.asked = 1]
                                 ELSE [page[q] EXCEPT !.told = page[q].told /\ Alive]
  BY DEF Connect
<1>3. page'[p] \in PageShape /\ ~page'[p].told
  <2>1. page'[p] = [NewPage EXCEPT !.socket = "open", !.asked = 1]
    BY <1>2
  <2>2. QED
    <3>1. [NewPage EXCEPT !.socket = "open", !.asked = 1] \in PageShape
      BY NewPageShape DEF PageShape
    <3>2. [NewPage EXCEPT !.socket = "open", !.asked = 1].told = FALSE
      BY DEF NewPage
    <3>3. QED
      BY <2>1, <3>1, <3>2
<1>4. ASSUME NEW q \in Page, q # p
      PROVE  /\ page'[q] \in PageShape /\ page'[q].socket = page[q].socket /\ page'[q].shown = page[q].shown
             /\ page'[q].timers = page[q].timers /\ page'[q].asked = page[q].asked
             /\ page'[q].answers = page[q].answers /\ page'[q].spoiled = page[q].spoiled
             /\ page'[q].told <=> page[q].told /\ Alive
  <2>1. page[q] \in PageShape /\ (page[q].told /\ Alive) \in BOOLEAN
    BY <1>1
  <2>2. page'[q] = [page[q] EXCEPT !.told = page[q].told /\ Alive]
    BY <1>2, <1>4
  <2>3. QED
    BY <2>1, <2>2 DEF PageShape
<1>5. page' \in [Page -> PageShape]
  <2>1. \A q \in Page : page'[q] \in PageShape
    BY <1>3, <1>4
  <2>2. page' = [q \in Page |-> page'[q]]
    BY DEF Connect
  <2>3. QED
    BY <2>1, <2>2
<1>6. watcher' \in WatcherShape /\ (Alive => watcher' = watcher)
      /\ (~Alive => watcher'.pc = "check" /\ watcher'.last = Unknown)
  BY <1>1, WatcherOf DEF Connect, Watcher, WatcherPC
<1>7. EventShapes'
  BY <1>1, <1>5, <1>6 DEF EventInv, EventShapes, Connect
<1>8. LeavesNobody'
  <2>1. watcher'.pc \in {"none", "leave", "over"} => watcher.pc = "leave"
    BY <1>6 DEF Alive
  <2>2. QED
    BY <2>1 DEF LeavesNobody, Connect
<1>9. OpenIsClient'
  <2> SUFFICES ASSUME NEW q \in Page, page'[q].socket = "open" PROVE q \in clients'
    BY DEF OpenIsClient
  <2>1. CASE q = p
    BY <2>1 DEF Connect
  <2>2. CASE q # p
    BY <1>4, <2>2 DEF EventInv, OpenIsClient, Connect
  <2>3. QED
    BY <2>1, <2>2
<1>10. ToldAfterRead'
  <2>1. CASE Alive
    <3>1. ASSUME NEW q \in Page, page'[q].told PROVE watcher.last # Unknown
      <4>1. q # p /\ page[q].told
        BY <1>3, <1>4, <3>1
      <4>2. QED
        BY <2>1, <4>1 DEF EventInv, ToldAfterRead
    <3>2. QED
      BY <1>6, <2>1, <3>1 DEF EventInv, ToldAfterRead
  <2>2. CASE ~Alive
    <3>1. \A q \in Page : ~page'[q].told
      BY <1>3, <1>4, <2>2
    <3>2. QED
      BY <1>6, <2>2, <3>1 DEF ToldAfterRead
  <2>3. QED
    BY <2>1, <2>2
<1>11. NothingIsMissed'
  <2> SUFFICES ASSUME NEW q \in Page, page'[q].socket = "open", page'[q].told
               PROVE  Informed(q)' \/ page'[q].spoiled \/ reverted
    BY DEF NothingIsMissed, Connect
  <2>1. q # p /\ page[q].told /\ Alive /\ page[q].socket = "open"
    BY <1>3, <1>4
  <2>2. Informed(q) \/ page[q].spoiled \/ reverted
    BY <2>1 DEF EventInv, NothingIsMissed
  <2>3. watcher' = watcher
    BY <1>6, <2>1
  <2>4. QED
    BY <1>4, <2>1, <2>2, <2>3 DEF Informed, Connect
<1>12. QED
  BY <1>7, <1>8, <1>9, <1>10, <1>11 DEF EventInv

LEMMA EventNextInv == EventInv /\ [EventNext]_eventVars => EventInv'
<1> SUFFICES ASSUME EventInv, [EventNext]_eventVars PROVE EventInv'
  OBVIOUS
<1>1. CASE Change \/ Check \/ ReadJobs \/ Wake \/ Stop \/ ReadRaises
  BY <1>1, ChangeStep, CheckMoves, ReadJobsMoves, WakeMoves, StopMoves, ReadRaisesMoves
<1>2. ASSUME NEW p \in Page, \/ Notify(p) \/ Connect(p) \/ Leave(p) \/ Disconnect(p)
                            \/ Reload(p) \/ AnswerLoad(p) \/ LoadFails(p)
      PROVE  EventInv'
  BY <1>2, NotifyMoves, ConnectMoves, LeaveMoves, DisconnectMoves, ReloadMoves, AnswerLoadMoves, LoadFailsMoves
<1>3. ASSUME NEW p \in Page, NEW v \in Version, Show(p, v)
      PROVE  EventInv'
  BY <1>3, ShowMoves
<1>4. CASE UNCHANGED eventVars
  <2>1. EventShapes' /\ LeavesNobody' /\ OpenIsClient' /\ ToldAfterRead'
    BY <1>4 DEF eventVars, EventInv, EventShapes, LeavesNobody, OpenIsClient, ToldAfterRead, Alive
  <2>2. NothingIsMissed'
    BY <1>4 DEF eventVars, EventInv, NothingIsMissed, Informed
  <2>3. QED
    BY <2>1, <2>2 DEF EventInv
<1>5. QED
  BY <1>1, <1>2, <1>3, <1>4 DEF EventNext, WatcherStep

LEMMA EventInvariance == EventSpec => []EventInv
BY EventInitInv, EventNextInv, PTL DEF EventSpec

\* Clients are without a watcher only after an exception ended its thread or
\* after one of them came when the thread was leaving (on_websocket,
\* watch_database_events), however many connect and disconnect.
THEOREM ClientsAreWatched == EventSpec => []UnwatchedHasCause
<1>1. EventInv => UnwatchedHasCause
  BY DEF EventInv, LeavesNobody, UnwatchedHasCause, Alive
<1>2. QED
  BY <1>1, EventInvariance, PTL

\* A page that was told of a change shows the jobs as they are once nothing is
\* on its way, but for the exceptions SettledPageIsCurrent names.
THEOREM PagesAreCurrent == EventSpec => []SettledPageIsCurrent
<1>1. EventInv => SettledPageIsCurrent
  BY DEF EventInv, NothingIsMissed, Informed, SettledPageIsCurrent, Settled
<1>2. QED
  BY <1>1, EventInvariance, PTL

-----------------------------------------------------------------------------
(* The logs: the inductive invariant                                       *)

LogShapes ==
    /\ connected \in [Client -> {"no", "yes", "gone"}]
    /\ byClient \in [Client -> Session \cup {None}]
    /\ byId \subseteq Session /\ streams \subseteq Session
    /\ thread \in [Thread -> ThreadState]

Opening == {"subscribe", "retrieve", "put", "index", "create"}
Closing == {"disconnect", "close", "unmap", "unindex"}

\* A handler acts for one client, on a session of that client.
Belongs(t) ==
    /\ thread[t].pc = "idle" <=> thread[t].client = None
    /\ thread[t].pc \in (Opening \cup Closing) \ {"disconnect"} =>
          thread[t].session \in Session /\ thread[t].session[1] = thread[t].client
OwnSession(c) == byClient[c] # None => byClient[c][1] = c

OneHandler ==
    \A t, u \in Thread :
        thread[t].client = thread[u].client /\ thread[t].client \in Client \ overlapped => t = u

Agree(c) == SessionsOf(c) = IF byClient[c] = None THEN {} ELSE {byClient[c]}

\* How far a handler has come with the session of its client.
Stage(t, c) ==
    LET s == thread[t].session IN
    /\ thread[t].pc \in {"subscribe", "disconnect"} => Agree(c)
    /\ thread[t].pc \in {"retrieve", "put"} => byClient[c] = None /\ SessionsOf(c) = {}
    /\ thread[t].pc = "index" => byClient[c] = s /\ SessionsOf(c) = {}
    /\ thread[t].pc \in {"create", "close"} => byClient[c] = s /\ SessionsOf(c) = {s}
    /\ thread[t].pc = "unmap" => byClient[c] = s
    /\ thread[t].pc = "unindex" => byClient[c] = None
    /\ thread[t].pc \in {"unmap", "unindex"} => SessionsOf(c) \subseteq {s} /\ s \notin streams

\* What holds of a client none of whose handlers overlapped or raised.
InOrder(c) ==
    /\ Quiet(c) => Agree(c) /\ (connected[c] = "gone" => byClient[c] = None)
    /\ \A t \in Thread : thread[t].client = c =>
          Stage(t, c) /\ (connected[c] = "gone" => thread[t].pc \in Closing)

LogInv ==
    /\ LogShapes /\ OneHandler
    /\ \A t \in Thread : Belongs(t)
    /\ \A c \in Client : OwnSession(c)
    /\ \A c \in Client \ (overlapped \cup stuck) : InOrder(c)

LEMMA SessionIsNotNone == ASSUME NEW s \in Session PROVE s # None
BY DEF Session, None

LEMMA SessionOf == ASSUME NEW c \in Client, NEW j \in LogJob PROVE <<c, j>> \in Session /\ <<c, j>>[1] = c
BY DEF Session

-----------------------------------------------------------------------------
(* The steps of a handler                                                  *)

\* The thread t, which serves the client d, goes on or has finished.
Goes(t, d) ==
    /\ thread' \in [Thread -> ThreadState]
    /\ \A u \in Thread : u # t => thread'[u] = thread[u]
    /\ Belongs(t)'
    /\ thread'[t].client \in {d, None}

\* Only what belongs to the client d has changed.
Only(d) ==
    /\ byClient' \in [Client -> Session \cup {None}] /\ OwnSession(d)'
    /\ \A c \in Client : c # d => byClient'[c] = byClient[c]
    /\ byId' \subseteq Session /\ streams' \subseteq Session
    /\ \A s \in Session : s[1] # d => (s \in byId' <=> s \in byId) /\ (s \in streams' <=> s \in streams)
    /\ connected' = connected /\ overlapped' = overlapped /\ stuck \subseteq stuck'

LEMMA HandlerMoves ==
    ASSUME LogInv, NEW t \in Thread, NEW d \in Client, thread[t].client = d, Goes(t, d), Only(d),
           d \notin overlapped \cup stuck' /\ thread'[t].client = d =>
              Stage(t, d)' /\ (connected[d] = "gone" => thread'[t].pc \in Closing),
           d \notin overlapped \cup stuck' /\ thread'[t].client = None =>
              Agree(d)' /\ (connected[d] = "gone" => byClient'[d] = None)
    PROVE  LogInv'
<1>1. LogShapes'
  BY DEF LogInv, LogShapes, Goes, Only
<1>2. OneHandler'
  <2> SUFFICES ASSUME NEW u \in Thread, NEW v \in Thread, thread'[u].client = thread'[v].client,
                      thread'[u].client \in Client \ overlapped
               PROVE  u = v
    BY DEF OneHandler, Only
  <2>1. \A w \in Thread : thread'[w].client \in Client => thread[w].client = thread'[w].client
    BY LogAssumption DEF Goes
  <2>2. QED
    BY <2>1 DEF LogInv, OneHandler
<1>3. ASSUME NEW u \in Thread PROVE Belongs(u)'
  <2>1. CASE u = t
    BY <2>1 DEF Goes
  <2>2. CASE u # t
    BY <2>2 DEF LogInv, Belongs, Goes
  <2>3. QED
    BY <2>1, <2>2
<1>4. ASSUME NEW c \in Client PROVE OwnSession(c)'
  <2>1. CASE c = d
    BY <2>1 DEF Only
  <2>2. CASE c # d
    BY <2>2 DEF LogInv, OwnSession, Only
  <2>3. QED
    BY <2>1, <2>2
<1>5. ASSUME NEW c \in Client \ (overlapped' \cup stuck') PROVE InOrder(c)'
  <2>0. overlapped' = overlapped /\ c \notin overlapped /\ c \notin stuck /\ connected' = connected /\ InOrder(c)
    BY <1>5 DEF Only, LogInv
  <2>1. CASE c = d
    <3>1. ASSUME NEW u \in Thread, thread'[u].client = d PROVE u = t
      <4>1. CASE u # t
        <5>1. thread[u].client = d
          BY <3>1, <4>1 DEF Goes
        <5>2. QED
          BY <2>0, <2>1, <4>1, <5>1 DEF LogInv, OneHandler
      <4>2. QED
        BY <4>1
    <3>2. CASE thread'[t].client = d
      <4>1. ~Quiet(d)'
        BY <3>2 DEF Quiet, HandlersOf
      <4>2. Stage(t, d)' /\ (connected[d] = "gone" => thread'[t].pc \in Closing)
        BY <1>5, <2>0, <2>1, <3>2
      <4>3. QED
        BY <2>0, <2>1, <3>1, <4>1, <4>2 DEF InOrder
    <3>3. CASE thread'[t].client = None
      <4>1. \A u \in Thread : thread'[u].client # d
        BY <3>1, <3>3, LogAssumption
      <4>2. Agree(d)' /\ (connected[d] = "gone" => byClient'[d] = None)
        BY <1>5, <2>0, <2>1, <3>3
      <4>3. QED
        BY <2>0, <2>1, <4>1, <4>2 DEF InOrder
    <3>4. QED
      BY <3>2, <3>3 DEF Goes
  <2>2. CASE c # d
    <3>1. \A u \in Thread : /\ thread'[u].client = c <=> thread[u].client = c
                            /\ thread[u].client = c => thread'[u] = thread[u]
      BY <2>2, LogAssumption DEF Goes
    <3>2. Quiet(c)' <=> Quiet(c)
      BY <3>1 DEF Quiet, HandlersOf
    <3>3. SessionsOf(c)' = SessionsOf(c) /\ byClient'[c] = byClient[c]
      BY <2>2 DEF SessionsOf, Only, LogInv, LogShapes
    <3>4. Agree(c)' <=> Agree(c)
      BY <3>3 DEF Agree
    <3>5. ASSUME NEW u \in Thread, thread'[u].client = c
          PROVE  Stage(u, c)' /\ (connected[c] = "gone" => thread'[u].pc \in Closing)
      <4>1. thread'[u] = thread[u] /\ thread[u].client = c
        BY <3>1, <3>5
      <4>2. Stage(u, c) /\ (connected[c] = "gone" => thread[u].pc \in Closing)
        BY <2>0, <4>1 DEF InOrder
      <4>3. thread[u].pc \in {"unmap", "unindex"} =>
               (thread[u].session \notin streams => thread'[u].session \notin streams')
        <5>1. thread[u].pc \in {"unmap", "unindex"} => thread[u].session \in Session /\ thread[u].session[1] = c
          BY <4>1 DEF LogInv, Belongs, Closing
        <5>2. QED
          BY <2>2, <4>1, <5>1 DEF Only
      <4>4. QED
        BY <3>3, <3>4, <4>1, <4>2, <4>3 DEF Stage
    <3>6. QED
      BY <2>0, <3>2, <3>3, <3>4, <3>5 DEF InOrder
  <2>3. QED
    BY <2>1, <2>2
<1>6. QED
  BY <1>1, <1>2, <1>3, <1>4, <1>5 DEF LogInv

\* A handler that runs has a client, and no client of its own has another.
LEMMA HandlerHasClient ==
    ASSUME LogInv, NEW t \in Thread, thread[t].pc # "idle"
    PROVE  /\ thread[t] \in ThreadState
           /\ \E d \in Client : thread[t].client = d
           /\ IdleThread \in ThreadState /\ IdleThread.pc = "idle" /\ IdleThread.client = None
<1>1. thread[t] \in ThreadState /\ Belongs(t)
  BY DEF LogInv, LogShapes
<1>2. thread[t].client \in Client \cup {None} /\ thread[t].client # None
  BY <1>1 DEF Belongs, ThreadState
<1>3. IdleThread \in ThreadState /\ IdleThread.pc = "idle" /\ IdleThread.client = None
  BY DEF IdleThread, ThreadState
<1>4. QED
  BY <1>1, <1>2, <1>3

LEMMA Finishing ==
    ASSUME LogInv, NEW t \in Thread, thread[t].pc # "idle", NEW d, Finish(t)
    PROVE  Goes(t, d) /\ thread'[t].client = None
<1>1. IdleThread \in ThreadState /\ IdleThread.pc = "idle" /\ IdleThread.client = None
  BY HandlerHasClient
<1>2. thread' \in [Thread -> ThreadState] /\ thread'[t] = IdleThread /\ \A u \in Thread : u # t => thread'[u] = thread[u]
  BY <1>1 DEF Finish, LogInv, LogShapes
<1>3. QED
  BY <1>1, <1>2 DEF Goes, Belongs, Opening, Closing

LEMMA Stepping ==
    ASSUME LogInv, NEW t \in Thread, NEW d \in Client, thread[t].client = d,
           thread[t].pc \in (Opening \cup Closing) \ {"disconnect"},
           NEW pc \in (Opening \cup Closing) \ {"disconnect"}, Step(t, pc)
    PROVE  /\ Goes(t, d) /\ thread'[t].client = d
           /\ thread'[t].pc = pc /\ thread'[t].session = thread[t].session
<1>1. thread[t] \in ThreadState /\ thread \in [Thread -> ThreadState]
  BY DEF LogInv, LogShapes
<1>2. thread' \in [Thread -> ThreadState] /\ \A u \in Thread : u # t => thread'[u] = thread[u]
  BY <1>1 DEF Step, ThreadState, Opening, Closing
<1>3. /\ thread'[t].client = thread[t].client
      /\ thread'[t].pc = pc /\ thread'[t].session = thread[t].session
  BY <1>1 DEF Step, ThreadState
<1>4. Belongs(t)'
  BY <1>3, LogAssumption DEF LogInv, Belongs, Opening, Closing
<1>5. QED
  BY <1>2, <1>3, <1>4 DEF Goes

\* Nothing that belongs to a client has changed.
LEMMA NothingElse ==
    ASSUME LogInv, NEW d \in Client,
           UNCHANGED <<connected, byClient, byId, streams, overlapped>>, stuck \subseteq stuck'
    PROVE  /\ Only(d) /\ byClient'[d] = byClient[d] /\ SessionsOf(d)' = SessionsOf(d)
           /\ Agree(d)' <=> Agree(d)
BY DEF Only, LogInv, LogShapes, OwnSession, SessionsOf, Agree

\* What the invariant says of a handler of a client in order.
LEMMA OfHandler ==
    ASSUME LogInv, NEW t \in Thread, NEW d \in Client, thread[t].client = d, d \notin overlapped \cup stuck
    PROVE  Stage(t, d) /\ (connected[d] = "gone" => thread[t].pc \in Closing)
BY DEF LogInv, InOrder

LEMMA FindSessionMoves == ASSUME LogInv, NEW t \in Thread, FindSession(t) PROVE LogInv'
<1>1. PICK d \in Client : thread[t].client = d
  BY HandlerHasClient DEF FindSession
<1>2. /\ Only(d) /\ byClient'[d] = byClient[d] /\ SessionsOf(d)' = SessionsOf(d)
      /\ Agree(d)' <=> Agree(d)
      /\ stuck' = stuck
  BY NothingElse DEF FindSession
<1>3. ASSUME d \notin overlapped \cup stuck
      PROVE  Agree(d) /\ connected[d] # "gone"
  BY <1>1, <1>3, OfHandler DEF Stage, FindSession, Closing
<1>4. CASE byClient[d] # None
  <2>1. Goes(t, d) /\ thread'[t].client = None
    BY <1>1, <1>4, Finishing DEF FindSession
  <2>2. QED
    BY <1>1, <1>2, <1>3, <2>1, HandlerMoves, LogAssumption
<1>5. CASE byClient[d] = None
  <2>1. Goes(t, d) /\ thread'[t].client = d /\ thread'[t].pc = "retrieve"
    BY <1>1, <1>5, Stepping DEF FindSession, Opening, Closing
  <2>2. d \notin overlapped \cup stuck => Stage(t, d)'
    BY <1>2, <1>3, <1>5, <2>1 DEF Stage, Agree
  <2>3. QED
    BY <1>1, <1>2, <1>3, <2>1, <2>2, HandlerMoves, LogAssumption
<1>6. QED
  BY <1>4, <1>5

LEMMA RetrieveMoves == ASSUME LogInv, NEW t \in Thread, Retrieve(t) PROVE LogInv'
<1>1. PICK d \in Client : thread[t].client = d
  BY HandlerHasClient DEF Retrieve
<1>2. /\ Only(d) /\ byClient'[d] = byClient[d] /\ SessionsOf(d)' = SessionsOf(d)
      /\ Agree(d)' <=> Agree(d)
      /\ stuck' = stuck
  BY NothingElse DEF Retrieve
<1>3. ASSUME d \notin overlapped \cup stuck
      PROVE  byClient[d] = None /\ SessionsOf(d) = {} /\ Agree(d) /\ connected[d] # "gone"
  BY <1>1, <1>3, OfHandler DEF Stage, Agree, Retrieve, Closing
<1>4. CASE Finish(t)
  <2>1. Goes(t, d) /\ thread'[t].client = None
    BY <1>4, Finishing DEF Retrieve
  <2>2. QED
    BY <1>1, <1>2, <1>3, <2>1, HandlerMoves, LogAssumption
<1>5. CASE Step(t, "put")
  <2>1. Goes(t, d) /\ thread'[t].client = d /\ thread'[t].pc = "put"
    BY <1>1, <1>5, Stepping DEF Retrieve, Opening, Closing
  <2>2. d \notin overlapped \cup stuck => Stage(t, d)'
    BY <1>2, <1>3, <2>1 DEF Stage
  <2>3. QED
    BY <1>1, <1>2, <1>3, <2>1, <2>2, HandlerMoves, LogAssumption
<1>6. QED
  BY <1>4, <1>5 DEF Retrieve

LEMMA PutByClientMoves == ASSUME LogInv, NEW t \in Thread, PutByClient(t) PROVE LogInv'
<1>1. PICK d \in Client : thread[t].client = d
  BY HandlerHasClient DEF PutByClient
<1>2. PICK s \in Session : s = thread[t].session /\ s[1] = d
  BY <1>1 DEF LogInv, Belongs, PutByClient, Opening
<1>3. byClient' = [byClient EXCEPT ![d] = s] /\ byClient \in [Client -> Session \cup {None}]
  BY <1>1, <1>2 DEF PutByClient, LogInv, LogShapes
<1>4. byClient'[d] = s /\ SessionsOf(d)' = SessionsOf(d)
  BY <1>3 DEF SessionsOf, PutByClient
<1>5. Only(d)
  BY <1>2, <1>3, <1>4 DEF Only, OwnSession, PutByClient, LogInv, LogShapes
<1>6. Goes(t, d) /\ thread'[t].client = d /\ thread'[t].pc = "index" /\ thread'[t].session = s
  BY <1>1, <1>2, Stepping DEF PutByClient, Opening, Closing
<1>7. ASSUME d \notin overlapped \cup stuck
      PROVE  Stage(t, d)' /\ connected[d] # "gone"
  <2>1. SessionsOf(d) = {} /\ connected[d] # "gone"
    BY <1>1, <1>7, OfHandler DEF Stage, PutByClient, Closing
  <2>2. QED
    BY <1>4, <1>6, <2>1 DEF Stage
<1>8. stuck' = stuck
  BY DEF PutByClient
<1>9. QED
  BY <1>1, <1>5, <1>6, <1>7, <1>8, HandlerMoves, LogAssumption

LEMMA PutByIdMoves == ASSUME LogInv, NEW t \in Thread, PutById(t) PROVE LogInv'
<1>1. PICK d \in Client : thread[t].client = d
  BY HandlerHasClient DEF PutById
<1>2. PICK s \in Session : s = thread[t].session /\ s[1] = d
  BY <1>1 DEF LogInv, Belongs, PutById, Opening
<1>3. byId' = byId \cup {s} /\ SessionsOf(d)' = SessionsOf(d) \cup {s} /\ byClient' = byClient
  BY <1>2 DEF SessionsOf, PutById
<1>4. Only(d)
  BY <1>2, <1>3 DEF Only, OwnSession, PutById, LogInv, LogShapes
<1>5. Goes(t, d) /\ thread'[t].client = d /\ thread'[t].pc = "create" /\ thread'[t].session = s
  BY <1>1, <1>2, Stepping DEF PutById, Opening, Closing
<1>6. ASSUME d \notin overlapped \cup stuck
      PROVE  Stage(t, d)' /\ connected[d] # "gone"
  <2>1. SessionsOf(d) = {} /\ byClient[d] = s /\ connected[d] # "gone"
    BY <1>1, <1>2, <1>6, OfHandler DEF Stage, PutById, Closing
  <2>2. QED
    BY <1>3, <1>5, <2>1 DEF Stage
<1>7. stuck' = stuck
  BY DEF PutById
<1>8. QED
  BY <1>1, <1>4, <1>5, <1>6, <1>7, HandlerMoves, LogAssumption

\* A client whose handler raises is on record.
LEMMA RaisingMoves ==
    ASSUME LogInv, NEW t \in Thread, NEW d \in Client, thread[t].client = d, thread[t].pc # "idle",
           NEW opened \in SUBSET Session, \A s \in Session : s[1] # d => (s \in opened <=> s \in streams),
           StreamerRaises(t, opened)
    PROVE  LogInv'
<1>1. Goes(t, d)
  BY Finishing DEF StreamerRaises
<1>2. Only(d)
  BY DEF Only, OwnSession, StreamerRaises, LogInv, LogShapes
<1>3. d \in stuck'
  BY DEF StreamerRaises
<1>4. QED
  BY <1>1, <1>2, <1>3, HandlerMoves

LEMMA CreateSessionMoves == ASSUME LogInv, NEW t \in Thread, CreateSession(t) PROVE LogInv'
<1>1. PICK d \in Client : thread[t].client = d
  BY HandlerHasClient DEF CreateSession
<1>2. PICK s \in Session : s = thread[t].session /\ s[1] = d
  BY <1>1 DEF LogInv, Belongs, CreateSession, Opening
<1>3. streams \subseteq Session /\ thread[t].pc = "create"
  BY DEF LogInv, LogShapes, CreateSession
<1>4. CASE StreamerRaises(t, streams) \/ StreamerRaises(t, streams \cup {s})
  BY <1>1, <1>2, <1>3, <1>4, RaisingMoves
<1>5. CASE /\ streams' = streams \cup {s} /\ Finish(t)
           /\ UNCHANGED <<connected, byClient, byId, events, streamErrors, overlapped, stuck>>
  <2>1. Goes(t, d) /\ thread'[t].client = None
    BY <1>3, <1>5, Finishing
  <2>2. SessionsOf(d)' = SessionsOf(d) \cup {s}
    BY <1>2, <1>5 DEF SessionsOf
  <2>3. Only(d)
    BY <1>2, <1>5 DEF Only, OwnSession, LogInv, LogShapes
  <2>4. ASSUME d \notin overlapped \cup stuck
        PROVE  Agree(d)' /\ connected[d] # "gone"
    <3>1. SessionsOf(d) = {s} /\ byClient[d] = s /\ connected[d] # "gone"
      BY <1>1, <1>2, <1>3, <2>4, OfHandler DEF Stage, Closing
    <3>2. s # None
      BY SessionIsNotNone
    <3>3. QED
      BY <1>5, <2>2, <3>1, <3>2 DEF Agree
  <2>5. QED
    BY <1>1, <1>5, <2>1, <2>3, <2>4, HandlerMoves, LogAssumption
<1>6. QED
  BY <1>2, <1>4, <1>5 DEF CreateSession

LEMMA FindClosingMoves == ASSUME LogInv, NEW t \in Thread, FindClosing(t) PROVE LogInv'
<1>1. PICK d \in Client : thread[t].client = d
  BY HandlerHasClient DEF FindClosing
<1>2. /\ Only(d) /\ byClient'[d] = byClient[d] /\ SessionsOf(d)' = SessionsOf(d)
      /\ Agree(d)' <=> Agree(d)
      /\ stuck' = stuck
  BY NothingElse DEF FindClosing
<1>3. ASSUME d \notin overlapped \cup stuck PROVE Agree(d)
  BY <1>1, <1>3, OfHandler DEF Stage, FindClosing
<1>4. CASE byClient[d] = None
  <2>1. Goes(t, d) /\ thread'[t].client = None
    BY <1>1, <1>4, Finishing DEF FindClosing
  <2>2. QED
    BY <1>1, <1>2, <1>3, <1>4, <2>1, HandlerMoves, LogAssumption
<1>5. CASE byClient[d] # None
  <2>1. PICK s \in Session : s = byClient[d] /\ s[1] = d
    BY <1>5 DEF LogInv, LogShapes, OwnSession
  <2>2. thread[t] \in ThreadState /\ thread \in [Thread -> ThreadState]
    BY DEF LogInv, LogShapes
  <2>3. thread' = [thread EXCEPT ![t].pc = "close", ![t].session = s]
    BY <1>1, <1>5, <2>1 DEF FindClosing
  <2>4. thread' \in [Thread -> ThreadState] /\ \A u \in Thread : u # t => thread'[u] = thread[u]
    BY <2>2, <2>3 DEF ThreadState
  <2>5. thread'[t].client = d /\ thread'[t].pc = "close" /\ thread'[t].session = s
    BY <1>1, <2>2, <2>3 DEF ThreadState
  <2>6. Goes(t, d)
    BY <2>1, <2>4, <2>5, LogAssumption DEF Goes, Belongs
  <2>7. d \notin overlapped \cup stuck => Stage(t, d)'
    BY <1>2, <1>3, <1>5, <2>1, <2>5 DEF Stage, Agree
  <2>8. thread'[t].pc \in Closing
    BY <2>5 DEF Closing
  <2>9. QED
    BY <1>1, <1>2, <2>5, <2>6, <2>7, <2>8, HandlerMoves, LogAssumption
<1>6. QED
  BY <1>4, <1>5

LEMMA CloseSessionMoves == ASSUME LogInv, NEW t \in Thread, CloseSession(t) PROVE LogInv'
<1>1. PICK d \in Client : thread[t].client = d
  BY HandlerHasClient DEF CloseSession
<1>2. PICK s \in Session : s = thread[t].session /\ s[1] = d
  BY <1>1 DEF LogInv, Belongs, CloseSession, Closing
<1>3. streams \subseteq Session /\ thread[t].pc = "close"
  BY DEF LogInv, LogShapes, CloseSession
<1>4. CASE StreamerRaises(t, streams)
  BY <1>1, <1>3, <1>4, RaisingMoves
<1>5. CASE /\ streams' = streams \ {s} /\ Step(t, "unmap")
           /\ UNCHANGED <<connected, byClient, byId, events, streamErrors, overlapped, stuck>>
  <2>1. Goes(t, d) /\ thread'[t].client = d /\ thread'[t].pc = "unmap" /\ thread'[t].session = s
    BY <1>1, <1>2, <1>3, <1>5, Stepping DEF Opening, Closing
  <2>2. SessionsOf(d)' \subseteq SessionsOf(d)
    BY <1>5 DEF SessionsOf
  <2>3. Only(d)
    BY <1>2, <1>5 DEF Only, OwnSession, LogInv, LogShapes
  <2>4. ASSUME d \notin overlapped \cup stuck PROVE Stage(t, d)'
    <3>1. SessionsOf(d) = {s} /\ byClient[d] = s
      BY <1>1, <1>2, <1>3, <2>4, OfHandler DEF Stage
    <3>2. QED
      BY <1>5, <2>1, <2>2, <3>1 DEF Stage
  <2>5. thread'[t].pc \in Closing
    BY <2>1 DEF Closing
  <2>6. QED
    BY <1>1, <1>5, <2>1, <2>3, <2>4, <2>5, HandlerMoves, LogAssumption
<1>6. QED
  BY <1>2, <1>4, <1>5 DEF CloseSession

LEMMA DeleteByClientMoves == ASSUME LogInv, NEW t \in Thread, DeleteByClient(t) PROVE LogInv'
<1>1. PICK d \in Client : thread[t].client = d
  BY HandlerHasClient DEF DeleteByClient
<1>2. PICK s \in Session : s = thread[t].session /\ s[1] = d
  BY <1>1 DEF LogInv, Belongs, DeleteByClient, Closing
<1>3. byClient' = [byClient EXCEPT ![d] = None] /\ byClient \in [Client -> Session \cup {None}]
  BY <1>1 DEF DeleteByClient, LogInv, LogShapes
<1>4. byClient'[d] = None /\ SessionsOf(d)' = SessionsOf(d)
  BY <1>3 DEF SessionsOf, DeleteByClient
<1>5. Only(d)
  BY <1>3, <1>4 DEF Only, OwnSession, DeleteByClient, LogInv, LogShapes
<1>6. Goes(t, d) /\ thread'[t].client = d /\ thread'[t].pc = "unindex" /\ thread'[t].session = s
  BY <1>1, <1>2, Stepping DEF DeleteByClient, Opening, Closing
<1>7. ASSUME d \notin overlapped \cup stuck PROVE Stage(t, d)'
  <2>1. SessionsOf(d) \subseteq {s} /\ s \notin streams
    BY <1>1, <1>2, <1>7, OfHandler DEF Stage, DeleteByClient
  <2>2. QED
    BY <1>4, <1>6, <2>1 DEF Stage, DeleteByClient
<1>8. stuck' = stuck /\ thread'[t].pc \in Closing
  BY <1>6 DEF DeleteByClient, Closing
<1>9. QED
  BY <1>1, <1>5, <1>6, <1>7, <1>8, HandlerMoves, LogAssumption

LEMMA DeleteByIdMoves == ASSUME LogInv, NEW t \in Thread, DeleteById(t) PROVE LogInv'
<1>1. PICK d \in Client : thread[t].client = d
  BY HandlerHasClient DEF DeleteById
<1>2. PICK s \in Session : s = thread[t].session /\ s[1] = d
  BY <1>1 DEF LogInv, Belongs, DeleteById, Closing
<1>3. byId' = byId \ {s} /\ byClient' = byClient /\ streams' = streams /\ stuck \subseteq stuck'
  BY <1>2 DEF DeleteById
<1>4. Only(d)
  BY <1>2, <1>3 DEF Only, OwnSession, DeleteById, LogInv, LogShapes
<1>5. Goes(t, d) /\ thread'[t].client = None
  BY Finishing DEF DeleteById
<1>6. ASSUME d \notin overlapped \cup stuck
      PROVE  Agree(d)' /\ byClient'[d] = None
  <2>1. byClient[d] = None /\ SessionsOf(d) \subseteq {s} /\ s \notin streams
    BY <1>1, <1>2, <1>6, OfHandler DEF Stage, DeleteById
  <2>2. SessionsOf(d)' = {}
    BY <1>3, <2>1 DEF SessionsOf
  <2>3. QED
    BY <1>3, <2>1, <2>2 DEF Agree
<1>7. QED
  BY <1>1, <1>3, <1>4, <1>5, <1>6, HandlerMoves, LogAssumption

-----------------------------------------------------------------------------
(* Events come                                                             *)

\* A thread takes an event: a client in order had no other handler.
LEMMA HandleMoves ==
    ASSUME LogInv, NEW t \in Thread, NEW d \in Client, NEW pc \in {"subscribe", "disconnect"},
           NEW s \in Session \cup {None}, pc = "subscribe" => s \in Session /\ s[1] = d,
           Handle(t, d, pc, s),
           connected' \in [Client -> {"no", "yes", "gone"}],
           \A c \in Client : c # d => connected'[c] = connected[c],
           connected'[d] = "gone" => pc = "disconnect"
    PROVE  LogInv'
<1>1. thread \in [Thread -> ThreadState] /\ thread[t].client = None
  BY DEF LogInv, LogShapes, Belongs, Handle
<1>2. PICK h \in ThreadState : h = [pc |-> pc, session |-> s, client |-> d]
  BY DEF ThreadState
<1>3. h.pc = pc /\ h.session = s /\ h.client = d
  BY <1>2
<1>4. thread' = [thread EXCEPT ![t] = h]
  BY <1>2 DEF Handle
<1>5. /\ thread' \in [Thread -> ThreadState] /\ thread'[t] = h
      /\ \A u \in Thread : u # t => thread'[u] = thread[u]
  BY <1>1, <1>4
<1>6. /\ UNCHANGED <<byClient, byId, streams, stuck>> /\ overlapped \subseteq overlapped'
      /\ d \in overlapped' \/ \A u \in Thread : thread[u].client # d
      /\ overlapped' \subseteq overlapped \cup {d}
  BY DEF Handle, HandlersOf
<1>7. LogShapes'
  BY <1>5, <1>6 DEF LogInv, LogShapes
<1>8. OneHandler'
  <2> SUFFICES ASSUME NEW u \in Thread, NEW v \in Thread, thread'[u].client = thread'[v].client,
                      thread'[u].client \in Client \ overlapped', u # v
               PROVE  FALSE
    BY DEF OneHandler
  <2>1. CASE u # t /\ v # t
    BY <1>5, <1>6, <2>1 DEF LogInv, OneHandler
  <2>2. CASE u = t
    BY <1>3, <1>5, <1>6, <2>2
  <2>3. CASE v = t
    BY <1>3, <1>5, <1>6, <2>3
  <2>4. QED
    BY <2>1, <2>2, <2>3
<1>9. ASSUME NEW u \in Thread PROVE Belongs(u)'
  <2>1. CASE u = t
    BY <1>3, <1>5, <2>1, LogAssumption DEF Belongs, Opening, Closing
  <2>2. CASE u # t
    BY <1>5, <2>2 DEF LogInv, Belongs
  <2>3. QED
    BY <2>1, <2>2
<1>10. ASSUME NEW c \in Client PROVE OwnSession(c)'
  BY <1>6 DEF LogInv, OwnSession
<1>11. ASSUME NEW c \in Client \ (overlapped' \cup stuck') PROVE InOrder(c)'
  <2>1. InOrder(c)
    BY <1>6 DEF LogInv
  <2>2. (Agree(c)' <=> Agree(c)) /\ SessionsOf(c)' = SessionsOf(c)
    BY <1>6 DEF Agree, SessionsOf
  <2>3. CASE c = d
    <3>1. Agree(d) /\ Agree(d)'
      BY <1>6, <1>11, <2>1, <2>2, <2>3 DEF InOrder, Quiet, HandlersOf
    <3>2. \A u \in Thread : thread'[u].client = d <=> u = t
      BY <1>3, <1>5, <1>6, <1>11, <2>3
    <3>3. Stage(t, d)'
      BY <1>3, <1>5, <3>1 DEF Stage
    <3>4. connected'[d] = "gone" => thread'[t].pc \in Closing
      BY <1>3, <1>5 DEF Closing
    <3>5. QED
      BY <2>3, <3>2, <3>3, <3>4 DEF InOrder, Quiet, HandlersOf
  <2>4. CASE c # d
    <3>1. \A u \in Thread : /\ thread'[u].client = c <=> thread[u].client = c
                            /\ thread[u].client = c => thread'[u] = thread[u]
      BY <1>1, <1>3, <1>5, <2>4, LogAssumption
    <3>2. Quiet(c)' <=> Quiet(c)
      BY <3>1 DEF Quiet, HandlersOf
    <3>3. \A u \in Thread : thread'[u].client = c => (Stage(u, c) => Stage(u, c)')
      BY <1>6, <2>2, <3>1 DEF Stage
    <3>4. QED
      BY <1>6, <2>1, <2>2, <2>4, <3>1, <3>2, <3>3 DEF InOrder
  <2>5. QED
    BY <2>3, <2>4
<1>12. QED
  BY <1>7, <1>8, <1>9, <1>10, <1>11 DEF LogInv

LEMMA SubscribeMoves ==
    ASSUME LogInv, NEW t \in Thread, NEW c \in Client, NEW j \in LogJob, Subscribe(t, c, j)
    PROVE  LogInv'
<1>1. PICK s \in Session : s = <<c, j>> /\ s[1] = c
  BY SessionOf
<1>2. Handle(t, c, "subscribe", s) /\ connected' = connected /\ connected[c] = "yes"
  BY <1>1 DEF Subscribe
<1>3. connected' \in [Client -> {"no", "yes", "gone"}]
  BY <1>2 DEF LogInv, LogShapes
<1>4. QED
  BY <1>1, <1>2, <1>3, HandleMoves

LEMMA ClientDisconnectsMoves ==
    ASSUME LogInv, NEW t \in Thread, NEW c \in Client, ClientDisconnects(t, c)
    PROVE  LogInv'
<1>1. /\ connected' \in [Client -> {"no", "yes", "gone"}]
      /\ \A b \in Client : b # c => connected'[b] = connected[b]
  BY DEF ClientDisconnects, LogInv, LogShapes
<1>2. Handle(t, c, "disconnect", None)
  BY DEF ClientDisconnects
<1>3. QED
  BY <1>1, <1>2, HandleMoves

LEMMA ClientConnectsMoves == ASSUME LogInv, NEW c \in Client, ClientConnects(c) PROVE LogInv'
<1>1. /\ connected' \in [Client -> {"no", "yes", "gone"}]
      /\ \A b \in Client : connected'[b] = "gone" => connected[b] = "gone"
      /\ UNCHANGED <<byClient, byId, streams, thread, overlapped, stuck>>
  BY DEF ClientConnects, LogInv, LogShapes
<1>2. LogShapes' /\ OneHandler'
  BY <1>1 DEF LogInv, LogShapes, OneHandler
<1>3. (\A t \in Thread : Belongs(t)') /\ (\A b \in Client : OwnSession(b)')
  BY <1>1 DEF LogInv, Belongs, OwnSession
<1>4. ASSUME NEW b \in Client \ (overlapped' \cup stuck') PROVE InOrder(b)'
  <2>1. InOrder(b)
    BY <1>1 DEF LogInv
  <2>2. (Agree(b) => Agree(b)') /\ (Quiet(b)' <=> Quiet(b))
    BY <1>1 DEF Agree, SessionsOf, Quiet, HandlersOf
  <2>3. \A t \in Thread : Stage(t, b) => Stage(t, b)'
    BY <1>1 DEF Stage, Agree, SessionsOf
  <2>4. QED
    BY <1>1, <2>1, <2>2, <2>3 DEF InOrder
<1>5. QED
  BY <1>2, <1>3, <1>4 DEF LogInv

LEMMA LogInitInv == LogInit => LogInv
<1> SUFFICES ASSUME LogInit PROVE LogInv
  OBVIOUS
<1>1. IdleThread \in ThreadState /\ IdleThread.pc = "idle" /\ IdleThread.client = None
  BY DEF IdleThread, ThreadState
<1>2. \A t \in Thread : thread[t] = IdleThread
  BY DEF LogInit
<1>3. LogShapes
  BY <1>1 DEF LogInit, LogShapes
<1>4. OneHandler
  BY <1>1, <1>2, LogAssumption DEF OneHandler
<1>5. \A t \in Thread : Belongs(t)
  BY <1>1, <1>2 DEF Belongs, Opening, Closing
<1>6. \A c \in Client : OwnSession(c)
  BY DEF OwnSession, LogInit
<1>7. ASSUME NEW c \in Client PROVE InOrder(c)
  <2>1. Agree(c)
    BY DEF Agree, SessionsOf, LogInit
  <2>2. \A t \in Thread : thread[t].client # c
    BY <1>1, <1>2, LogAssumption
  <2>3. QED
    BY <2>1, <2>2 DEF InOrder, LogInit
<1>8. QED
  BY <1>3, <1>4, <1>5, <1>6, <1>7 DEF LogInv

LEMMA LogNextInv == LogInv /\ [LogNext]_logVars => LogInv'
<1> SUFFICES ASSUME LogInv, [LogNext]_logVars PROVE LogInv'
  OBVIOUS
<1>1. ASSUME NEW c \in Client, ClientConnects(c) PROVE LogInv'
  BY <1>1, ClientConnectsMoves
<1>2. ASSUME NEW t \in Thread, HandlerStep(t) PROVE LogInv'
  BY <1>2, FindSessionMoves, RetrieveMoves, PutByClientMoves, PutByIdMoves, CreateSessionMoves,
     FindClosingMoves, CloseSessionMoves, DeleteByClientMoves, DeleteByIdMoves DEF HandlerStep
<1>3. ASSUME NEW t \in Thread, NEW c \in Client, ClientDisconnects(t, c) PROVE LogInv'
  BY <1>3, ClientDisconnectsMoves
<1>4. ASSUME NEW t \in Thread, NEW c \in Client, NEW j \in LogJob, Subscribe(t, c, j) PROVE LogInv'
  BY <1>4, SubscribeMoves
<1>5. CASE UNCHANGED logVars
  <2>1. LogShapes' /\ OneHandler'
    BY <1>5 DEF LogInv, LogShapes, OneHandler, logVars
  <2>2. (\A t \in Thread : Belongs(t)') /\ (\A b \in Client : OwnSession(b)')
    BY <1>5 DEF LogInv, Belongs, OwnSession, logVars
  <2>3. ASSUME NEW b \in Client \ (overlapped' \cup stuck') PROVE InOrder(b)'
    BY <1>5 DEF LogInv, InOrder, Stage, Agree, SessionsOf, Quiet, HandlersOf, logVars
  <2>4. QED
    BY <2>1, <2>2, <2>3 DEF LogInv
<1>6. QED
  BY <1>1, <1>2, <1>3, <1>4, <1>5 DEF LogNext

LEMMA LogInvariance == LogSpec => []LogInv
BY LogInitInv, LogNextInv, PTL DEF LogSpec

\* The two dictionaries of sessions agree between the events of a client, and a
\* client that has gone leaves nothing behind, however its handlers and those of
\* others interleave, unless two of them overlapped or one raised
\* (subscribe_for_logs, open_logs_session, disconnect).
THEOREM SessionsClosed == LogSpec => []SessionsAreClosed
<1>1. LogInv => DictionariesAgree
  BY DEF LogInv, InOrder, Agree, DictionariesAgree
<1>2. LogInv => NothingLeftBehind
  BY DEF LogInv, InOrder, Agree, NothingLeftBehind
<1>3. QED
  BY <1>1, <1>2, LogInvariance, PTL DEF SessionsAreClosed

-----------------------------------------------------------------------------
(* The gateway: which connection the main Pub knows                        *)

GatewayShapes ==
    /\ entry \in Conns \cup {NoConn} /\ current \in Conns \cup {NoConn}
    /\ conn \in [Conns -> ConnState]
    /\ call \in [Call -> CallState]
    /\ shared \subseteq Call /\ raced \in BOOLEAN

OnConnection == {"write", "writing", "read"}
Runs(k) == conn[k].handler \in {"read"} \cup Call

\* A connection that was never opened is empty, and nobody holds it.
Fresh ==
    /\ \A k \in Conns : conn[k].made = "no" => conn[k] = Unopened
    /\ \A c \in Call : call[c].pc = "dialled" => call[c].conn \in Conns /\ conn[call[c].conn].made # "no"
    /\ \A c \in Call : call[c].pc \in OnConnection => call[c].conn \in Conns

\* As long as no two calls dial at the same time, one dials only when there is
\* no connection, and every connection that works or is served is the one stored
\* or about to be.
OneAtATime ==
    ~raced =>
        /\ \A c, d \in Call : call[c].pc \in {"dial", "dialled"} /\ call[d].pc \in {"dial", "dialled"} => c = d
        /\ \A c \in Call : call[c].pc \in {"dial", "dialled"} => entry = NoConn
        /\ \A k \in Conns : Runs(k) => entry = k
        /\ \A k \in Conns : Usable(k) =>
              entry = k \/ \E c \in Call : call[c].pc = "dialled" /\ call[c].conn = k

KeptInv == GatewayShapes /\ Fresh /\ EntryIsServed /\ OneAtATime

LEMMA HandlerNames ==
    /\ "none" \notin {"read"} \cup Call /\ "over" \notin {"read"} \cup Call
    /\ "none" \notin Call /\ "read" \notin Call /\ "over" \notin Call
<1>1. "none" # "read" /\ "over" # "read"
  OBVIOUS
<1>2. QED
  BY <1>1, GatewayAssumption

LEMMA UnopenedShape ==
    /\ Unopened \in ConnState /\ Unopened.made = "no" /\ ~Unopened.main /\ ~Unopened.remote
    /\ Unopened.reqs = <<>> /\ Unopened.resps = <<>> /\ Unopened.handler = "none"
BY DEF Unopened, ConnState

LEMMA NoConnIsNone == NoConn \notin Conns
BY DEF NoConn, Conns

\* The call c has come to pc.
MovesTo(c, pc, k, got) ==
    /\ call' \in [Call -> CallState]
    /\ call'[c].pc = pc /\ call'[c].conn = k /\ call'[c].got = got
    /\ \A d \in Call : d # c => call'[d] = call[d]

CallPC == {"idle", "route", "dial", "dialled", "remote", "write", "writing", "read", "job", "done"}

LEMMA GotoMoves ==
    ASSUME call \in [Call -> CallState], NEW c \in Call, NEW pc \in CallPC, Goto(c, pc)
    PROVE  MovesTo(c, pc, call[c].conn, call[c].got)
<1>1. call[c] \in CallState
  OBVIOUS
<1>2. PICK n : n = [call[c] EXCEPT !.pc = pc]
  OBVIOUS
<1>3. n \in CallState
  BY <1>1, <1>2 DEF CallState, CallPC
<1>4. n.pc = pc /\ n.conn = call[c].conn /\ n.got = call[c].got
  BY <1>1, <1>2 DEF CallState
<1>5. call' = [call EXCEPT ![c] = n]
  BY <1>2 DEF Goto
<1>6. QED
  BY <1>3, <1>4, <1>5 DEF MovesTo

LEMMA EndMoves ==
    ASSUME call \in [Call -> CallState], NEW c \in Call, NEW result \in Result, End(c, result)
    PROVE  MovesTo(c, "done", call[c].conn, call[c].got)
<1>1. call[c] \in CallState
  OBVIOUS
<1>2. PICK n : n = [call[c] EXCEPT !.pc = "done", !.result = result]
  OBVIOUS
<1>3. n \in CallState
  BY <1>1, <1>2 DEF CallState
<1>4. n.pc = "done" /\ n.conn = call[c].conn /\ n.got = call[c].got
  BY <1>1, <1>2 DEF CallState
<1>5. call' = [call EXCEPT ![c] = n]
  BY <1>2 DEF End
<1>6. QED
  BY <1>3, <1>4, <1>5 DEF MovesTo

\* A connection k has become n; the others are as they were.
Becomes(k, n) ==
    conn' \in [Conns -> ConnState] /\ conn'[k] = n /\ \A j \in Conns : j # k => conn'[j] = conn[j]

LEMMA ConnUpdate ==
    ASSUME conn \in [Conns -> ConnState], NEW k \in Conns, NEW n \in ConnState, conn' = [conn EXCEPT ![k] = n]
    PROVE  Becomes(k, n)
BY DEF Becomes

\* A step of a call that neither stores nor opens a connection.
LEMMA CallMoves ==
    ASSUME KeptInv, NEW c \in Call, NEW pc \in CallPC, NEW k, NEW got, MovesTo(c, pc, k, got),
           conn' \in [Conns -> ConnState],
           \A j \in Conns : /\ conn'[j].made = conn[j].made /\ conn'[j].main = conn[j].main
                            /\ conn'[j].remote = conn[j].remote /\ conn'[j].handler = conn[j].handler
                            /\ conn[j].made = "no" => conn'[j] = conn[j],
           entry' = entry, current' = current, shared' \subseteq Call, raced' \in BOOLEAN, raced => raced',
           pc \in OnConnection => k \in Conns, pc # "dialled", call[c].pc # "dialled",
           pc = "dial" => entry = NoConn /\ (raced' \/ Dialling = {})
    PROVE  KeptInv'
<1>1. GatewayShapes'
  BY DEF KeptInv, GatewayShapes, MovesTo
<1>2. Fresh'
  <2>1. \A j \in Conns : conn'[j].made = "no" => conn'[j] = Unopened
    BY DEF KeptInv, Fresh
  <2>2. \A d \in Call : call'[d].pc = "dialled" => call'[d] = call[d]
    BY DEF MovesTo
  <2>3. ASSUME NEW d \in Call, call'[d].pc \in OnConnection PROVE call'[d].conn \in Conns
    BY <2>3 DEF MovesTo, KeptInv, Fresh
  <2>4. QED
    BY <2>1, <2>2, <2>3 DEF KeptInv, Fresh
<1>3. EntryIsServed'
  BY DEF KeptInv, EntryIsServed, GatewayShapes
<1>4. OneAtATime'
  <2> SUFFICES ASSUME ~raced' PROVE OneAtATime'
    BY DEF OneAtATime
  <2>0. ~raced /\ OneAtATime
    BY DEF KeptInv
  <2>1. \A d \in Call : call'[d].pc \in {"dial", "dialled"} =>
           \/ call[d].pc \in {"dial", "dialled"}
           \/ d = c /\ entry = NoConn /\ Dialling = {}
    BY DEF MovesTo
  <2>2. \A d \in Call : call'[d].pc \in {"dial", "dialled"} => entry = NoConn
    BY <2>0, <2>1 DEF OneAtATime
  <2>3. \A b, d \in Call : call'[b].pc \in {"dial", "dialled"} /\ call'[d].pc \in {"dial", "dialled"} => b = d
    BY <2>0, <2>1 DEF OneAtATime, Dialling
  <2>4. \A j \in Conns : (Runs(j)' <=> Runs(j)) /\ (Usable(j)' <=> Usable(j))
    BY DEF Runs, Usable
  <2>5. \A d \in Call : call[d].pc = "dialled" => call'[d] = call[d]
    BY DEF MovesTo
  <2>6. \A j \in Conns : Runs(j)' => entry' = j
    BY <2>0, <2>4 DEF OneAtATime
  <2>7. \A j \in Conns : Usable(j)' =>
              entry' = j \/ \E d \in Call : call'[d].pc = "dialled" /\ call'[d].conn = j
    BY <2>0, <2>4, <2>5 DEF OneAtATime
  <2>8. QED
    BY <2>2, <2>3, <2>6, <2>7 DEF OneAtATime
<1>5. QED
  BY <1>1, <1>2, <1>3, <1>4 DEF KeptInv

\* A step of a connection alone that keeps its handler.
LEMMA ConnMoves ==
    ASSUME KeptInv, UNCHANGED <<call, entry, shared, raced>>, current' \in Conns \cup {NoConn},
           conn' \in [Conns -> ConnState],
           \A j \in Conns : /\ Usable(j)' => Usable(j)
                            /\ Runs(j)' <=> Runs(j)
                            /\ conn'[j].made = "no" => conn[j].made = "no"
                            /\ conn[j].made = "no" => conn'[j] = conn[j]
    PROVE  KeptInv'
<1>1. GatewayShapes'
  BY DEF KeptInv, GatewayShapes
<1>2. Fresh'
  BY DEF KeptInv, Fresh
<1>3. EntryIsServed'
  BY DEF KeptInv, EntryIsServed, GatewayShapes, Runs
<1>4. OneAtATime'
  BY DEF KeptInv, OneAtATime
<1>5. QED
  BY <1>1, <1>2, <1>3, <1>4 DEF KeptInv

-----------------------------------------------------------------------------
(* The gateway: whose messages are on a connection                         *)

Readers(k) == {c \in Call : call[c].conn = k /\ call[c].pc = "read"}
Pending(q) == IF q.handler \in Call THEN 1 ELSE 0

\* Messages on a connection that a reader of it may still get an answer from.
Flight(q) ==
    IF q.main THEN Len(q.reqs) + Pending(q) + Len(q.resps) ELSE Len(q.resps)
Counted(k) == conn[k].remote => Flight(conn[k]) <= Cardinality(Readers(k))

\* They are all of the call c.
Mine(q, c) ==
    /\ q.main => (\A i \in 1..Len(q.reqs) : q.reqs[i] = c) /\ (q.handler \in Call => q.handler = c)
    /\ \A i \in 1..Len(q.resps) : q.resps[i][1] = c

\* A call that shared no connection is alone with its own messages.
Alone(c) ==
    \A k \in Conns : call[c].conn = k /\ call[c].pc \in OnConnection =>
        /\ Using(k) = {c}
        /\ conn[k].remote => Mine(conn[k], c)
GotOwn(c) == call[c].got # NoResponse => call[c].got[1] = c

OwnInv ==
    /\ \A k \in Conns : Counted(k)
    /\ \A c \in Call \ shared : Alone(c) /\ GotOwn(c)

LEMMA FlightIsNat ==
    ASSUME NEW q \in ConnState
    PROVE  /\ Flight(q) \in Nat /\ Len(q.reqs) \in Nat /\ Len(q.resps) \in Nat /\ Pending(q) \in {0, 1}
           /\ q.reqs \in Seq(Call) /\ q.resps \in Seq(Response)
           /\ q.main \in BOOLEAN /\ q.remote \in BOOLEAN
<1>1. q.reqs \in Seq(Call) /\ q.resps \in Seq(Response) /\ q.main \in BOOLEAN /\ q.remote \in BOOLEAN
  BY DEF ConnState
<1>2. Len(q.reqs) \in Nat /\ Len(q.resps) \in Nat /\ Pending(q) \in {0, 1}
  BY <1>1 DEF Pending
<1>3. QED
  BY <1>1, <1>2 DEF Flight

LEMMA EmptyIsMine ==
    ASSUME NEW q \in ConnState, Flight(q) = 0, NEW c
    PROVE  Mine(q, c) /\ (q.main => Len(q.reqs) = 0 /\ q.handler \notin Call) /\ Len(q.resps) = 0
<1>1. Len(q.reqs) \in Nat /\ Len(q.resps) \in Nat /\ Pending(q) \in {0, 1}
  BY FlightIsNat
<1>2. Len(q.resps) = 0
  BY <1>1 DEF Flight
<1>3. q.main => Len(q.reqs) = 0 /\ Pending(q) = 0
  BY <1>1 DEF Flight
<1>4. q.main => q.handler \notin Call
  BY <1>3 DEF Pending
<1>5. QED
  BY <1>2, <1>3, <1>4 DEF Mine

LEMMA CountOfCalls == \A S \in SUBSET Call : IsFiniteSet(S) /\ Cardinality(S) \in Nat
BY GatewayAssumption, FS_Subset, FS_CardinalityType

\* Calls only leave the connection k, and nothing is added to what is on it.
Drains(k) ==
    \/ ~conn'[k].remote
    \/ Flight(conn'[k]) = 0
    \/ /\ conn[k].remote /\ Flight(conn'[k]) <= Flight(conn[k]) /\ Readers(k)' = Readers(k)
       /\ \A c \in Call : Mine(conn[k], c) => Mine(conn'[k], c)

LEMMA DrainMoves ==
    ASSUME KeptInv, OwnInv, conn' \in [Conns -> ConnState], shared' = shared,
           \A d \in Call : /\ call'[d].got = call[d].got
                           /\ call'[d].pc \in OnConnection =>
                                 call[d].pc \in OnConnection /\ call'[d].conn = call[d].conn,
           \A k \in Conns : Drains(k)
    PROVE  OwnInv'
<1>1. ASSUME NEW k \in Conns PROVE Counted(k)'
  <2> SUFFICES ASSUME conn'[k].remote PROVE Flight(conn'[k]) <= Cardinality(Readers(k)')
    BY DEF Counted
  <2>1. Flight(conn[k]) \in Nat /\ Flight(conn'[k]) \in Nat
    BY FlightIsNat DEF KeptInv, GatewayShapes
  <2>2. Cardinality(Readers(k)) \in Nat /\ Cardinality(Readers(k)') \in Nat
    BY CountOfCalls DEF Readers
  <2>3. CASE Flight(conn'[k]) = 0
    BY <2>2, <2>3
  <2>4. CASE conn[k].remote /\ Flight(conn'[k]) <= Flight(conn[k]) /\ Readers(k)' = Readers(k)
    <3>1. Flight(conn[k]) <= Cardinality(Readers(k))
      BY <2>4 DEF OwnInv, Counted
    <3>2. QED
      BY <2>1, <2>2, <2>4, <3>1
  <2>5. QED
    BY <2>3, <2>4 DEF Drains
<1>2. ASSUME NEW c \in Call \ shared' PROVE Alone(c)' /\ GotOwn(c)'
  <2>1. Alone(c) /\ GotOwn(c) /\ GotOwn(c)'
    BY DEF OwnInv, GotOwn
  <2>2. ASSUME NEW k \in Conns, call'[c].conn = k, call'[c].pc \in OnConnection
        PROVE  Using(k)' = {c} /\ (conn'[k].remote => Mine(conn'[k], c))
    <3>1. call[c].pc \in OnConnection /\ call[c].conn = k
      BY <2>2
    <3>2. Using(k) = {c} /\ (conn[k].remote => Mine(conn[k], c))
      BY <2>1, <3>1 DEF Alone
    <3>3. Using(k)' = {c}
      BY <2>2, <3>1, <3>2 DEF Using, OnConnection
    <3>4. conn'[k].remote => Mine(conn'[k], c)
      <4>1. CASE Flight(conn'[k]) = 0
        BY <4>1, EmptyIsMine
      <4>2. CASE conn[k].remote /\ \A d \in Call : Mine(conn[k], d) => Mine(conn'[k], d)
        BY <3>2, <4>2
      <4>3. QED
        BY <4>1, <4>2 DEF Drains
    <3>5. QED
      BY <3>3, <3>4
  <2>3. QED
    BY <2>1, <2>2 DEF Alone
<1>3. QED
  BY <1>1, <1>2 DEF OwnInv

\* Nobody comes to or leaves a connection, and it has no message more.
LEMMA SameMessages ==
    ASSUME NEW k \in Conns, conn[k] \in ConnState, conn'[k] \in ConnState, conn'[k].remote => conn[k].remote,
           conn'[k].main => conn[k].main, conn'[k].reqs = conn[k].reqs, conn'[k].resps = conn[k].resps,
           conn'[k].handler \in Call => conn'[k].handler = conn[k].handler,
           Readers(k)' = Readers(k)
    PROVE  Drains(k)
<1>1. \A c \in Call : Mine(conn[k], c) => Mine(conn'[k], c)
  BY DEF Mine
<1>2. Pending(conn'[k]) <= Pending(conn[k])
  BY DEF Pending
<1>3. Flight(conn'[k]) <= Flight(conn[k])
  <2>1. Len(conn[k].reqs) \in Nat /\ Len(conn[k].resps) \in Nat /\ Pending(conn[k]) \in {0, 1} /\ Pending(conn'[k]) \in {0, 1}
    BY FlightIsNat
  <2>2. QED
    BY <1>2, <2>1 DEF Flight
<1>4. QED
  BY <1>1, <1>3 DEF Drains

-----------------------------------------------------------------------------
(* The gateway: the steps of calls                                         *)

GatewayInv == KeptInv /\ OwnInv

\* A call moves and the connections stay: it may give up a connection only when
\* the remote end is closed or nothing is on its way.
LEMMA QuietCallMoves ==
    ASSUME GatewayInv, NEW c \in Call, NEW pc \in CallPC \ {"dialled"},
           MovesTo(c, pc, call[c].conn, call[c].got),
           UNCHANGED <<conn, entry, current, shared>>, raced' \in BOOLEAN, raced => raced',
           call[c].pc # "dialled", pc = "dial" => entry = NoConn /\ (raced' \/ Dialling = {}),
           pc \in OnConnection => call[c].pc \in OnConnection,
           \/ pc = "read" <=> call[c].pc = "read"
           \/ \A k \in Conns : k = call[c].conn => ~conn[k].remote \/ Flight(conn[k]) = 0
    PROVE  GatewayInv'
<1>1. conn \in [Conns -> ConnState] /\ conn' = conn /\ shared \subseteq Call /\ call[c] \in CallState
  BY DEF GatewayInv, KeptInv, GatewayShapes
<1>2. KeptInv'
  <2>1. pc \in OnConnection => call[c].conn \in Conns
    BY DEF GatewayInv, KeptInv, Fresh
  <2>2. QED
    BY <1>1, <2>1, CallMoves DEF GatewayInv
<1>3. ASSUME NEW k \in Conns PROVE Drains(k)
  <2>1. CASE k = call[c].conn /\ (~conn[k].remote \/ Flight(conn[k]) = 0)
    BY <1>1, <2>1 DEF Drains
  <2>2. CASE k # call[c].conn \/ (pc = "read" <=> call[c].pc = "read")
    <3>1. Readers(k)' = Readers(k)
      BY <2>2 DEF Readers, MovesTo
    <3>2. conn[k] \in ConnState /\ conn'[k] = conn[k]
      BY <1>1
    <3>3. QED
      BY <3>1, <3>2, SameMessages
  <2>3. QED
    BY <2>1, <2>2
<1>4. \A d \in Call : /\ call'[d].got = call[d].got
                      /\ call'[d].pc \in OnConnection =>
                            call[d].pc \in OnConnection /\ call'[d].conn = call[d].conn
  BY DEF MovesTo
<1>5. OwnInv'
  BY <1>1, <1>3, <1>4, DrainMoves DEF GatewayInv
<1>6. QED
  BY <1>2, <1>5 DEF GatewayInv

\* A call that uses no connection goes on or ends.
LEMMA AwayMoves ==
    ASSUME GatewayInv, NEW c \in Call, NEW pc \in CallPC \ (OnConnection \cup {"dialled"}),
           call[c].pc \notin OnConnection \cup {"dialled"},
           MovesTo(c, pc, call[c].conn, call[c].got),
           UNCHANGED <<conn, entry, current, shared>>, raced' \in BOOLEAN, raced => raced',
           pc = "dial" => entry = NoConn /\ (raced' \/ Dialling = {})
    PROVE  GatewayInv'
<1>1. pc # "read" /\ call[c].pc # "read" /\ pc # "dialled" /\ call[c].pc # "dialled"
  BY DEF OnConnection
<1>2. QED
  BY <1>1, QuietCallMoves

LEMMA AwayPCs ==
    LET away == CallPC \ (OnConnection \cup {"dialled"}) IN
    /\ "route" \in away /\ "dial" \in away /\ "remote" \in away /\ "job" \in away /\ "done" \in away
    /\ "idle" \notin OnConnection \cup {"dialled"} /\ "route" \notin OnConnection \cup {"dialled"}
    /\ "dial" \notin OnConnection \cup {"dialled"} /\ "job" \notin OnConnection \cup {"dialled"}
BY DEF CallPC, OnConnection

LEMMA MainCallMoves ==
    ASSUME GatewayInv, NEW c \in Call,
           \/ \E verdict \in Verdict : Authorize(c, verdict)
           \/ Route(c) \/ DialFails(c) \/ CallRemote(c) \/ Forward(c) \/ ServeReverseProxy(c)
    PROVE  GatewayInv'
<1>0. raced \in BOOLEAN /\ call \in [Call -> CallState]
  BY DEF GatewayInv, KeptInv, GatewayShapes
<1>a. ASSUME NEW pc \in CallPC, Goto(c, pc) PROVE MovesTo(c, pc, call[c].conn, call[c].got)
  BY <1>0, <1>a, GotoMoves
<1>b. ASSUME NEW result \in Result, End(c, result) PROVE MovesTo(c, "done", call[c].conn, call[c].got)
  BY <1>0, <1>b, EndMoves
<1>1. ASSUME NEW verdict \in Verdict, Authorize(c, verdict) PROVE GatewayInv'
  <2>1. call[c].pc = "idle" /\ UNCHANGED <<conn, entry, current, shared, raced>>
    BY <1>1 DEF Authorize
  <2>2. CASE Goto(c, "route")
    BY <1>0, <2>1, <2>2, <1>a, <1>b, AwayPCs, AwayMoves
  <2>3. CASE End(c, Unserved(verdict))
    <3>1. Unserved(verdict) \in Result
      BY DEF Unserved, Result
    <3>2. QED
      BY <1>0, <2>1, <2>3, <3>1, <1>a, <1>b, AwayPCs, AwayMoves
  <2>4. QED
    BY <1>1, <2>2, <2>3 DEF Authorize
<1>2. CASE Route(c)
  <2>1. /\ call[c].pc = "route" /\ UNCHANGED <<conn, entry, current, shared>>
        /\ raced' \in BOOLEAN /\ (raced => raced')
    BY <1>0, <1>2 DEF Route
  <2>2. CASE entry = NoConn
    <3>1. Goto(c, "dial") /\ (raced' \/ Dialling = {})
      BY <1>2, <2>2 DEF Route
    <3>2. QED
      BY <2>1, <2>2, <3>1, <1>a, <1>b, AwayPCs, AwayMoves
  <2>3. CASE entry # NoConn
    <3>1. Goto(c, "remote")
      BY <1>2, <2>3 DEF Route
    <3>2. QED
      BY <2>1, <3>1, <1>a, <1>b, AwayPCs, AwayMoves
  <2>4. QED
    BY <2>2, <2>3
<1>3. CASE DialFails(c)
  <2>1. call[c].pc = "dial" /\ UNCHANGED <<conn, entry, current, shared, raced>> /\ \E result \in Result : End(c, result)
    BY <1>3 DEF DialFails, Result
  <2>2. QED
    BY <1>0, <2>1, <1>a, <1>b, AwayPCs, AwayMoves
<1>4. CASE CallRemote(c)
  <2>1. call[c].pc = "idle" /\ UNCHANGED <<conn, entry, current, shared, raced>> /\ Goto(c, "remote")
    BY <1>4 DEF CallRemote
  <2>2. QED
    BY <1>0, <2>1, <1>a, <1>b, AwayPCs, AwayMoves
<1>5. CASE Forward(c)
  <2>1. call[c].pc = "idle" /\ UNCHANGED <<conn, entry, current, shared, raced>>
    BY <1>5 DEF Forward
  <2>2. CASE Goto(c, "job")
    BY <1>0, <2>1, <2>2, <1>a, <1>b, AwayPCs, AwayMoves
  <2>3. CASE \E result \in Result : End(c, result)
    BY <1>0, <2>1, <2>3, <1>a, <1>b, AwayPCs, AwayMoves
  <2>4. QED
    BY <1>5, <2>2, <2>3 DEF Forward, Result
<1>6. CASE ServeReverseProxy(c)
  <2>1. call[c].pc = "job" /\ UNCHANGED <<conn, entry, current, shared, raced>> /\ \E result \in Result : End(c, result)
    BY <1>6 DEF ServeReverseProxy, Result
  <2>2. QED
    BY <1>0, <2>1, <1>a, <1>b, AwayPCs, AwayMoves
<1>7. QED
  BY <1>1, <1>2, <1>3, <1>4, <1>5, <1>6

LEMMA WriteMoves == ASSUME GatewayInv, NEW c \in Call, Write(c) PROVE GatewayInv'
<1>1. call \in [Call -> CallState] /\ raced \in BOOLEAN
  BY DEF GatewayInv, KeptInv, GatewayShapes
<1>2. call[c].pc = "write" /\ UNCHANGED <<conn, entry, current, shared, raced>>
  BY DEF Write
<1>3. Goto(c, "writing") \/ End(c, "failed")
  BY DEF Write
<1>4. PICK pc \in {"writing", "done"} : MovesTo(c, pc, call[c].conn, call[c].got)
  BY <1>1, <1>3, GotoMoves, EndMoves DEF CallPC, Result
<1>5. QED
  BY <1>1, <1>2, <1>4, QuietCallMoves DEF CallPC, OnConnection

\* A message more for a reader more.
LEMMA WrittenMoves == ASSUME GatewayInv, NEW c \in Call, Written(c) PROVE GatewayInv'
<1>1. call \in [Call -> CallState] /\ conn \in [Conns -> ConnState] /\ raced \in BOOLEAN /\ shared \subseteq Call
  BY DEF GatewayInv, KeptInv, GatewayShapes
<1>2. call[c].pc = "writing" /\ UNCHANGED <<entry, current, shared, raced>>
  BY DEF Written
<1>3. PICK k \in Conns : k = call[c].conn
  BY <1>2 DEF GatewayInv, KeptInv, Fresh, OnConnection
<1>4. CASE ~conn[k].remote
  <2>1. End(c, "failed") /\ conn' = conn
    BY <1>3, <1>4 DEF Written
  <2>2. MovesTo(c, "done", call[c].conn, call[c].got)
    BY <1>1, <2>1, EndMoves DEF Result
  <2>3. QED
    BY <1>1, <1>2, <2>1, <2>2, QuietCallMoves DEF CallPC, OnConnection
<1>5. CASE conn[k].remote
  <2>1. PICK q : q = conn[k]
    OBVIOUS
  <2>2. q \in ConnState /\ Len(q.reqs) \in Nat /\ Len(q.resps) \in Nat /\ Pending(q) \in {0, 1} /\ q.reqs \in Seq(Call)
    BY <1>1, <2>1, FlightIsNat
  <2>3. PICK reqs \in Seq(Call) : reqs = IF q.main THEN Append(q.reqs, c) ELSE q.reqs
    <3>1. Append(q.reqs, c) \in Seq(Call)
      BY <2>2
    <3>2. QED
      BY <2>2, <3>1
  <2>4. PICK n : n = [q EXCEPT !.reqs = reqs]
    OBVIOUS
  <2>5. n \in ConnState
    BY <2>2, <2>4 DEF ConnState
  <2>6. /\ n.made = q.made /\ n.main = q.main /\ n.remote = q.remote /\ n.handler = q.handler
        /\ n.reqs = reqs /\ n.resps = q.resps
    BY <2>2, <2>4 DEF ConnState
  <2>7. conn' = [conn EXCEPT ![k] = n] /\ Goto(c, "read")
    BY <1>3, <1>5, <2>1, <2>3, <2>4 DEF Written
  <2>8. Becomes(k, n)
    BY <1>1, <2>5, <2>7, ConnUpdate
  <2>9. MovesTo(c, "read", call[c].conn, call[c].got)
    BY <1>1, <2>7, GotoMoves DEF CallPC
  <2>10. KeptInv'
    <3>1. \A j \in Conns : /\ conn'[j].made = conn[j].made /\ conn'[j].main = conn[j].main
                           /\ conn'[j].remote = conn[j].remote /\ conn'[j].handler = conn[j].handler
      BY <2>1, <2>6, <2>8 DEF Becomes
    <3>2. q.made # "no"
      BY <1>5, <2>1, UnopenedShape DEF GatewayInv, KeptInv, Fresh
    <3>3. \A j \in Conns : conn[j].made = "no" => conn'[j] = conn[j]
      BY <2>1, <2>8, <3>2 DEF Becomes
    <3>4. conn' \in [Conns -> ConnState]
      BY <2>8 DEF Becomes
    <3>5. QED
      BY <1>1, <1>2, <1>3, <2>9, <3>1, <3>3, <3>4, CallMoves DEF GatewayInv, CallPC
  <2>11. Flight(n) <= Flight(q) + 1
    <3>1. Len(reqs) <= Len(q.reqs) + 1 /\ Len(reqs) \in Nat
      BY <2>2, <2>3
    <3>2. Pending(n) = Pending(q)
      BY <2>6 DEF Pending
    <3>3. QED
      BY <2>2, <2>6, <3>1, <3>2 DEF Flight
  <2>12. ASSUME NEW j \in Conns PROVE Counted(j)'
    <3>1. CASE j = k
      <4>1. Readers(k)' = Readers(k) \cup {c} /\ c \notin Readers(k) /\ Readers(k) \in SUBSET Call
        BY <1>2, <1>3, <2>9 DEF Readers, MovesTo
      <4>2. Cardinality(Readers(k)') = Cardinality(Readers(k)) + 1
        BY <4>1, CountOfCalls, FS_AddElement
      <4>3. Flight(q) <= Cardinality(Readers(k))
        BY <1>5, <2>1 DEF GatewayInv, OwnInv, Counted
      <4>4. Cardinality(Readers(k)) \in Nat /\ Flight(q) \in Nat /\ Flight(n) \in Nat
        BY <2>2, <2>5, <4>1, CountOfCalls, FlightIsNat
      <4>5. Flight(n) <= Cardinality(Readers(k)')
        BY <2>11, <4>2, <4>3, <4>4
      <4>6. QED
        BY <2>8, <3>1, <4>5 DEF Counted, Becomes
    <3>2. CASE j # k
      <4>1. Readers(j)' = Readers(j)
        BY <1>3, <2>9, <3>2 DEF Readers, MovesTo
      <4>2. QED
        BY <2>8, <3>2, <4>1 DEF GatewayInv, OwnInv, Counted, Becomes
    <3>3. QED
      BY <3>1, <3>2
  <2>13. ASSUME NEW d \in Call \ shared' PROVE Alone(d)' /\ GotOwn(d)'
    <3>1. Alone(d) /\ GotOwn(d)
      BY <1>2 DEF GatewayInv, OwnInv
    <3>2. GotOwn(d)'
      BY <2>9, <3>1 DEF GotOwn, MovesTo
    <3>3. ASSUME NEW j \in Conns, call'[d].conn = j, call'[d].pc \in OnConnection
          PROVE  Using(j)' = {d} /\ (conn'[j].remote => Mine(conn'[j], d))
      <4>1. call[d].conn = j /\ call[d].pc \in OnConnection /\ Using(j)' = Using(j)
        BY <1>2, <2>9, <3>3 DEF MovesTo, Using, OnConnection
      <4>2. Using(j) = {d} /\ (conn[j].remote => Mine(conn[j], d))
        BY <3>1, <4>1 DEF Alone
      <4>3. CASE j = k
        <5>1. d = c
          BY <1>2, <1>3, <4>2, <4>3 DEF Using
        <5>2. Mine(q, c)
          BY <1>5, <2>1, <4>2, <4>3, <5>1
        <5>3. n.main => \A i \in 1..Len(n.reqs) : n.reqs[i] = c
          BY <2>2, <2>3, <2>6, <5>2 DEF Mine
        <5>4. Mine(n, c)
          BY <2>6, <5>2, <5>3 DEF Mine
        <5>5. QED
          BY <2>8, <4>1, <4>2, <4>3, <5>1, <5>4 DEF Becomes
      <4>4. CASE j # k
        BY <2>8, <4>1, <4>2, <4>4 DEF Becomes
      <4>5. QED
        BY <4>3, <4>4
    <3>4. QED
      BY <3>2, <3>3 DEF Alone
  <2>14. QED
    BY <2>10, <2>12, <2>13 DEF GatewayInv, OwnInv
<1>6. QED
  BY <1>4, <1>5

\* A call that finds others on its connection shares it; one that finds nobody
\* finds no message either.
LEMMA NewClientMoves == ASSUME GatewayInv, NEW c \in Call, NewClient(c) PROVE GatewayInv'
<1>1. /\ call \in [Call -> CallState] /\ conn \in [Conns -> ConnState] /\ raced \in BOOLEAN
      /\ shared \subseteq Call /\ current \in Conns \cup {NoConn}
  BY DEF GatewayInv, KeptInv, GatewayShapes
<1>2. call[c].pc = "remote" /\ UNCHANGED <<entry, current, conn, raced>>
  BY DEF NewClient
<1>3. CASE current = NoConn
  <2>1. End(c, "failed") /\ shared' = shared
    BY <1>3 DEF NewClient
  <2>2. MovesTo(c, "done", call[c].conn, call[c].got)
    BY <1>1, <2>1, EndMoves DEF Result
  <2>3. QED
    BY <1>1, <1>2, <2>1, <2>2, QuietCallMoves DEF CallPC, OnConnection
<1>4. CASE current # NoConn
  <2>1. PICK k \in Conns : k = current
    BY <1>1, <1>4
  <2>2. /\ call' = [call EXCEPT ![c].pc = "write", ![c].conn = k]
        /\ shared' = IF Using(k) = {} THEN shared ELSE shared \cup Using(k) \cup {c}
    BY <1>4, <2>1 DEF NewClient
  <2>3. MovesTo(c, "write", k, call[c].got)
    <3>1. PICK n : n = [call[c] EXCEPT !.pc = "write", !.conn = k]
      OBVIOUS
    <3>2. call[c] \in CallState
      BY <1>1
    <3>3. n \in CallState
      BY <3>1, <3>2 DEF CallState
    <3>4. n.pc = "write" /\ n.conn = k /\ n.got = call[c].got
      BY <3>1, <3>2 DEF CallState
    <3>5. call' = [call EXCEPT ![c] = n]
      BY <2>2, <3>1
    <3>6. QED
      BY <1>1, <3>3, <3>4, <3>5 DEF MovesTo
  <2>4. shared' \subseteq Call /\ shared \subseteq shared'
    BY <1>1, <2>2 DEF Using
  <2>5. KeptInv'
    BY <1>1, <1>2, <2>3, <2>4, CallMoves DEF GatewayInv, CallPC
  <2>6. ASSUME NEW j \in Conns PROVE Counted(j)'
    <3>1. Readers(j)' = Readers(j)
      BY <1>2, <2>3 DEF Readers, MovesTo
    <3>2. QED
      BY <1>2, <3>1 DEF GatewayInv, OwnInv, Counted
  <2>7. ASSUME NEW d \in Call \ shared' PROVE Alone(d)' /\ GotOwn(d)'
    <3>1. Alone(d) /\ GotOwn(d)
      BY <2>4 DEF GatewayInv, OwnInv
    <3>2. GotOwn(d)'
      BY <2>3, <3>1 DEF GotOwn, MovesTo
    <3>3. ASSUME NEW j \in Conns, call'[d].conn = j, call'[d].pc \in OnConnection
          PROVE  Using(j)' = {d} /\ (conn'[j].remote => Mine(conn'[j], d))
      <4>1. CASE d = c
        <5>1. j = k /\ Using(k) = {}
          BY <2>2, <2>3, <2>7, <3>3, <4>1 DEF MovesTo
        <5>2. Using(k)' = {c}
          BY <2>3, <5>1 DEF Using, MovesTo
        <5>3. ASSUME conn[k].remote PROVE Mine(conn[k], c)
          <6>1. Readers(k) = {}
            BY <5>1 DEF Using, Readers
          <6>2. Flight(conn[k]) <= 0
            BY <5>3, <6>1, FS_EmptySet DEF GatewayInv, OwnInv, Counted
          <6>3. conn[k] \in ConnState /\ Flight(conn[k]) \in Nat
            BY <1>1, FlightIsNat
          <6>4. QED
            BY <6>2, <6>3, EmptyIsMine
        <5>4. QED
          BY <1>2, <4>1, <5>1, <5>2, <5>3
      <4>2. CASE d # c
        <5>1. call[d].conn = j /\ call[d].pc \in OnConnection
          BY <2>3, <3>3, <4>2 DEF MovesTo
        <5>2. Using(j) = {d} /\ (conn[j].remote => Mine(conn[j], d))
          BY <3>1, <5>1 DEF Alone
        <5>3. j # k
          BY <2>2, <2>7, <5>2
        <5>4. Using(j)' = Using(j)
          BY <1>2, <2>3, <5>3 DEF Using, MovesTo
        <5>5. QED
          BY <1>2, <5>2, <5>4
      <4>3. QED
        BY <4>1, <4>2
    <3>4. QED
      BY <3>2, <3>3 DEF Alone
  <2>8. QED
    BY <2>5, <2>6, <2>7 DEF GatewayInv, OwnInv
<1>5. QED
  BY <1>3, <1>4

\* The first response goes to the reader, and both are gone from the connection.
LEMMA ReadMoves == ASSUME GatewayInv, NEW c \in Call, Read(c) PROVE GatewayInv'
<1>1. call \in [Call -> CallState] /\ conn \in [Conns -> ConnState] /\ raced \in BOOLEAN /\ shared \subseteq Call
  BY DEF GatewayInv, KeptInv, GatewayShapes
<1>2. call[c].pc = "read" /\ UNCHANGED <<entry, current, shared, raced>>
  BY DEF Read
<1>3. PICK k \in Conns : k = call[c].conn
  BY <1>2 DEF GatewayInv, KeptInv, Fresh, OnConnection
<1>4. CASE (conn[k].remote => ~conn[k].main /\ conn[k].resps = <<>>) /\ End(c, "failed") /\ conn' = conn
  <2>1. MovesTo(c, "done", call[c].conn, call[c].got)
    BY <1>1, <1>4, EndMoves DEF Result
  <2>2. ~conn[k].remote \/ Flight(conn[k]) = 0
    BY <1>4 DEF Flight
  <2>3. QED
    BY <1>1, <1>2, <1>3, <1>4, <2>1, <2>2, QuietCallMoves DEF CallPC, OnConnection
<1>5. ASSUME conn[k].remote, conn[k].resps # <<>>, Accept(c, Head(conn[k].resps)),
             conn' = [conn EXCEPT ![k].resps = Tail(@)]
      PROVE  GatewayInv'
  <2>1. PICK q : q = conn[k]
    OBVIOUS
  <2>2. q \in ConnState /\ Len(q.reqs) \in Nat /\ Len(q.resps) \in Nat /\ Pending(q) \in {0, 1} /\ q.resps \in Seq(Response)
    BY <1>1, <2>1, FlightIsNat
  <2>3. PICK rest \in Seq(Response), r \in Response :
           /\ rest = Tail(q.resps) /\ r = Head(q.resps) /\ r = q.resps[1] /\ Len(q.resps) > 0
           /\ Len(rest) = Len(q.resps) - 1 /\ \A i \in 1..Len(rest) : rest[i] = q.resps[i + 1]
    <3>1. q.resps # <<>>
      BY <1>5, <2>1
    <3>2. Tail(q.resps) \in Seq(Response) /\ Head(q.resps) \in Response /\ Head(q.resps) = q.resps[1] /\ Len(q.resps) > 0
      BY <2>2, <3>1
    <3>3. Len(Tail(q.resps)) = Len(q.resps) - 1 /\ \A i \in 1..Len(Tail(q.resps)) : Tail(q.resps)[i] = q.resps[i + 1]
      BY <2>2, <3>1
    <3>4. QED
      BY <3>2, <3>3
  <2>4. PICK n : n = [q EXCEPT !.resps = rest]
    OBVIOUS
  <2>5. n \in ConnState
    BY <2>2, <2>4 DEF ConnState
  <2>6. /\ n.made = q.made /\ n.main = q.main /\ n.remote = q.remote /\ n.handler = q.handler
        /\ n.reqs = q.reqs /\ n.resps = rest
    BY <2>2, <2>4 DEF ConnState
  <2>7. conn' = [conn EXCEPT ![k] = n]
    BY <1>5, <2>1, <2>3, <2>4
  <2>8. Becomes(k, n)
    BY <1>1, <2>5, <2>7, ConnUpdate
  <2>9. PICK pc \in {"job", "done"} : MovesTo(c, pc, k, r)
    <3>1. Accept(c, r)
      BY <1>5, <2>1, <2>3
    <3>2. PICK pc \in {"job", "done"} : pc = IF r[2] = "allowed" THEN "job" ELSE "done"
      OBVIOUS
    <3>3. PICK result \in Result : result = IF r[2] = "allowed" THEN "none" ELSE Unserved(r[2])
      BY DEF Result, Unserved
    <3>4. PICK m : m = [call[c] EXCEPT !.got = r, !.pc = pc, !.result = result]
      OBVIOUS
    <3>5. call[c] \in CallState
      BY <1>1
    <3>6. m \in CallState
      BY <3>4, <3>5 DEF CallState
    <3>7. m.pc = pc /\ m.conn = k /\ m.got = r
      BY <1>3, <3>4, <3>5 DEF CallState
    <3>8. call' = [call EXCEPT ![c] = m]
      BY <3>1, <3>2, <3>3, <3>4 DEF Accept
    <3>9. MovesTo(c, pc, k, r)
      BY <1>1, <3>6, <3>7, <3>8 DEF MovesTo
    <3>10. QED
      BY <3>9
  <2>10. KeptInv'
    <3>1. \A j \in Conns : /\ conn'[j].made = conn[j].made /\ conn'[j].main = conn[j].main
                           /\ conn'[j].remote = conn[j].remote /\ conn'[j].handler = conn[j].handler
      BY <2>1, <2>6, <2>8 DEF Becomes
    <3>2. q.made # "no"
      BY <1>5, <2>1, UnopenedShape DEF GatewayInv, KeptInv, Fresh
    <3>3. \A j \in Conns : conn[j].made = "no" => conn'[j] = conn[j]
      BY <2>1, <2>8, <3>2 DEF Becomes
    <3>4. conn' \in [Conns -> ConnState]
      BY <2>8 DEF Becomes
    <3>5. pc \in CallPC /\ pc \notin OnConnection /\ pc # "dialled" /\ pc # "dial"
      BY DEF CallPC, OnConnection
    <3>6. QED
      BY <1>1, <1>2, <1>3, <2>9, <3>1, <3>3, <3>4, <3>5, CallMoves DEF GatewayInv
  <2>11. Flight(n) + 1 = Flight(q)
    <3>1. Pending(n) = Pending(q)
      BY <2>6 DEF Pending
    <3>2. Len(n.resps) + 1 = Len(q.resps) /\ Len(n.reqs) = Len(q.reqs)
      BY <2>3, <2>6
    <3>3. CASE q.main
      <4>1. Flight(n) = Len(n.reqs) + Pending(n) + Len(n.resps) /\ Flight(q) = Len(q.reqs) + Pending(q) + Len(q.resps)
        BY <2>6, <3>3 DEF Flight
      <4>2. PICK a \in Nat, b \in Nat, p \in Nat, e \in Nat :
               a = Len(q.reqs) /\ b = Len(q.resps) /\ p = Pending(q) /\ e = Len(n.resps)
        BY <2>2, <2>5, FlightIsNat
      <4>3. Flight(n) = a + p + e /\ Flight(q) = a + p + b /\ e + 1 = b
        BY <3>1, <3>2, <4>1, <4>2
      <4>4. (a + p + e) + 1 = a + p + b
        BY <4>3
      <4>5. QED
        BY <4>3, <4>4
    <3>4. CASE ~q.main
      BY <2>6, <3>2, <3>4 DEF Flight
    <3>5. QED
      BY <3>3, <3>4
  <2>12. ASSUME NEW j \in Conns PROVE Counted(j)'
    <3>1. CASE j = k
      <4>1. Readers(k)' = Readers(k) \ {c} /\ c \in Readers(k) /\ Readers(k) \in SUBSET Call
        BY <1>2, <1>3, <2>9 DEF Readers, MovesTo
      <4>2. Cardinality(Readers(k)') = Cardinality(Readers(k)) - 1
        BY <4>1, CountOfCalls, FS_RemoveElement
      <4>3. Flight(q) <= Cardinality(Readers(k))
        BY <1>5, <2>1 DEF GatewayInv, OwnInv, Counted
      <4>4. Cardinality(Readers(k)) \in Nat /\ Flight(q) \in Nat /\ Flight(n) \in Nat
        BY <2>2, <2>5, <4>1, CountOfCalls, FlightIsNat
      <4>5. Flight(n) <= Cardinality(Readers(k)')
        BY <2>11, <4>2, <4>3, <4>4
      <4>6. QED
        BY <2>8, <3>1, <4>5 DEF Counted, Becomes
    <3>2. CASE j # k
      <4>1. Readers(j)' = Readers(j)
        BY <1>3, <2>9, <3>2 DEF Readers, MovesTo
      <4>2. QED
        BY <2>8, <3>2, <4>1 DEF GatewayInv, OwnInv, Counted, Becomes
    <3>3. QED
      BY <3>1, <3>2
  <2>13. ASSUME NEW d \in Call \ shared' PROVE Alone(d)' /\ GotOwn(d)'
    <3>1. Alone(d) /\ GotOwn(d)
      BY <1>2 DEF GatewayInv, OwnInv
    <3>2. GotOwn(d)'
      <4>1. CASE d = c
        <5>1. Mine(q, c)
          BY <1>2, <1>3, <1>5, <2>1, <3>1, <4>1 DEF Alone, OnConnection
        <5>2. r[1] = c
          BY <2>2, <2>3, <5>1 DEF Mine
        <5>3. QED
          BY <2>9, <4>1, <5>2 DEF GotOwn, MovesTo
      <4>2. CASE d # c
        BY <2>9, <3>1, <4>2 DEF GotOwn, MovesTo
      <4>3. QED
        BY <4>1, <4>2
    <3>3. ASSUME NEW j \in Conns, call'[d].conn = j, call'[d].pc \in OnConnection
          PROVE  Using(j)' = {d} /\ (conn'[j].remote => Mine(conn'[j], d))
      <4>0. d # c
        BY <2>9, <3>3 DEF MovesTo, OnConnection
      <4>1. call[d].conn = j /\ call[d].pc \in OnConnection
        BY <2>9, <3>3, <4>0 DEF MovesTo
      <4>2. Using(j) = {d} /\ (conn[j].remote => Mine(conn[j], d))
        BY <3>1, <4>1 DEF Alone
      <4>3. j # k
        BY <1>2, <1>3, <4>0, <4>2 DEF Using
      <4>4. Using(j)' = Using(j)
        BY <1>3, <2>9, <4>3 DEF Using, MovesTo
      <4>5. QED
        BY <2>8, <4>2, <4>3, <4>4 DEF Becomes
    <3>4. QED
      BY <3>2, <3>3 DEF Alone
  <2>14. QED
    BY <2>10, <2>12, <2>13 DEF GatewayInv, OwnInv
<1>6. QED
  BY <1>3, <1>4, <1>5 DEF Read

-----------------------------------------------------------------------------
(* The gateway: the steps of connections                                   *)

\* Nobody uses a connection differently than before.
LEMMA SameUse ==
    ASSUME call' = call
    PROVE  /\ \A d \in Call : /\ call'[d].got = call[d].got
                              /\ call'[d].pc \in OnConnection =>
                                    call[d].pc \in OnConnection /\ call'[d].conn = call[d].conn
           /\ \A k : Readers(k)' = Readers(k)
BY DEF Readers

\* A connection that has been opened becomes n, which may only have lost
\* messages or an end.
LEMMA OneConnMoves ==
    ASSUME GatewayInv, UNCHANGED <<call, entry, shared, raced>>, current' \in Conns \cup {NoConn},
           NEW k \in Conns, NEW n \in ConnState, Becomes(k, n), conn[k].made # "no",
           n.made # "no", n.main => conn[k].main, n.remote => conn[k].remote,
           n.handler \in {"read"} \cup Call <=> Runs(k), Drains(k)
    PROVE  GatewayInv'
<1>1. conn \in [Conns -> ConnState] /\ conn' \in [Conns -> ConnState]
  BY DEF GatewayInv, KeptInv, GatewayShapes, Becomes
<1>2. ASSUME NEW j \in Conns
      PROVE  /\ Usable(j)' => Usable(j)
             /\ Runs(j)' <=> Runs(j)
             /\ conn'[j].made = "no" => conn[j].made = "no"
             /\ conn[j].made = "no" => conn'[j] = conn[j]
             /\ Drains(j)
  <2>1. CASE j = k
    BY <2>1 DEF Becomes, Usable, Runs
  <2>2. CASE j # k
    <3>1. conn'[j] = conn[j] /\ conn[j] \in ConnState
      BY <1>1, <2>2 DEF Becomes
    <3>2. Drains(j)
      BY <3>1, SameUse, SameMessages
    <3>3. QED
      BY <3>1, <3>2 DEF Usable, Runs
  <2>3. QED
    BY <2>1, <2>2
<1>3. KeptInv'
  BY <1>1, <1>2, ConnMoves DEF GatewayInv
<1>4. OwnInv'
  BY <1>1, <1>2, SameUse, DrainMoves DEF GatewayInv
<1>5. QED
  BY <1>3, <1>4 DEF GatewayInv

LEMMA RunningWasMade ==
    ASSUME GatewayInv, NEW k \in Conns, conn[k].handler # "none" \/ conn[k].main \/ conn[k].remote
    PROVE  conn[k].made # "no"
BY UnopenedShape DEF GatewayInv, KeptInv, Fresh

\* The oldest request becomes the one that the handler serves.
LEMMA ReceiveMoves == ASSUME GatewayInv, NEW k \in Conns, Receive(k) PROVE GatewayInv'
<1>1. conn \in [Conns -> ConnState] /\ UNCHANGED <<entry, current, call, shared, raced>> /\ current \in Conns \cup {NoConn}
  BY DEF GatewayInv, KeptInv, GatewayShapes, Receive
<1>2. PICK q : q = conn[k]
  OBVIOUS
<1>3. q \in ConnState /\ Len(q.reqs) \in Nat /\ Len(q.resps) \in Nat /\ q.reqs \in Seq(Call) /\ q.handler = "read" /\ q.main
  BY <1>1, <1>2, FlightIsNat DEF Receive
<1>4. PICK rest \in Seq(Call), first \in Call :
         /\ rest = Tail(q.reqs) /\ first = Head(q.reqs) /\ first = q.reqs[1]
         /\ Len(rest) + 1 = Len(q.reqs) /\ \A i \in 1..Len(rest) : rest[i] = q.reqs[i + 1]
  <2>1. q.reqs # <<>>
    BY <1>2 DEF Receive
  <2>2. Tail(q.reqs) \in Seq(Call) /\ Head(q.reqs) \in Call /\ Head(q.reqs) = q.reqs[1]
    BY <1>3, <2>1
  <2>3. Len(Tail(q.reqs)) + 1 = Len(q.reqs) /\ \A i \in 1..Len(Tail(q.reqs)) : Tail(q.reqs)[i] = q.reqs[i + 1]
    BY <1>3, <2>1
  <2>4. QED
    BY <2>2, <2>3
<1>5. PICK n : n = [q EXCEPT !.handler = first, !.reqs = rest]
  OBVIOUS
<1>6. n \in ConnState
  BY <1>3, <1>5 DEF ConnState
<1>7. /\ n.made = q.made /\ n.main = q.main /\ n.remote = q.remote /\ n.handler = first
      /\ n.reqs = rest /\ n.resps = q.resps
  BY <1>3, <1>5 DEF ConnState
<1>8. conn' = [conn EXCEPT ![k] = n]
  BY <1>2, <1>4, <1>5 DEF Receive
<1>9. Becomes(k, n)
  BY <1>1, <1>6, <1>8, ConnUpdate
<1>10. q.made # "no"
  BY <1>2, <1>3, RunningWasMade
<1>11. Drains(k)
  <2>1. Flight(n) = Flight(q)
    <3>1. Pending(n) = 1 /\ Pending(q) = 0
      BY <1>3, <1>7, HandlerNames DEF Pending
    <3>2. PICK a \in Nat, b \in Nat : a = Len(rest) /\ a + 1 = Len(q.reqs) /\ b = Len(q.resps)
      <4>1. Len(rest) \in Nat
        OBVIOUS
      <4>2. Len(rest) + 1 = Len(q.reqs)
        BY <1>4
      <4>3. QED
        BY <1>3, <4>1, <4>2
    <3>3. Flight(n) = a + 1 + b /\ Flight(q) = (a + 1) + 0 + b
      BY <1>3, <1>7, <3>1, <3>2 DEF Flight
    <3>4. QED
      BY <3>3
  <2>2. ASSUME NEW c \in Call, Mine(q, c) PROVE Mine(n, c)
    <3>1. \A i \in 1..Len(q.reqs) : q.reqs[i] = c
      BY <1>3, <2>2 DEF Mine
    <3>2. first = c
      BY <1>3, <1>4, <3>1
    <3>3. \A i \in 1..Len(rest) : rest[i] = c
      BY <1>3, <1>4, <3>1
    <3>4. QED
      BY <1>7, <2>2, <3>2, <3>3 DEF Mine
  <2>3. Flight(n) \in Nat
    BY <1>6, FlightIsNat
  <2>4. CASE q.remote
    BY <1>1, <1>2, <1>9, <2>1, <2>2, <2>3, <2>4, SameUse DEF Drains, Becomes
  <2>5. CASE ~q.remote
    BY <1>7, <1>9, <2>5 DEF Drains, Becomes
  <2>6. QED
    BY <2>4, <2>5
<1>12. QED
  BY <1>1, <1>2, <1>3, <1>6, <1>7, <1>9, <1>10, <1>11, OneConnMoves DEF Runs

\* The answer takes the place of the request that was served, or nothing does.
LEMMA AnswerMoves ==
    ASSUME GatewayInv, NEW k \in Conns, NEW verdict \in Verdict, Answer(k, verdict)
    PROVE  GatewayInv'
<1>1. conn \in [Conns -> ConnState] /\ UNCHANGED <<entry, current, call, shared, raced>> /\ current \in Conns \cup {NoConn}
  BY DEF GatewayInv, KeptInv, GatewayShapes, Answer
<1>2. PICK q : q = conn[k]
  OBVIOUS
<1>3. /\ q \in ConnState /\ Len(q.reqs) \in Nat /\ Len(q.resps) \in Nat /\ q.resps \in Seq(Response)
      /\ q.handler \in Call
  BY <1>1, <1>2, FlightIsNat DEF Answer
<1>4. PICK r \in Response : r = <<q.handler, verdict>> /\ r[1] = q.handler
  <2>1. PICK c \in Call : c = q.handler
    BY <1>3
  <2>2. <<c, verdict>> \in Response /\ <<c, verdict>>[1] = c
    BY DEF Response
  <2>3. QED
    BY <2>1, <2>2
<1>5. PICK resps \in Seq(Response) :
         /\ conn' = [conn EXCEPT ![k] = [q EXCEPT !.handler = "read", !.resps = resps]]
         /\ resps = q.resps \/ (q.main /\ resps = Append(q.resps, r))
  <2>1. Append(q.resps, r) \in Seq(Response)
    BY <1>3
  <2>2. CASE conn' = [conn EXCEPT ![k].handler = "read"]
    <3>1. [q EXCEPT !.handler = "read"] = [q EXCEPT !.handler = "read", !.resps = q.resps]
      BY <1>3 DEF ConnState
    <3>2. QED
      BY <1>2, <1>3, <2>2, <3>1
  <2>3. CASE conn' = [conn EXCEPT ![k].handler = "read",
                          ![k].resps = IF Usable(k) THEN Append(@, r) ELSE @]
    <3>1. CASE Usable(k)
      BY <1>2, <2>1, <2>3, <3>1 DEF Usable
    <3>2. CASE ~Usable(k)
      BY <1>2, <1>3, <2>3, <3>2
    <3>3. QED
      BY <3>1, <3>2
  <2>4. QED
    BY <1>2, <1>4, <2>2, <2>3 DEF Answer
<1>6. PICK n : n = [q EXCEPT !.handler = "read", !.resps = resps]
  OBVIOUS
<1>7. n \in ConnState
  BY <1>3, <1>6 DEF ConnState
<1>8. /\ n.made = q.made /\ n.main = q.main /\ n.remote = q.remote /\ n.handler = "read"
      /\ n.reqs = q.reqs /\ n.resps = resps
  BY <1>3, <1>6 DEF ConnState
<1>9. Becomes(k, n)
  BY <1>1, <1>5, <1>6, <1>7, ConnUpdate
<1>10. q.made # "no"
  BY <1>2, <1>3, RunningWasMade, HandlerNames
<1>11. Drains(k)
  <2>1. Flight(n) <= Flight(q)
    <3>1. Pending(n) = 0 /\ Pending(q) = 1
      BY <1>3, <1>8, HandlerNames DEF Pending
    <3>2. PICK a \in Nat, b \in Nat, e \in Nat :
             a = Len(q.reqs) /\ b = Len(q.resps) /\ e = Len(resps) /\ e <= b + 1 /\ (~q.main => e = b)
      <4>1. Len(resps) \in Nat /\ Len(resps) <= Len(q.resps) + 1 /\ (~q.main => Len(resps) = Len(q.resps))
        BY <1>3, <1>5
      <4>2. QED
        BY <1>3, <4>1
    <3>3. CASE q.main
      <4>1. Flight(n) = a + 0 + e /\ Flight(q) = a + 1 + b
        BY <1>8, <3>1, <3>2, <3>3 DEF Flight
      <4>2. e <= b + 1
        BY <3>2
      <4>3. a + 0 + e <= a + 1 + b
        BY <4>2
      <4>4. QED
        BY <4>1, <4>3
    <3>4. CASE ~q.main
      BY <1>8, <3>2, <3>4 DEF Flight
    <3>5. QED
      BY <3>3, <3>4
  <2>2. ASSUME NEW c \in Call, Mine(q, c) PROVE Mine(n, c)
    <3>1. \A i \in 1..Len(resps) : resps[i][1] = c
      <4>1. CASE resps = q.resps
        BY <2>2, <4>1 DEF Mine
      <4>2. CASE q.main /\ resps = Append(q.resps, r)
        <5>1. r[1] = c
          BY <1>3, <1>4, <2>2, <4>2 DEF Mine
        <5>2. ASSUME NEW i \in 1..Len(resps) PROVE resps[i] = r \/ (i \in 1..Len(q.resps) /\ resps[i] = q.resps[i])
          BY <1>3, <4>2
        <5>3. QED
          BY <2>2, <5>1, <5>2 DEF Mine
      <4>3. QED
        BY <1>5, <4>1, <4>2
    <3>2. QED
      BY <1>8, <2>2, <3>1, HandlerNames DEF Mine
  <2>3. CASE q.remote
    BY <1>1, <1>2, <1>9, <2>1, <2>2, <2>3, SameUse DEF Drains, Becomes
  <2>4. CASE ~q.remote
    BY <1>8, <1>9, <2>4 DEF Drains, Becomes
  <2>5. QED
    BY <2>3, <2>4
<1>12. QED
  BY <1>1, <1>2, <1>3, <1>7, <1>8, <1>9, <1>10, <1>11, OneConnMoves DEF Runs

LEMMA AdoptMoves == ASSUME GatewayInv, NEW k \in Conns, Adopt(k) PROVE GatewayInv'
<1>1. conn \in [Conns -> ConnState] /\ UNCHANGED <<entry, call, shared, raced>> /\ current' = k
  BY DEF GatewayInv, KeptInv, GatewayShapes, Adopt
<1>2. PICK q : q = conn[k]
  OBVIOUS
<1>3. q \in ConnState
  BY <1>1, <1>2
<1>4. PICK n : n = [q EXCEPT !.made = "adopted"]
  OBVIOUS
<1>5. n \in ConnState
  BY <1>3, <1>4 DEF ConnState
<1>6. /\ n.made = "adopted" /\ n.main = q.main /\ n.remote = q.remote /\ n.handler = q.handler
      /\ n.reqs = q.reqs /\ n.resps = q.resps
  BY <1>3, <1>4 DEF ConnState
<1>7. Becomes(k, n)
  BY <1>1, <1>2, <1>4, <1>5, ConnUpdate DEF Adopt
<1>8. Drains(k)
  BY <1>1, <1>2, <1>3, <1>5, <1>6, <1>7, SameUse, SameMessages DEF Becomes
<1>9. QED
  BY <1>1, <1>2, <1>5, <1>6, <1>7, <1>8, OneConnMoves DEF Adopt, Runs

LEMMA BreakMoves == ASSUME GatewayInv, NEW k \in Conns, Break(k) PROVE GatewayInv'
<1>1. conn \in [Conns -> ConnState] /\ UNCHANGED <<entry, current, call, shared, raced>> /\ current \in Conns \cup {NoConn}
  BY DEF GatewayInv, KeptInv, GatewayShapes, Break
<1>2. PICK q : q = conn[k]
  OBVIOUS
<1>3. q \in ConnState
  BY <1>1, <1>2
<1>4. PICK n : n = [q EXCEPT !.main = FALSE, !.remote = FALSE]
  OBVIOUS
<1>5. n \in ConnState
  BY <1>3, <1>4 DEF ConnState
<1>6. n.made = q.made /\ ~n.main /\ ~n.remote /\ n.handler = q.handler
  BY <1>3, <1>4 DEF ConnState
<1>7. Becomes(k, n)
  BY <1>1, <1>2, <1>4, <1>5, ConnUpdate DEF Break
<1>8. Drains(k)
  BY <1>6, <1>7 DEF Drains, Becomes
<1>9. q.made # "no"
  BY <1>2, RunningWasMade DEF Break, Usable
<1>10. QED
  BY <1>1, <1>2, <1>5, <1>6, <1>7, <1>8, <1>9, OneConnMoves DEF Runs

\* The handler that ends was the one of the entry, unless two calls dialled at
\* the same time.
LEMMA HandlerEndsMoves == ASSUME GatewayInv, NEW k \in Conns, HandlerEnds(k) PROVE GatewayInv'
<1>1. conn \in [Conns -> ConnState] /\ UNCHANGED <<current, call, shared, raced>> /\ entry' = NoConn
  BY DEF GatewayInv, KeptInv, GatewayShapes, HandlerEnds
<1>2. PICK q : q = conn[k]
  OBVIOUS
<1>3. q \in ConnState /\ q.handler = "read"
  BY <1>1, <1>2 DEF HandlerEnds, ReadFails
<1>4. PICK n : n = [q EXCEPT !.handler = "over", !.main = FALSE]
  OBVIOUS
<1>5. n \in ConnState
  BY <1>3, <1>4 DEF ConnState
<1>6. /\ n.made = q.made /\ ~n.main /\ n.remote = q.remote /\ n.handler = "over"
      /\ n.reqs = q.reqs /\ n.resps = q.resps
  BY <1>3, <1>4 DEF ConnState
<1>7. Becomes(k, n)
  BY <1>1, <1>2, <1>4, <1>5, ConnUpdate DEF HandlerEnds
<1>8. q.made # "no"
  BY <1>2, <1>3, RunningWasMade
<1>9. ASSUME NEW j \in Conns PROVE Drains(j)
  <2>1. conn[j] \in ConnState /\ conn'[j] \in ConnState
    BY <1>1, <1>7 DEF Becomes
  <2>2. CASE j = k
    BY <1>1, <1>2, <1>6, <1>7, <2>1, <2>2, SameUse, SameMessages, HandlerNames DEF Becomes
  <2>3. CASE j # k
    BY <1>1, <1>7, <2>1, <2>3, SameUse, SameMessages DEF Becomes
  <2>4. QED
    BY <2>2, <2>3
<1>10. OwnInv'
  BY <1>1, <1>7, <1>9, SameUse, DrainMoves DEF GatewayInv, Becomes
<1>11. GatewayShapes' /\ Fresh' /\ EntryIsServed'
  <2>1. GatewayShapes'
    BY <1>1, <1>7 DEF GatewayInv, KeptInv, GatewayShapes, Becomes
  <2>2. \A j \in Conns : conn'[j].made = conn[j].made /\ (conn[j].made = "no" => conn'[j] = conn[j])
    BY <1>2, <1>6, <1>7, <1>8 DEF Becomes
  <2>3. Fresh'
    BY <1>1, <2>2 DEF GatewayInv, KeptInv, Fresh
  <2>4. QED
    BY <1>1, <2>1, <2>3 DEF EntryIsServed
<1>12. ASSUME ~raced' PROVE OneAtATime'
  <2>1. ~raced /\ OneAtATime
    BY <1>1, <1>12 DEF GatewayInv, KeptInv
  <2>2. entry = k
    BY <1>2, <1>3, <2>1 DEF OneAtATime, Runs
  <2>3. \A j \in Conns : ~Runs(j)'
    BY <1>6, <1>7, <2>1, <2>2, HandlerNames DEF OneAtATime, Runs, Becomes
  <2>4. \A j \in Conns : Usable(j)' => j # k /\ Usable(j)
    BY <1>6, <1>7 DEF Usable, Becomes
  <2>5. \A j \in Conns : Usable(j)' => \E c \in Call : call'[c].pc = "dialled" /\ call'[c].conn = j
    BY <1>1, <2>1, <2>2, <2>4 DEF OneAtATime
  <2>6. QED
    BY <1>1, <2>1, <2>3, <2>5 DEF OneAtATime
<1>13. QED
  BY <1>10, <1>11, <1>12 DEF GatewayInv, KeptInv, OneAtATime

\* The only call that dials stores the only connection that works.
LEMMA StoreMoves == ASSUME GatewayInv, NEW c \in Call, Store(c) PROVE GatewayInv'
<1>1. /\ conn \in [Conns -> ConnState] /\ call \in [Call -> CallState]
      /\ UNCHANGED <<current, shared, raced>> /\ call[c].pc = "dialled" /\ Goto(c, "remote")
  BY DEF GatewayInv, KeptInv, GatewayShapes, Store
<1>2. PICK k \in Conns : k = call[c].conn /\ conn[k].made # "no"
  BY <1>1 DEF GatewayInv, KeptInv, Fresh
<1>3. PICK q : q = conn[k]
  OBVIOUS
<1>4. q \in ConnState
  BY <1>1, <1>3
<1>5. PICK n : n = [q EXCEPT !.handler = "read"]
  OBVIOUS
<1>6. n \in ConnState
  BY <1>4, <1>5 DEF ConnState
<1>7. /\ n.made = q.made /\ n.main = q.main /\ n.remote = q.remote /\ n.handler = "read"
      /\ n.reqs = q.reqs /\ n.resps = q.resps
  BY <1>4, <1>5 DEF ConnState
<1>8. Becomes(k, n) /\ entry' = k
  BY <1>1, <1>2, <1>3, <1>5, <1>6, ConnUpdate DEF Store
<1>9. MovesTo(c, "remote", k, call[c].got)
  BY <1>1, <1>2, GotoMoves DEF CallPC
<1>10. \A d \in Call : /\ call'[d].got = call[d].got
                       /\ call'[d].pc \in OnConnection =>
                             call[d].pc \in OnConnection /\ call'[d].conn = call[d].conn
  BY <1>9 DEF MovesTo, OnConnection
<1>11. ASSUME NEW j \in Conns PROVE Drains(j)
  <2>1. conn[j] \in ConnState /\ conn'[j] \in ConnState
    BY <1>1, <1>8 DEF Becomes
  <2>2. Readers(j)' = Readers(j)
    BY <1>1, <1>9 DEF Readers, MovesTo
  <2>3. CASE j = k
    BY <1>3, <1>7, <1>8, <2>1, <2>2, <2>3, SameMessages, HandlerNames DEF Becomes
  <2>4. CASE j # k
    BY <1>8, <2>1, <2>2, <2>4, SameMessages DEF Becomes
  <2>5. QED
    BY <2>3, <2>4
<1>12. OwnInv'
  BY <1>1, <1>8, <1>10, <1>11, DrainMoves DEF GatewayInv, Becomes
<1>13. GatewayShapes' /\ Fresh' /\ EntryIsServed'
  <2>1. GatewayShapes'
    BY <1>1, <1>8, <1>9 DEF GatewayInv, KeptInv, GatewayShapes, Becomes, MovesTo
  <2>2. \A j \in Conns : conn'[j].made = conn[j].made /\ (conn[j].made = "no" => conn'[j] = conn[j])
    BY <1>2, <1>3, <1>7, <1>8 DEF Becomes
  <2>3. \A d \in Call : call'[d].pc = "dialled" => call'[d] = call[d]
    BY <1>9 DEF MovesTo
  <2>4. Fresh'
    BY <1>10, <2>2, <2>3 DEF GatewayInv, KeptInv, Fresh
  <2>5. EntryIsServed'
    BY <1>7, <1>8 DEF EntryIsServed, Becomes
  <2>6. QED
    BY <2>1, <2>4, <2>5
<1>14. ASSUME ~raced' PROVE OneAtATime'
  <2>1. ~raced /\ OneAtATime
    BY <1>1, <1>14 DEF GatewayInv, KeptInv
  <2>2. entry = NoConn
    BY <1>1, <2>1 DEF OneAtATime
  <2>3. \A d \in Call : call'[d].pc \notin {"dial", "dialled"}
    BY <1>1, <1>9, <2>1 DEF OneAtATime, MovesTo
  <2>4. \A j \in Conns : Runs(j)' => j = k
    BY <1>8, <2>1, <2>2, NoConnIsNone DEF OneAtATime, Runs, Becomes
  <2>5. \A j \in Conns : Usable(j)' => Usable(j)
    BY <1>3, <1>7, <1>8 DEF Usable, Becomes
  <2>6. \A j \in Conns : Usable(j)' => j = k
    BY <1>1, <1>2, <2>1, <2>2, <2>5, NoConnIsNone DEF OneAtATime
  <2>7. QED
    BY <1>8, <2>3, <2>4, <2>6 DEF OneAtATime
<1>15. QED
  BY <1>12, <1>13, <1>14 DEF GatewayInv, KeptInv, OneAtATime

LEMMA CloseCurrentShape ==
    ASSUME KeptInv
    PROVE  /\ CloseCurrent \in [Conns -> ConnState]
           /\ \A j \in Conns :
                 /\ CloseCurrent[j].made = conn[j].made /\ CloseCurrent[j].main = conn[j].main
                 /\ CloseCurrent[j].handler = conn[j].handler
                 /\ CloseCurrent[j].reqs = conn[j].reqs /\ CloseCurrent[j].resps = conn[j].resps
                 /\ CloseCurrent[j].remote => conn[j].remote
                 /\ conn[j].made = "no" => CloseCurrent[j] = conn[j]
<1>1. conn \in [Conns -> ConnState] /\ current \in Conns \cup {NoConn}
  BY DEF KeptInv, GatewayShapes
<1>2. CASE current = NoConn
  BY <1>1, <1>2 DEF CloseCurrent
<1>3. CASE current # NoConn
  <2>1. PICK k \in Conns : k = current
    BY <1>1, <1>3
  <2>2. PICK q : q = conn[k]
    OBVIOUS
  <2>3. PICK n : n = [q EXCEPT !.remote = FALSE]
    OBVIOUS
  <2>4. q \in ConnState
    BY <1>1, <2>2
  <2>5. n \in ConnState
    BY <2>3, <2>4 DEF ConnState
  <2>6. /\ n.made = q.made /\ n.main = q.main /\ ~n.remote /\ n.handler = q.handler
        /\ n.reqs = q.reqs /\ n.resps = q.resps
    BY <2>3, <2>4 DEF ConnState
  <2>7. q.made = "no" => n = q
    <3>1. ASSUME q.made = "no" PROVE n = q
      <4>1. q = Unopened
        BY <2>2, <3>1 DEF KeptInv, Fresh
      <4>2. q.remote = FALSE
        BY <4>1 DEF Unopened
      <4>3. QED
        BY <2>3, <2>4, <4>2 DEF ConnState
    <3>2. QED
      BY <3>1
  <2>8. CloseCurrent = [conn EXCEPT ![k] = n]
    BY <1>3, <2>1, <2>2, <2>3 DEF CloseCurrent
  <2>9. CloseCurrent \in [Conns -> ConnState] /\ CloseCurrent[k] = n /\ \A j \in Conns : j # k => CloseCurrent[j] = conn[j]
    BY <1>1, <2>5, <2>8
  <2>10. QED
    BY <2>2, <2>6, <2>7, <2>9
<1>4. QED
  BY <1>2, <1>3

\* The remote Pub closes its connection; then it fails or upgrades a new one,
\* which is empty.
LEMMA OpenFailsMoves ==
    ASSUME GatewayInv, NEW c \in Call, call[c].pc = "dial", conn' = CloseCurrent, End(c, "failed"),
           UNCHANGED <<entry, current, shared, raced>>
    PROVE  GatewayInv'
<1>1. /\ call \in [Call -> CallState] /\ conn \in [Conns -> ConnState] /\ raced \in BOOLEAN /\ KeptInv
      /\ entry \in Conns \cup {NoConn} /\ current \in Conns \cup {NoConn} /\ shared \subseteq Call
  BY DEF GatewayInv, KeptInv, GatewayShapes
<1>2. MovesTo(c, "done", call[c].conn, call[c].got)
  BY <1>1, EndMoves DEF Result
<1>3. /\ conn' \in [Conns -> ConnState]
      /\ \A j \in Conns :
            /\ conn'[j].made = conn[j].made /\ conn'[j].main = conn[j].main
            /\ conn'[j].handler = conn[j].handler
            /\ conn'[j].reqs = conn[j].reqs /\ conn'[j].resps = conn[j].resps
            /\ conn'[j].remote => conn[j].remote
            /\ conn[j].made = "no" => conn'[j] = conn[j]
  BY <1>1, CloseCurrentShape
<1>4. \A d \in Call : /\ call'[d].got = call[d].got
                      /\ call'[d].pc \in OnConnection =>
                            call[d].pc \in OnConnection /\ call'[d].conn = call[d].conn
                      /\ call'[d].pc \in {"dial", "dialled"} => call'[d] = call[d]
                      /\ call[d].pc = "dialled" => call'[d] = call[d]
  BY <1>2 DEF MovesTo, OnConnection
<1>5. ASSUME NEW j \in Conns PROVE Drains(j)
  <2>1. Readers(j)' = Readers(j)
    BY <1>2 DEF Readers, MovesTo
  <2>2. conn[j] \in ConnState /\ conn'[j] \in ConnState
    BY <1>1, <1>3
  <2>3. QED
    BY <1>3, <2>1, <2>2, SameMessages
<1>6. OwnInv'
  BY <1>1, <1>3, <1>4, <1>5, DrainMoves DEF GatewayInv
<1>7. GatewayShapes'
  BY <1>1, <1>2, <1>3 DEF GatewayShapes, MovesTo
<1>8. Fresh'
  BY <1>1, <1>3, <1>4 DEF KeptInv, Fresh
<1>9. EntryIsServed'
  BY <1>1, <1>3 DEF KeptInv, EntryIsServed
<1>10. OneAtATime'
  <2> SUFFICES ASSUME ~raced PROVE OneAtATime'
    BY DEF OneAtATime
  <2>1. OneAtATime /\ \A j \in Conns : (Runs(j)' <=> Runs(j)) /\ (Usable(j)' => Usable(j))
    BY <1>1, <1>3 DEF KeptInv, Runs, Usable
  <2>2. \A j \in Conns : Usable(j)' =>
              entry' = j \/ \E d \in Call : call'[d].pc = "dialled" /\ call'[d].conn = j
    BY <1>4, <2>1 DEF OneAtATime
  <2>3. QED
    BY <1>4, <2>1, <2>2 DEF OneAtATime
<1>11. QED
  BY <1>6, <1>7, <1>8, <1>9, <1>10 DEF GatewayInv, KeptInv

LEMMA UpgradeMoves ==
    ASSUME GatewayInv, NEW c \in Call, call[c].pc = "dial", NEW k \in Conns, conn[k].made = "no",
           conn' = [CloseCurrent EXCEPT ![k].made = "upgraded", ![k].main = TRUE, ![k].remote = TRUE],
           call' = [call EXCEPT ![c].pc = "dialled", ![c].conn = k],
           UNCHANGED <<entry, current, shared, raced>>
    PROVE  GatewayInv'
<1>1. /\ call \in [Call -> CallState] /\ conn \in [Conns -> ConnState] /\ raced \in BOOLEAN /\ KeptInv
      /\ entry \in Conns \cup {NoConn} /\ current \in Conns \cup {NoConn} /\ shared \subseteq Call
  BY DEF GatewayInv, KeptInv, GatewayShapes
<1>2. MovesTo(c, "dialled", k, call[c].got)
  <2>1. PICK m : m = [call[c] EXCEPT !.pc = "dialled", !.conn = k]
    OBVIOUS
  <2>2. call[c] \in CallState
    BY <1>1
  <2>3. m \in CallState
    BY <2>1, <2>2 DEF CallState
  <2>4. m.pc = "dialled" /\ m.conn = k /\ m.got = call[c].got
    BY <2>1, <2>2 DEF CallState
  <2>5. call' = [call EXCEPT ![c] = m]
    BY <2>1
  <2>6. QED
    BY <1>1, <2>3, <2>4, <2>5 DEF MovesTo
<1>3. PICK closed \in [Conns -> ConnState] : closed = CloseCurrent
  BY <1>1, CloseCurrentShape
<1>4. \A j \in Conns :
         /\ closed[j].made = conn[j].made /\ closed[j].main = conn[j].main
         /\ closed[j].handler = conn[j].handler
         /\ closed[j].reqs = conn[j].reqs /\ closed[j].resps = conn[j].resps
         /\ closed[j].remote => conn[j].remote
         /\ conn[j].made = "no" => closed[j] = conn[j]
  BY <1>1, <1>3, CloseCurrentShape
<1>5. conn[k] = Unopened /\ closed[k] = Unopened
  BY <1>1, <1>4 DEF KeptInv, Fresh
<1>6. PICK n : n = [Unopened EXCEPT !.made = "upgraded", !.main = TRUE, !.remote = TRUE]
  OBVIOUS
<1>7. n \in ConnState
  BY <1>6, UnopenedShape DEF ConnState
<1>8. n.made = "upgraded" /\ n.main /\ n.remote /\ n.handler = "none" /\ n.reqs = <<>> /\ n.resps = <<>>
  BY <1>6 DEF Unopened
<1>9. conn' = [closed EXCEPT ![k] = n]
  BY <1>3, <1>5, <1>6
<1>10. conn' \in [Conns -> ConnState] /\ conn'[k] = n /\ \A j \in Conns : j # k => conn'[j] = closed[j]
  BY <1>7, <1>9
<1>11. \A d \in Call : /\ call'[d].got = call[d].got
                       /\ call'[d].pc \in OnConnection =>
                             call[d].pc \in OnConnection /\ call'[d].conn = call[d].conn
                       /\ d # c => call'[d] = call[d]
  BY <1>2 DEF MovesTo, OnConnection
<1>12. ASSUME NEW j \in Conns PROVE Drains(j)
  <2>1. CASE j = k
    <3>1. Pending(n) = 0
      BY <1>8, HandlerNames DEF Pending
    <3>2. Flight(n) = 0
      BY <1>8, <3>1 DEF Flight
    <3>3. QED
      BY <1>10, <2>1, <3>2 DEF Drains
  <2>2. CASE j # k
    <3>1. Readers(j)' = Readers(j)
      BY <1>2 DEF Readers, MovesTo
    <3>2. conn[j] \in ConnState /\ conn'[j] \in ConnState /\ conn'[j] = closed[j]
      BY <1>1, <1>10, <2>2
    <3>3. QED
      BY <1>4, <3>1, <3>2, SameMessages
  <2>3. QED
    BY <2>1, <2>2
<1>13. OwnInv'
  BY <1>1, <1>10, <1>11, <1>12, DrainMoves DEF GatewayInv
<1>14. GatewayShapes'
  BY <1>1, <1>2, <1>10 DEF GatewayShapes, MovesTo
<1>15. Fresh'
  <2>1. \A j \in Conns : conn'[j].made = "no" => conn'[j] = Unopened
    BY <1>1, <1>4, <1>8, <1>10 DEF KeptInv, Fresh
  <2>2. \A j \in Conns : conn[j].made # "no" => conn'[j].made # "no"
    BY <1>4, <1>8, <1>10
  <2>3. ASSUME NEW d \in Call, call'[d].pc = "dialled"
        PROVE  call'[d].conn \in Conns /\ conn'[call'[d].conn].made # "no"
    <3>1. CASE d = c
      BY <1>2, <1>8, <1>10, <3>1 DEF MovesTo
    <3>2. CASE d # c
      BY <1>1, <1>11, <2>2, <2>3, <3>2 DEF KeptInv, Fresh
    <3>3. QED
      BY <3>1, <3>2
  <2>4. \A d \in Call : call'[d].pc \in OnConnection => call'[d].conn \in Conns
    BY <1>1, <1>11 DEF KeptInv, Fresh
  <2>5. QED
    BY <2>1, <2>3, <2>4 DEF Fresh
<1>16. EntryIsServed'
  <2>1. ASSUME entry # NoConn PROVE entry \in Conns /\ conn[entry].handler \in {"read"} \cup Call
    BY <1>1, <2>1 DEF KeptInv, EntryIsServed
  <2>2. entry # k
    BY <1>5, <2>1, NoConnIsNone, UnopenedShape, HandlerNames
  <2>3. QED
    BY <1>4, <1>10, <2>1, <2>2 DEF EntryIsServed
<1>17. OneAtATime'
  <2> SUFFICES ASSUME ~raced PROVE OneAtATime'
    BY DEF OneAtATime
  <2>1. OneAtATime
    BY <1>1 DEF KeptInv
  <2>2. \A j \in Conns : Runs(j)' => Runs(j)
    <3>1. ~Runs(k)'
      BY <1>8, <1>10, HandlerNames DEF Runs
    <3>2. \A j \in Conns : j # k => (Runs(j)' <=> Runs(j))
      BY <1>4, <1>10 DEF Runs
    <3>3. QED
      BY <3>1, <3>2
  <2>3. \A d \in Call : call'[d].pc \in {"dial", "dialled"} => call[d].pc \in {"dial", "dialled"}
    BY <1>2 DEF MovesTo
  <2>4. ASSUME NEW j \in Conns, Usable(j)'
        PROVE  entry' = j \/ \E d \in Call : call'[d].pc = "dialled" /\ call'[d].conn = j
    <3>1. CASE j = k
      BY <1>2, <3>1 DEF MovesTo
    <3>2. CASE j # k
      <4>1. Usable(j)
        BY <1>4, <1>10, <2>4, <3>2 DEF Usable
      <4>2. QED
        BY <1>11, <2>1, <4>1 DEF OneAtATime
    <3>3. QED
      BY <3>1, <3>2
  <2>5. QED
    BY <2>1, <2>2, <2>3, <2>4 DEF OneAtATime
<1>18. QED
  BY <1>13, <1>14, <1>15, <1>16, <1>17 DEF GatewayInv, KeptInv

LEMMA OpenMoves == ASSUME GatewayInv, NEW c \in Call, Open(c) PROVE GatewayInv'
<1>1. call[c].pc = "dial" /\ UNCHANGED <<entry, current, shared, raced>>
  BY DEF Open
<1>2. CASE conn' = CloseCurrent /\ End(c, "failed")
  BY <1>1, <1>2, OpenFailsMoves
<1>3. ASSUME NEW k \in Conns, conn[k].made = "no",
             conn' = [CloseCurrent EXCEPT ![k].made = "upgraded", ![k].main = TRUE, ![k].remote = TRUE],
             call' = [call EXCEPT ![c].pc = "dialled", ![c].conn = k]
      PROVE  GatewayInv'
  BY <1>1, <1>3, UpgradeMoves
<1>4. QED
  BY <1>2, <1>3 DEF Open

-----------------------------------------------------------------------------
(* The gateway: restarts                                                   *)

LEMMA CutMoves ==
    ASSUME call \in [Call -> CallState], NEW pcs, Cut(pcs)
    PROVE  /\ call' \in [Call -> CallState]
           /\ \A c \in Call : /\ call'[c].conn = call[c].conn /\ call'[c].got = call[c].got
                              /\ call[c].pc \in pcs => call'[c].pc = "done"
                              /\ call[c].pc \notin pcs => call'[c] = call[c]
<1>1. ASSUME NEW c \in Call
      PROVE  /\ call'[c] \in CallState /\ call'[c].conn = call[c].conn /\ call'[c].got = call[c].got
             /\ call[c].pc \in pcs => call'[c].pc = "done"
             /\ call[c].pc \notin pcs => call'[c] = call[c]
  <2>1. PICK m : m = [call[c] EXCEPT !.pc = "done", !.result = "failed"]
    OBVIOUS
  <2>2. call[c] \in CallState
    OBVIOUS
  <2>3. m \in CallState
    BY <2>1, <2>2 DEF CallState, Result
  <2>4. m.pc = "done" /\ m.conn = call[c].conn /\ m.got = call[c].got
    BY <2>1, <2>2 DEF CallState
  <2>5. call'[c] = IF call[c].pc \in pcs THEN m ELSE call[c]
    BY <2>1 DEF Cut
  <2>6. QED
    BY <2>2, <2>3, <2>4, <2>5
<1>2. call' = [c \in Call |-> call'[c]]
  BY DEF Cut
<1>3. QED
  BY <1>1, <1>2

LEMMA MainRestartsMoves == ASSUME GatewayInv, MainRestarts PROVE GatewayInv'
<1>1. /\ call \in [Call -> CallState] /\ conn \in [Conns -> ConnState] /\ raced \in BOOLEAN /\ KeptInv
      /\ current \in Conns \cup {NoConn} /\ shared \subseteq Call
      /\ entry' = NoConn /\ UNCHANGED <<current, shared, raced>>
  BY DEF GatewayInv, KeptInv, GatewayShapes, MainRestarts
<1>2. /\ call' \in [Call -> CallState]
      /\ \A c \in Call : /\ call'[c].conn = call[c].conn /\ call'[c].got = call[c].got
                         /\ call[c].pc \in {"route", "dial", "dialled"} => call'[c].pc = "done"
                         /\ call[c].pc \notin {"route", "dial", "dialled"} => call'[c] = call[c]
  BY <1>1, CutMoves DEF MainRestarts
<1>3. ASSUME NEW k \in Conns
      PROVE  /\ conn'[k] \in ConnState /\ ~conn'[k].main /\ conn'[k].handler \in {"none", "over"}
             /\ conn'[k].made = conn[k].made /\ conn'[k].remote = conn[k].remote
             /\ conn'[k].reqs = conn[k].reqs /\ conn'[k].resps = conn[k].resps
             /\ conn[k].made = "no" => conn'[k] = Unopened
  <2>1. PICK q : q = conn[k] /\ q \in ConnState
    BY <1>1
  <2>2. PICK h \in {"none", "over"} : h = IF q.handler = "none" THEN q.handler ELSE "over"
    OBVIOUS
  <2>3. conn'[k] = [q EXCEPT !.main = FALSE, !.handler = h]
    BY <2>1, <2>2 DEF MainRestarts
  <2>4. conn'[k] \in ConnState
    BY <2>1, <2>3 DEF ConnState
  <2>5. /\ ~conn'[k].main /\ conn'[k].handler = h /\ conn'[k].made = q.made /\ conn'[k].remote = q.remote
        /\ conn'[k].reqs = q.reqs /\ conn'[k].resps = q.resps
    BY <2>1, <2>3 DEF ConnState
  <2>6. ASSUME q.made = "no" PROVE conn'[k] = Unopened
    <3>1. q = Unopened
      BY <1>1, <2>1, <2>6 DEF KeptInv, Fresh
    <3>2. q.main = FALSE /\ q.handler = h
      BY <2>2, <3>1, UnopenedShape DEF Unopened
    <3>3. [q EXCEPT !.main = FALSE] = q
      BY <2>1, <3>2 DEF ConnState
    <3>4. [q EXCEPT !.handler = h] = q
      BY <2>1, <3>2 DEF ConnState
    <3>5. [q EXCEPT !.main = FALSE, !.handler = h] = [[q EXCEPT !.main = FALSE] EXCEPT !.handler = h]
      OBVIOUS
    <3>6. QED
      BY <2>3, <3>1, <3>3, <3>4, <3>5
  <2>7. QED
    BY <2>1, <2>4, <2>5, <2>6
<1>4. conn' \in [Conns -> ConnState]
  <2>1. conn' = [k \in Conns |-> conn'[k]]
    BY DEF MainRestarts
  <2>2. QED
    BY <1>3, <2>1
<1>5. ASSUME NEW k \in Conns PROVE Drains(k)
  <2>1. Readers(k)' = Readers(k)
    BY <1>2 DEF Readers
  <2>2. conn[k] \in ConnState /\ conn'[k].handler \notin Call
    BY <1>1, <1>3, HandlerNames
  <2>3. QED
    BY <1>3, <2>1, <2>2, SameMessages
<1>6. \A d \in Call : /\ call'[d].got = call[d].got
                      /\ call'[d].pc \in OnConnection =>
                            call[d].pc \in OnConnection /\ call'[d].conn = call[d].conn
                      /\ call'[d].pc \notin {"dial", "dialled"}
  BY <1>2 DEF OnConnection
<1>7. OwnInv'
  BY <1>1, <1>4, <1>5, <1>6, DrainMoves DEF GatewayInv
<1>8. GatewayShapes'
  BY <1>1, <1>2, <1>4 DEF GatewayShapes
<1>9. Fresh'
  BY <1>1, <1>3, <1>6 DEF KeptInv, Fresh
<1>10. EntryIsServed'
  BY <1>1 DEF EntryIsServed
<1>11. OneAtATime'
  <2>1. \A k \in Conns : ~Runs(k)' /\ ~Usable(k)'
    BY <1>3, HandlerNames DEF Runs, Usable
  <2>2. QED
    BY <1>6, <2>1 DEF OneAtATime
<1>12. QED
  BY <1>7, <1>8, <1>9, <1>10, <1>11 DEF GatewayInv, KeptInv

LEMMA RemoteRestartsMoves == ASSUME GatewayInv, RemoteRestarts PROVE GatewayInv'
<1>1. /\ call \in [Call -> CallState] /\ conn \in [Conns -> ConnState] /\ raced \in BOOLEAN /\ KeptInv
      /\ entry \in Conns \cup {NoConn} /\ shared \subseteq Call
      /\ current' = NoConn /\ UNCHANGED <<entry, shared, raced>>
  BY DEF GatewayInv, KeptInv, GatewayShapes, RemoteRestarts
<1>2. /\ call' \in [Call -> CallState]
      /\ \A c \in Call : /\ call'[c].conn = call[c].conn /\ call'[c].got = call[c].got
                         /\ call[c].pc \in {"remote", "write", "writing", "read", "job"} => call'[c].pc = "done"
                         /\ call[c].pc \notin {"remote", "write", "writing", "read", "job"} => call'[c] = call[c]
  BY <1>1, CutMoves DEF RemoteRestarts
<1>3. ASSUME NEW k \in Conns
      PROVE  /\ conn'[k] \in ConnState /\ ~conn'[k].remote
             /\ conn'[k].made = conn[k].made /\ conn'[k].handler = conn[k].handler
             /\ conn[k].made = "no" => conn'[k] = Unopened
  <2>1. PICK q : q = conn[k] /\ q \in ConnState
    BY <1>1
  <2>2. conn'[k] = [q EXCEPT !.remote = FALSE]
    BY <2>1 DEF RemoteRestarts
  <2>3. conn'[k] \in ConnState
    BY <2>1, <2>2 DEF ConnState
  <2>4. ~conn'[k].remote /\ conn'[k].made = q.made /\ conn'[k].handler = q.handler
    BY <2>1, <2>2 DEF ConnState
  <2>5. ASSUME q.made = "no" PROVE conn'[k] = Unopened
    <3>1. q = Unopened
      BY <1>1, <2>1, <2>5 DEF KeptInv, Fresh
    <3>2. q.remote = FALSE
      BY <3>1 DEF Unopened
    <3>3. QED
      BY <2>1, <2>2, <3>1, <3>2 DEF ConnState
  <2>6. QED
    BY <2>1, <2>3, <2>4, <2>5
<1>4. conn' \in [Conns -> ConnState]
  <2>1. conn' = [k \in Conns |-> conn'[k]]
    BY DEF RemoteRestarts
  <2>2. QED
    BY <1>3, <2>1
<1>5. \A k \in Conns : Drains(k)
  BY <1>3 DEF Drains
<1>6. \A d \in Call : /\ call'[d].got = call[d].got
                      /\ call'[d].pc \notin OnConnection
                      /\ call'[d].pc \in {"dial", "dialled"} => call'[d] = call[d]
                      /\ call[d].pc = "dialled" => call'[d] = call[d]
  BY <1>2 DEF OnConnection
<1>7. OwnInv'
  BY <1>1, <1>4, <1>5, <1>6, DrainMoves DEF GatewayInv
<1>8. GatewayShapes'
  BY <1>1, <1>2, <1>4 DEF GatewayShapes
<1>9. Fresh'
  BY <1>1, <1>3, <1>6 DEF KeptInv, Fresh
<1>10. EntryIsServed'
  BY <1>1, <1>3 DEF KeptInv, EntryIsServed
<1>11. OneAtATime'
  <2>1. \A k \in Conns : (Runs(k)' <=> Runs(k)) /\ ~Usable(k)'
    BY <1>3 DEF Runs, Usable
  <2>2. OneAtATime
    BY <1>1 DEF KeptInv
  <2>3. QED
    BY <1>1, <1>6, <2>1, <2>2 DEF OneAtATime
<1>12. QED
  BY <1>7, <1>8, <1>9, <1>10, <1>11 DEF GatewayInv, KeptInv

-----------------------------------------------------------------------------
(* The gateway: the theorems                                               *)

LEMMA GatewayInitInv == GatewayInit => GatewayInv
<1> SUFFICES ASSUME GatewayInit PROVE GatewayInv
  OBVIOUS
<1>1. NewCall \in CallState
  BY DEF NewCall, CallState, Result
<1>2. NewCall.pc = "idle" /\ NewCall.got = NoResponse
  BY DEF NewCall
<1>3. (\A c \in Call : call[c] = NewCall) /\ (\A k \in Conns : conn[k] = Unopened)
  BY DEF GatewayInit
<1>4. GatewayShapes
  BY <1>1, UnopenedShape DEF GatewayInit, GatewayShapes
<1>5. Fresh
  BY <1>2, <1>3 DEF Fresh, OnConnection
<1>6. EntryIsServed
  BY DEF GatewayInit, EntryIsServed
<1>7. OneAtATime
  BY <1>2, <1>3, UnopenedShape, HandlerNames DEF OneAtATime, Runs, Usable
<1>8. \A k \in Conns : Counted(k)
  BY <1>3, UnopenedShape DEF Counted
<1>9. \A c \in Call : Alone(c) /\ GotOwn(c)
  BY <1>2, <1>3 DEF Alone, GotOwn, OnConnection
<1>10. QED
  BY <1>4, <1>5, <1>6, <1>7, <1>8, <1>9 DEF GatewayInv, KeptInv, OwnInv

LEMMA GatewayNextInv == GatewayInv /\ [GatewayNext]_gatewayVars => GatewayInv'
<1> SUFFICES ASSUME GatewayInv, [GatewayNext]_gatewayVars PROVE GatewayInv'
  OBVIOUS
<1>1. ASSUME NEW c \in Call, NEW verdict \in Verdict, Authorize(c, verdict) PROVE GatewayInv'
  BY <1>1, MainCallMoves
<1>2. ASSUME NEW c \in Call, MainPub(c) \/ DialFails(c) \/ Open(c) \/ CallRemote(c) \/ Forward(c) \/ RemotePub(c)
      PROVE  GatewayInv'
  BY <1>2, MainCallMoves, StoreMoves, OpenMoves, NewClientMoves, WriteMoves, WrittenMoves, ReadMoves
     DEF MainPub, RemotePub
<1>3. ASSUME NEW k \in Conns, Handler(k) \/ Adopt(k) \/ Break(k) PROVE GatewayInv'
  BY <1>3, ReceiveMoves, HandlerEndsMoves, AnswerMoves, AdoptMoves, BreakMoves DEF Handler
<1>4. CASE MainRestarts \/ RemoteRestarts
  BY <1>4, MainRestartsMoves, RemoteRestartsMoves
<1>5. CASE UNCHANGED gatewayVars
  <2>1. GatewayShapes' /\ Fresh' /\ EntryIsServed'
    BY <1>5 DEF gatewayVars, GatewayInv, KeptInv, GatewayShapes, Fresh, EntryIsServed
  <2>2. OneAtATime'
    BY <1>5 DEF gatewayVars, GatewayInv, KeptInv, OneAtATime, Runs, Usable
  <2>3. \A k \in Conns : Counted(k)'
    BY <1>5 DEF gatewayVars, GatewayInv, OwnInv, Counted, Readers
  <2>4. \A c \in Call \ shared' : Alone(c)' /\ GotOwn(c)'
    BY <1>5 DEF gatewayVars, GatewayInv, OwnInv, Alone, GotOwn, Using
  <2>5. QED
    BY <2>1, <2>2, <2>3, <2>4 DEF GatewayInv, KeptInv, OwnInv
<1>6. QED
  BY <1>1, <1>2, <1>3, <1>4, <1>5 DEF GatewayNext

LEMMA GatewayInvariance == GatewaySpec => []GatewayInv
BY GatewayInitInv, GatewayNextInv, PTL DEF GatewaySpec

\* The connection that remoteConnections names has a goroutine that reads it,
\* and the main Pub forgets one that works only after two calls dialled at the
\* same time (connectToRemoteWebsocket, handleGatewayWebsocketCalls), whatever
\* breaks or restarts.
THEOREM ConnectionKept == GatewaySpec => []ConnectionIsKept
<1>1. GatewayInv => EntryIsServed
  BY DEF GatewayInv, KeptInv
<1>2. GatewayInv => ForgottenOnlyAfterRace
  <2> SUFFICES ASSUME GatewayInv, entry = NoConn, current # NoConn, Usable(current), ~raced
               PROVE  \E c \in Call : call[c].pc = "dialled" /\ call[c].conn = current
    BY DEF ForgottenOnlyAfterRace
  <2>1. current \in Conns
    BY DEF GatewayInv, KeptInv, GatewayShapes
  <2>2. QED
    BY <2>1, NoConnIsNone DEF GatewayInv, KeptInv, OneAtATime
<1>3. QED
  BY <1>1, <1>2, GatewayInvariance, PTL DEF ConnectionIsKept

\* A call is decided by the answer to its own request, although requests and
\* answers carry no identifier, unless it used the websocket at the same time as
\* another call: no earlier call leaves a message behind on a connection that
\* is still open (AuthorizeCaller, handleGatewayWebsocketCall).
THEOREM AnswerIsOwn == GatewaySpec => []OwnAnswerUnlessShared
<1>1. GatewayInv => OwnAnswerUnlessShared
  BY DEF GatewayInv, OwnInv, GotOwn, OwnAnswerUnlessShared
<1>2. QED
  BY <1>1, GatewayInvariance, PTL

=============================================================================
