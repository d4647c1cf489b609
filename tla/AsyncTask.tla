------------------------------ MODULE AsyncTask ------------------------------
(***************************************************************************)
(* Asynchronous job calls of Pub, the Racetrack gateway (pub/async.go,     *)
(* pub/async_store.go): the life of ONE task across the Pub replicas.      *)
(* Every map of the code is keyed by the task id and no operation relates  *)
(* two ids, so one task shows all there is.                                *)
(*                                                                         *)
(* A task lives in up to three places: the localTasks map of a replica,    *)
(* the record kept by Lifecycle (TaskStorage), and the copies held by      *)
(* goroutines and HTTP handlers.  A "run" is the chain of goroutines       *)
(* handleBackgroundJobCall -> retryJobCall -> handleBackgroundJobCall ...  *)
(* that shares one doneChannel; NewLocalTask starts a new run.  Its fields *)
(* calls, closes and born (the address it was first recorded under) only  *)
(* serve the properties.                                                   *)
(***************************************************************************)
EXTENDS Naturals, FiniteSets

CONSTANTS
    Replica,        \* addresses of the Pub replicas
    NoAddr,         \* the empty PubInstanceAddr
    Client,         \* clients that poll the task
    Kind,           \* the requests they make: "poll", "status"
    Event,          \* what may happen to the system, see AnyEvent
    MaxAttempts,    \* cfg.AsyncMaxAttempts
    MaxRuns,        \* bound: runs started for the task
    MaxFaults       \* bound: crashes, signals, failed or unanswered calls

\* expire: the task outlives cleanUpTimeout; late: replicas serve requests
\* before they know their address; signal: replicas are asked to terminate.
AnyEvent == {"expire", "late", "signal"}

ASSUME ConstantsAssumption ==
    /\ NoAddr \notin Replica
    /\ Kind \subseteq {"poll", "status"}
    /\ Event \subseteq AnyEvent
    /\ MaxAttempts \in Nat \ {0}
    /\ MaxRuns \in Nat \ {0}
    /\ MaxFaults \in Nat

VARIABLES
    local,      \* [Replica -> Rec]: localTasks[id] of each replica
    stored,     \* Rec: the record in Lifecycle's database
    run,        \* [Run -> RunState]: the goroutine chains
    nrun,       \* how many runs have been started
    req,        \* [Client -> Req]: the handler serving each client
    answer,     \* [Client -> Answer]: the client's last poll response
    timers,     \* [Replica -> Nat]: DeleteTask calls waiting to start
    deletes,    \* [Replica -> Nat]: DELETE requests on their way to storage
    proc,       \* [Replica -> ProcState]: the replica's process
    known,      \* replicas that have discovered their MyAddr
    quit,       \* runs whose quitChannel holds a token
    replied,    \* runs whose job call got a response (for the properties)
    sent,       \* clients that a response with the task's result was sent to
    age,        \* old: cleanUpTimeout has passed since StartedAtTimestamp
    faults      \* faults so far

vars == <<local, stored, run, nrun, req, answer, timers, deletes, proc, known,
          quit, replied, sent, age, faults>>

-----------------------------------------------------------------------------
Run == 1..MaxRuns
Addr == Replica \cup {NoAddr}
Status == {"none", "ongoing", "completed", "failed"}

\* The fields of AsyncTask that later steps read.  run stands for the pair of
\* channels; in storage, where channels are not serialised, it says whose
\* result the record holds.
Rec == [status : Status, attempts : Nat, addr : Addr, run : 0..MaxRuns]
NoRec == [status |-> "none", attempts |-> 0, addr |-> NoAddr, run |-> 0]

ProcState == {"up", "stopping", "down"}

\* create: storage.Create pending    call: the HTTP call to the job
\* sleep: before a retry             resave, refail: retryJobCall's UpdateTask
\* save: final UpdateTask            notify: close(doneChannel) pending
\* end: closed                       lost: ended, channel left open
RunPC == {"unused", "create", "call", "sleep", "resave", "refail", "save",
          "notify", "end", "lost"}
RunState == [pc : RunPC, at : Addr, born : Addr, task : Rec, calls : Nat,
             closes : Nat]
UnusedRun == [pc |-> "unused", at |-> NoAddr, born |-> NoAddr, task |-> NoRec,
              calls |-> 0, closes |-> 0]
\* A goroutine that is over leaves nothing but what the properties use.
Over(k, pc) == [run[k] EXCEPT !.pc = pc, !.at = NoAddr, !.task = NoRec]
Alive(k) == run[k].pc \notin {"unused", "end", "lost"}

ReqPC == {"idle", "read", "check", "missing", "retry", "forward", "local",
          "wait"}
Req == [pc : ReqPC, kind : {"poll", "status"}, at : Addr, site : Addr,
        run : 0..MaxRuns, rec : Rec]
Idle == [pc |-> "idle", kind |-> "poll", at |-> NoAddr, site |-> NoAddr,
         run |-> 0, rec |-> NoRec]

\* again: 408, 503, 504, a 500 that is not the task's, or no response at all
Answer == [kind : {"none", "again", "ok", "failed", "gone"}, run : 0..MaxRuns]
NoAnswer == [kind |-> "none", run |-> 0]
Again == [kind |-> "again", run |-> 0]
Gone == [kind |-> "gone", run |-> 0]
Final(c) == answer[c].kind \in {"ok", "failed", "gone"}

Accepted == nrun > 0 /\ run[1].calls > 0

-----------------------------------------------------------------------------
Init ==
    /\ local = [r \in Replica |-> NoRec]
    /\ stored = NoRec
    /\ run = [k \in Run |-> UnusedRun]
    /\ nrun = 0
    /\ req = [c \in Client |-> Idle]
    /\ answer = [c \in Client |-> NoAnswer]
    /\ timers = [r \in Replica |-> 0]
    /\ deletes = [r \in Replica |-> 0]
    /\ proc = [r \in Replica |-> "up"]
    /\ known \in {S \in SUBSET Replica : "late" \in Event \/ S = Replica}
    /\ quit = {}
    /\ replied = {}
    /\ sent = {}
    /\ age = "young"
    /\ faults = 0

\* A failure of the environment, counted against its bound.
Fault == faults < MaxFaults /\ faults' = faults + 1

MyAddr(r) == IF r \in known THEN r ELSE NoAddr

\* replicaDiscovery.refreshAddrs, first run a second after start.
RefreshAddrs(r) ==
    /\ proc[r] # "down" /\ r \notin known
    /\ known' = known \cup {r}
    /\ UNCHANGED <<local, stored, run, nrun, req, answer, timers, deletes,
                   proc, quit, sent, age, faults, replied>>

\* TaskStorage.Create and Update: Lifecycle's save_async_job_call inserts the
\* record when it is missing and overwrites it when it exists. Only the columns
\* that differ from the row as it was read are written, which comes to the same
\* for saves that follow one another; two at once, whose columns could mix, are
\* one after the other here.
SaveStored(t) == stored' = t

\* A storage write may fail or get lost; the callers of Update only log it.
StoreOrFail(t) ==
    \/ SaveStored(t) /\ UNCHANGED faults
    \/ Fault /\ UNCHANGED stored

-----------------------------------------------------------------------------
(* Starting a task *)

\* handleTaskStartRequest up to CreateTask's write to localTasks.
TaskStart(r) ==
    /\ nrun = 0 /\ proc[r] = "up"
    /\ LET t == [status |-> "ongoing", attempts |-> 1, addr |-> MyAddr(r),
                 run |-> 1] IN
       /\ local' = [local EXCEPT ![r] = t]
       /\ run' = [run EXCEPT ![1] = [UnusedRun EXCEPT !.pc = "create",
                                                      !.at = r, !.born = t.addr,
                                                      !.task = t]]
    /\ nrun' = 1
    /\ UNCHANGED <<stored, req, answer, timers, deletes, proc, known, quit,
                   sent, age, faults, replied>>

\* CreateTask's storage.Create, then 201 and the background goroutine; on an
\* error 500, with the local entry left behind and no goroutine.
CreateStored(k) ==
    /\ run[k].pc = "create"
    /\ \/ /\ SaveStored(run[k].task)
          /\ run' = [run EXCEPT ![k].pc = "call", ![k].calls = 1]
          /\ UNCHANGED faults
       \/ /\ Fault
          /\ run' = [run EXCEPT ![k] = Over(k, "lost")]
          /\ UNCHANGED stored
    /\ UNCHANGED <<local, nrun, req, answer, timers, deletes, proc, known,
                   quit, sent, age, replied>>

-----------------------------------------------------------------------------
(* The background goroutine *)

CanBeRetried(t, retriable) ==
    t.attempts < MaxAttempts /\ t.status = "failed" /\ retriable

\* makeJobCall: broken connections, timeouts and 404 are retriable.
Retriable(outcome) == outcome \in {"refused", "timeout", "notfound"}
Outcome == {"reply", "badbody", "refused", "timeout", "notfound"}

\* Mutant: the error of reading the response body is dropped.
CallStatusLax(outcome) ==
    IF outcome \in {"reply", "badbody"} THEN "completed" ELSE "failed"

CallStatus(outcome) == IF outcome = "reply" THEN "completed" ELSE "failed"

\* handleBackgroundJobCall, from the end of makeJobCall to the point where it
\* sleeps before a retry or has written localTasks in UpdateTask.
CallEnds(k, outcome) ==
    /\ run[k].pc = "call"
    /\ LET r == run[k].at
           t == [run[k].task EXCEPT !.status = CallStatus(outcome)]
       IN IF CanBeRetried(t, Retriable(outcome))
          THEN /\ run' = [run EXCEPT ![k].pc = "sleep", ![k].task = t]
               /\ UNCHANGED <<local, replied>>
          ELSE /\ run' = [run EXCEPT ![k].pc = "save", ![k].task = t]
               /\ local' = [local EXCEPT ![r] = t]
               /\ replied' = IF outcome = "reply" THEN replied \cup {k}
                                                  ELSE replied
    /\ UNCHANGED <<stored, nrun, req, answer, timers, deletes, proc, known,
                   quit, sent, age, faults>>

\* UpdateTask's storage write.
Save(k) ==
    /\ run[k].pc = "save"
    /\ StoreOrFail(run[k].task)
    /\ run' = [run EXCEPT ![k].pc = "notify"]
    /\ UNCHANGED <<local, nrun, req, answer, timers, deletes, proc, known,
                   quit, sent, age, replied>>

\* Mutant: the channel is left open.
ClosedRunForgotten(k) == Over(k, "end")

ClosedRun(k) == [Over(k, "end") EXCEPT !.closes = @ + 1]

\* The non-blocking send on doneChannel and close(doneChannel).
Notify(k) ==
    /\ run[k].pc = "notify"
    /\ run' = [run EXCEPT ![k] = ClosedRun(k)]
    /\ UNCHANGED <<local, stored, nrun, req, answer, timers, deletes, proc,
                   known, quit, sent, age, faults, replied>>

\* retryJobCall's new task value: ongoing here, failed when getJobDetails fails.
RetriedTask(t, r, found) ==
    [t EXCEPT !.attempts = @ + 1, !.addr = MyAddr(r),
              !.status = IF found = "yes" THEN "ongoing" ELSE "failed"]

\* Mutant: no return after retryJobCall, the goroutine closes the channel.
RetryingRunFallsThrough(k, t, found) ==
    [run[k] EXCEPT !.pc = IF found = "yes" THEN "resave" ELSE "refail",
                   !.task = t, !.closes = @ + 1]

RetryingRun(k, t, found) ==
    [run[k] EXCEPT !.pc = IF found = "yes" THEN "resave" ELSE "refail",
                   !.task = t]

\* retryJobCall from the goroutine, up to UpdateTask's local write.
Retry(k) ==
    /\ run[k].pc = "sleep"
    /\ \E found \in {"yes", "no"} :
         LET t == RetriedTask(run[k].task, run[k].at, found) IN
         /\ IF found = "yes" THEN UNCHANGED faults ELSE Fault
         /\ local' = [local EXCEPT ![run[k].at] = t]
         /\ run' = [run EXCEPT ![k] = RetryingRun(k, t, found)]
    /\ UNCHANGED <<stored, nrun, req, answer, timers, deletes, proc, known,
                   quit, sent, age, replied>>

\* Mutant: the retry records the task as ongoing and starts no goroutine.
CallingRunForgotten(k) == Over(k, "lost")

CallingRun(k) == [run[k] EXCEPT !.pc = "call", !.calls = @ + 1]

\* The rest of retryJobCall: UpdateTask's storage write, then either the new
\* goroutine or the error.  A handler that made the call (retryTaskIfMissing)
\* goes on to poll locally, reports the status, or answers 500.
Resave(k) ==
    /\ run[k].pc \in {"resave", "refail"}
    /\ StoreOrFail(run[k].task)
    /\ LET ok == run[k].pc = "resave"
           waits(c) == req[c].pc = "retry" /\ req[c].run = k
       IN /\ run' = [run EXCEPT ![k] = IF ok THEN CallingRun(k)
                                             ELSE Over(k, "lost")]
          /\ req' = [c \in Client |->
                       IF ~waits(c) THEN req[c]
                       ELSE IF ok /\ req[c].kind = "poll"
                            THEN [req[c] EXCEPT !.pc = "local", !.run = 0]
                            ELSE Idle]
          /\ answer' = [c \in Client |->
                          IF waits(c) /\ ~ok /\ req[c].kind = "poll"
                          THEN Again ELSE answer[c]]
    /\ UNCHANGED <<local, nrun, timers, deletes, proc, known, quit, sent,
                   replied, age>>

-----------------------------------------------------------------------------
(* Polling for the result and checking the status *)

\* The handler ends; a poll's response reaches the client as a.
Reply(c, a) ==
    /\ req' = [req EXCEPT ![c] = Idle]
    /\ answer' = IF req[c].kind = "poll" THEN [answer EXCEPT ![c] = a]
                                         ELSE answer

\* respondTaskResult for a finished task on replica r: the response, which
\* the connection may lose, and the goroutine that deletes the task later.
RespondTaskResult(c, r, t) ==
    /\ timers' = [timers EXCEPT ![r] = @ + 1]
    /\ sent' = sent \cup {c}
    /\ \/ /\ Reply(c, [kind |-> IF t.status = "completed" THEN "ok"
                                                          ELSE "failed",
                       run |-> t.run])
          /\ UNCHANGED faults
       \/ Fault /\ Reply(c, Again)

\* TaskPollEndpoint or TaskStatusEndpoint up to GetLocalTask.
Request(c, r, kind) ==
    /\ Accepted /\ proc[r] = "up"
    /\ req[c].pc = "idle" /\ ~Final(c)
    /\ LET here == local[r].status # "none" IN
       IF here /\ kind = "status"
       THEN UNCHANGED req
       ELSE req' = [req EXCEPT ![c] =
                      [Idle EXCEPT !.pc = IF here THEN "local" ELSE "read",
                                   !.kind = kind, !.at = r, !.site = r]]
    /\ UNCHANGED <<local, stored, run, nrun, answer, timers, deletes, proc,
                   known, quit, sent, age, faults, replied>>

\* GetStoredTask: not found, an error, a finished task, or one to look for.
ReadStored(c) ==
    /\ req[c].pc = "read"
    /\ \/ /\ stored.status = "none"
          /\ Reply(c, Gone)
          /\ UNCHANGED <<timers, sent, faults>>
       \/ /\ Fault
          /\ Reply(c, Again)
          /\ UNCHANGED <<timers, sent>>
       \/ /\ stored.status \in {"completed", "failed"}
          /\ IF req[c].kind = "poll"
             THEN RespondTaskResult(c, req[c].at, stored)
             ELSE Reply(c, Again) /\ UNCHANGED <<timers, sent, faults>>
       \/ /\ stored.status = "ongoing"
          /\ req' = [req EXCEPT ![c].pc = "check", ![c].rec = stored]
          /\ UNCHANGED <<answer, timers, sent, faults>>
    /\ UNCHANGED <<local, stored, run, nrun, deletes, proc, known, quit, age,
                   replied>>

\* Mutant: the check asks the replica that serves the poll.
AskedReplicaSelf(c) == req[c].at

\* isTaskMissing asks the replica named in the record, itself if none is.
AskedReplica(c) ==
    IF req[c].rec.addr = NoAddr THEN req[c].at ELSE req[c].rec.addr

\* isTaskMissing: a record that names the asking replica, whose localTasks had
\* no entry, is missing without asking anybody.
ClaimedByMe(c) ==
    req[c].rec.addr # NoAddr /\ req[c].rec.addr = MyAddr(req[c].at)

\* isTaskMissing with checkTaskStatusInReplica; no answer counts as missing.
Check(c) ==
    /\ req[c].pc = "check"
    /\ \/ /\ \/ ClaimedByMe(c)
             \/ proc[AskedReplica(c)] # "up"
             \/ local[AskedReplica(c)].status = "none"
          /\ req' = [req EXCEPT ![c].pc = "missing"]
          /\ UNCHANGED <<answer, faults>>
       \/ /\ ~ClaimedByMe(c) /\ Fault
          /\ req' = [req EXCEPT ![c].pc = "missing"]
          /\ UNCHANGED answer
       \/ /\ ~ClaimedByMe(c)
          /\ proc[AskedReplica(c)] = "up"
          /\ local[AskedReplica(c)].status # "none"
          /\ IF req[c].kind = "poll"
             THEN /\ req' = [req EXCEPT ![c].pc = "forward",
                                        ![c].site = AskedReplica(c),
                                        ![c].rec = NoRec]
                  /\ UNCHANGED answer
             ELSE Reply(c, Again)
          /\ UNCHANGED faults
    /\ UNCHANGED <<local, stored, run, nrun, timers, deletes, proc, known,
                   quit, sent, age, replied>>

\* retryTaskIfMissing: retryJobCall on the handler's copy, which NewLocalTask
\* gave channels of its own, up to UpdateTask's local write.
RetryMissing(c) ==
    /\ req[c].pc = "missing"
    /\ nrun < MaxRuns
    /\ \E found \in {"yes", "no"} :
         LET r == req[c].at
             k == nrun + 1
             t == [RetriedTask(req[c].rec, r, found) EXCEPT !.run = k]
         IN /\ IF found = "yes" THEN UNCHANGED faults ELSE Fault
            /\ local' = [local EXCEPT ![r] = t]
            /\ run' = [run EXCEPT ![k] =
                         [UnusedRun EXCEPT
                            !.pc = IF found = "yes" THEN "resave" ELSE "refail",
                            !.at = r, !.born = t.addr, !.task = t]]
            /\ nrun' = k
            /\ req' = [req EXCEPT ![c].pc = "retry", ![c].run = k,
                                  ![c].rec = NoRec]
    /\ UNCHANGED <<stored, answer, timers, deletes, proc, known, quit, sent,
                   age, replied>>

\* forwardTaskPollToReplica: the connection to the owner, 503 without one.
Forward(c) ==
    /\ req[c].pc = "forward"
    /\ \/ /\ proc[req[c].site] = "up"
          /\ req' = [req EXCEPT ![c].pc = "local"]
          /\ UNCHANGED <<answer, faults>>
       \/ /\ proc[req[c].site] # "up"
          /\ Reply(c, Again)
          /\ UNCHANGED faults
       \/ Fault /\ Reply(c, Again)
    /\ UNCHANGED <<local, stored, run, nrun, timers, deletes, proc, known,
                   quit, sent, age, replied>>

\* LocalTaskPollEndpoint up to its select.
LocalPoll(c) ==
    /\ req[c].pc = "local"
    /\ LET t == local[req[c].site] IN
       \/ /\ t.status = "none"
          /\ Reply(c, Gone)
          /\ UNCHANGED <<timers, sent, faults>>
       \/ /\ t.status \in {"completed", "failed"}
          /\ RespondTaskResult(c, req[c].site, t)
       \/ /\ t.status = "ongoing"
          /\ req' = [req EXCEPT ![c].pc = "wait", ![c].run = t.run]
          /\ UNCHANGED <<answer, timers, sent, faults>>
    /\ UNCHANGED <<local, stored, run, nrun, deletes, proc, known, quit, age,
                   replied>>

\* Mutant: a timed out poll schedules the deletion of an unfinished task.
RereadDeletes(c) ==
    LET t == local[req[c].site] IN
    IF t.status \in {"none", "ongoing"}
    THEN /\ Reply(c, Again)
         /\ timers' = [timers EXCEPT ![req[c].site] = @ + 1]
         /\ UNCHANGED <<sent, faults>>
    ELSE RespondTaskResult(c, req[c].site, t)

\* LocalTaskPollEndpoint after its select: the task is read again.
Reread(c) ==
    LET t == local[req[c].site] IN
    IF t.status \in {"none", "ongoing"}
    THEN Reply(c, Again) /\ UNCHANGED <<timers, sent, faults>>
    ELSE RespondTaskResult(c, req[c].site, t)

\* case <-task.doneChannel
WakeDone(c) ==
    /\ req[c].pc = "wait" /\ run[req[c].run].closes > 0
    /\ Reread(c)
    /\ UNCHANGED <<local, stored, run, nrun, deletes, proc, known, quit, age,
                   replied>>

\* case <-time.After(longPollTimeout)
WakeTimeout(c) ==
    /\ req[c].pc = "wait"
    /\ Reread(c)
    /\ UNCHANGED <<local, stored, run, nrun, deletes, proc, known, quit, age,
                   replied>>

\* case <-task.quitChannel takes the token; case <-c.Request.Context().Done()
WakeQuit(c) ==
    /\ req[c].pc = "wait"
    /\ \/ req[c].run \in quit /\ quit' = quit \ {req[c].run}
       \/ UNCHANGED quit
    /\ Reply(c, Again)
    /\ UNCHANGED <<local, stored, run, nrun, timers, deletes, proc, known,
                   sent, age, faults, replied>>

-----------------------------------------------------------------------------
(* Deletion *)

\* DeleteTask: the local entry first ...
DeleteLocal(r) ==
    /\ timers[r] > 0 /\ proc[r] # "down"
    /\ timers' = [timers EXCEPT ![r] = @ - 1]
    /\ local' = [local EXCEPT ![r] = NoRec]
    /\ deletes' = [deletes EXCEPT ![r] = @ + 1]
    /\ UNCHANGED <<stored, run, nrun, req, answer, proc, known, quit, sent,
                   age, faults, replied>>

\* ... then the record in storage (an error is logged).
DeleteStored(r) ==
    /\ deletes[r] > 0 /\ proc[r] # "down"
    /\ deletes' = [deletes EXCEPT ![r] = @ - 1]
    /\ StoreOrFail(NoRec)
    /\ UNCHANGED <<local, run, nrun, req, answer, timers, proc, known, quit,
                   sent, age, replied>>

\* 125 minutes after the start.  A first attempt is over by then: the HTTP
\* client gives a call 120 minutes.  A retry may still be running.
Expire ==
    /\ "expire" \in Event /\ Accepted /\ age = "young"
    /\ \A k \in Run : Alive(k) => run[k].task.attempts > 1
    /\ age' = "old"
    /\ UNCHANGED <<local, stored, run, nrun, req, answer, timers, deletes,
                   proc, known, quit, sent, faults, replied>>

\* cleanUpRoutine on one replica: drops the entry and starts a DeleteTask.
CleanUp(r) ==
    /\ age = "old" /\ local[r].status # "none"
    /\ local' = [local EXCEPT ![r] = NoRec]
    /\ timers' = [timers EXCEPT ![r] = @ + 1]
    /\ UNCHANGED <<stored, run, nrun, req, answer, deletes, proc, known, quit,
                   sent, age, faults, replied>>

\* Mutant: records of tasks that never finished are kept.
CleanUpStoredFinished ==
    /\ age = "old" /\ stored.status \in {"completed", "failed"}
    /\ stored' = NoRec
    /\ UNCHANGED <<local, run, nrun, req, answer, timers, deletes, proc, known,
                   quit, sent, age, faults, replied>>

\* clean_up_async_job_calls of the Lifecycle supervisor.
CleanUpStored ==
    /\ age = "old" /\ stored.status # "none"
    /\ stored' = NoRec
    /\ UNCHANGED <<local, run, nrun, req, answer, timers, deletes, proc, known,
                   quit, sent, age, faults, replied>>

-----------------------------------------------------------------------------
(* Termination and restart of a replica *)

\* SIGTERM: CancelOngoingRequests puts a token in the task's quitChannel and
\* server.Shutdown closes the listener.
Terminate(r) ==
    /\ "signal" \in Event /\ proc[r] = "up" /\ Fault
    /\ proc' = [proc EXCEPT ![r] = "stopping"]
    /\ quit' = IF local[r].status = "none" THEN quit
                                           ELSE quit \cup {local[r].run}
    /\ UNCHANGED <<local, stored, run, nrun, req, answer, timers, deletes,
                   known, sent, age, replied>>

\* The process ends, after a signal or by a crash: memory, goroutines and
\* connections are gone, and it discovers its address again, before the first
\* request or later.
Exit(r) ==
    /\ \/ proc[r] = "stopping" /\ UNCHANGED faults
       \/ proc[r] = "up" /\ Fault
    /\ proc' = [proc EXCEPT ![r] = "down"]
    /\ local' = [local EXCEPT ![r] = NoRec]
    /\ \/ UNCHANGED known
       \/ "late" \in Event /\ known' = known \ {r}
    /\ timers' = [timers EXCEPT ![r] = 0]
    /\ deletes' = [deletes EXCEPT ![r] = 0]
    /\ run' = [k \in Run |-> IF run[k].at = r /\ Alive(k)
                             THEN Over(k, "lost") ELSE run[k]]
    /\ quit' = {k \in quit : run[k].at # r}
    /\ LET hit(c) == \/ req[c].at = r
                     \/ req[c].site = r /\ req[c].pc \in {"local", "wait"} IN
       /\ req' = [c \in Client |-> IF hit(c) THEN Idle ELSE req[c]]
       /\ answer' = [c \in Client |->
                       IF hit(c) /\ req[c].kind = "poll" THEN Again
                                                         ELSE answer[c]]
    /\ UNCHANGED <<stored, nrun, sent, age, replied>>

\* NewAsyncTaskStore: an empty map; the address is discovered later.
Restart(r) ==
    /\ proc[r] = "down"
    /\ proc' = [proc EXCEPT ![r] = "up"]
    /\ UNCHANGED <<local, stored, run, nrun, req, answer, timers, deletes,
                   known, quit, sent, age, faults, replied>>

-----------------------------------------------------------------------------
RunStep(k) ==
    \/ CreateStored(k)
    \/ \E o \in Outcome : CallEnds(k, o)
    \/ Save(k) \/ Notify(k) \/ Retry(k) \/ Resave(k)

\* What a handler does by itself, without a timeout or a signal.
HandlerStep(c) ==
    \/ ReadStored(c) \/ Check(c) \/ RetryMissing(c) \/ Forward(c)
    \/ LocalPoll(c) \/ WakeDone(c)

ClientStep(c) == \E r \in Replica, kind \in Kind :
                     Request(c, r, kind)

ReplicaStep(r) ==
    \/ RefreshAddrs(r) \/ TaskStart(r) \/ DeleteLocal(r) \/ DeleteStored(r)
    \/ CleanUp(r) \/ Terminate(r) \/ Exit(r) \/ Restart(r)

Next ==
    \/ \E r \in Replica : ReplicaStep(r)
    \/ \E k \in Run : RunStep(k)
    \/ \E c \in Client : \/ ClientStep(c) \/ HandlerStep(c)
                         \/ WakeTimeout(c) \/ WakeQuit(c)
    \/ Expire \/ CleanUpStored

Spec == Init /\ [][Next]_vars

-----------------------------------------------------------------------------
(* Properties *)

\* The copies of the task, the goroutine chains and the handlers have the shapes
\* that async.go and async_store.go give them.
TypeOK ==
    /\ local \in [Replica -> Rec]
    /\ stored \in Rec
    /\ run \in [Run -> RunState]
    /\ nrun \in 0..MaxRuns
    /\ req \in [Client -> Req]
    /\ answer \in [Client -> Answer]
    /\ timers \in [Replica -> Nat]
    /\ deletes \in [Replica -> Nat]
    /\ proc \in [Replica -> ProcState]
    /\ known \subseteq Replica
    /\ quit \subseteq 0..MaxRuns
    /\ replied \subseteq Run
    /\ sent \subseteq Client
    /\ age \in {"young", "old"}
    /\ faults \in 0..MaxFaults

\* A client that is told the task has completed gets the response of a call
\* that a job really answered (handleBackgroundJobCall sets Completed only
\* when makeJobCall returned no error), whichever copy of the task, local,
\* stored or forwarded, the poll was answered from.
AnswerIsGenuine ==
    \A c \in Client : answer[c].kind = "ok" => answer[c].run \in replied

\* close(doneChannel) is executed at most once per channel, although the copies
\* of a task and its retries share the channel: a second close panics and
\* takes the whole replica down.
ChannelClosedOnce == \A k \in Run : run[k].closes <= 1

\* A handler waiting in LocalTaskPollEndpoint is not waiting in vain: the
\* goroutine that will close its channel still runs on that replica, or the
\* channel is closed, or (when a retry could not get the job's details) the
\* entry that it reads again at the time-out is no longer the ongoing one.
WaiterIsServed ==
    \A c \in Client : req[c].pc = "wait" =>
        LET k == req[c].run
            t == local[req[c].site] IN
        \/ run[k].closes > 0
        \/ Alive(k) /\ run[k].at = req[c].site
        \/ run[k].pc = "lost" /\ (t.status # "ongoing" \/ t.run # k)

Executing(k) == run[k].pc \in {"call", "sleep", "resave"}

\* Two goroutine chains work on the same task at a time only after something
\* failed: a crash, an unanswered status check, a lost storage write, a record
\* that outlived cleanUpTimeout, or a task started before the replica learned
\* its own address (isTaskMissing treats all of these as a missing task).
\* Or its result was sent already and the local entry deleted, while a write to
\* storage was still pending or other handlers still held the record: they find
\* the task missing and start it over, but no longer next to the first run.
DuplicateHasCause ==
    \A i, j \in Run : i # j /\ Executing(i) /\ Executing(j) =>
        \/ faults > 0
        \/ age = "old"
        \/ \E k \in Run : run[k].pc # "unused" /\ run[k].born = NoAddr
        \/ sent # {} /\ 1 \notin {i, j}

\* A task that was accepted stays in storage until a response with its result
\* has been sent or its lifetime is over: crashes, restarts, retries and lost
\* writes never lose it.
KeptUntilAnswered ==
    Accepted /\ stored.status = "none" => sent # {} \/ age = "old"

\* docs/user/async-job-calls.md: after a lost connection "the client can simply
\* resend the request without any loss, as the final result can still be
\* retrieved using the task's ID".  So before the task's lifetime is over
\* nobody is told that it is gone unless some client has received its result.
NothingLost ==
    (\E c \in Client : answer[c].kind = "gone") /\ age = "young" =>
        \E c \in Client : answer[c].kind \in {"ok", "failed"}

\* Fairness: goroutines and handlers run, the long poll times out, replicas
\* are restarted by their deployment and discover their address, a process
\* that got a signal exits, and clients keep polling.
Fairness ==
    /\ \A k \in Run : WF_vars(RunStep(k))
    /\ \A c \in Client : /\ WF_vars(HandlerStep(c))
                          /\ WF_vars(WakeTimeout(c))
                          /\ WF_vars(\E r \in Replica : Request(c, r, "poll"))
    /\ \A r \in Replica : WF_vars(Exit(r) /\ proc[r] = "stopping")
                           /\ WF_vars(Restart(r)) /\ WF_vars(RefreshAddrs(r))

FairSpec == Spec /\ Fairness

\* The routines that clean up run again and again, and what they start goes on.
CleanUpFairness ==
    /\ WF_vars(CleanUpStored)
    /\ \A r \in Replica : /\ WF_vars(CleanUp(r)) /\ WF_vars(DeleteLocal(r))
                           /\ WF_vars(DeleteStored(r))

CleanUpSpec == Spec /\ Fairness /\ CleanUpFairness

\* Whatever happens to a task, and although UpdateTask of a call still running
\* brings a deleted record back, after its lifetime it is in the end gone from
\* the memory of all replicas and from the database, for good.
ExpiredIsRemoved ==
    age = "old" ~> [](stored.status = "none"
                  /\ \A r \in Replica : local[r].status = "none")

\* Every client that keeps polling an accepted task gets a final answer in the
\* end, although replicas crash, storage writes get lost and status checks
\* time out in between.
PollerIsAnswered ==
    \A c \in Client : Accepted ~> Final(c)

\* The task as its clients may rely on it.
Service == INSTANCE TaskService WITH
    accepted <- Accepted,
    replies <- replied

\* Under all retries, copies and crashes the clients see the service that
\* TaskService describes.
ImplementsService == Service!Spec

=============================================================================
