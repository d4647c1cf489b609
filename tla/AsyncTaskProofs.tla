-------------------------- MODULE AsyncTaskProofs --------------------------
(* Theorems about AsyncTask, for any replicas, clients and bounds. *)
EXTENDS AsyncTask, TLAPS

\* The records of a task that the actions build.
LEMMA RecFacts ==
  /\ NoRec \in Rec
  /\ \A t \in Rec, s \in Status : [t EXCEPT !.status = s] \in Rec
  /\ \A t \in Rec : /\ t.status \in Status /\ t.attempts \in Nat
                    /\ t.addr \in Addr /\ t.run \in 0..MaxRuns
  BY ConstantsAssumption DEF Rec, NoRec, Status, Addr

\* The fields of a goroutine chain.
LEMMA RunFields ==
  ASSUME NEW u \in RunState
  PROVE  /\ u.at \in Addr /\ u.task \in Rec /\ u.pc \in RunPC
         /\ u.calls \in Nat /\ u.closes \in Nat /\ u.born \in Addr
  BY DEF RunState

\* What the actions do to a goroutine chain keeps its shape.
LEMMA RunFacts ==
  ASSUME NEW u \in RunState, NEW t \in Rec, NEW p \in RunPC
  PROVE  /\ [u EXCEPT !.pc = p] \in RunState
         /\ [u EXCEPT !.pc = p, !.task = t] \in RunState
         /\ [u EXCEPT !.pc = p, !.at = NoAddr, !.task = NoRec] \in RunState
  BY RecFacts DEF RunState, Addr

\* Type correctness of the initial states.
LEMMA TypeInit == Init => TypeOK
<1> SUFFICES ASSUME Init PROVE TypeOK OBVIOUS
<1> USE ConstantsAssumption, RecFacts
<1>1. UnusedRun \in RunState BY DEF UnusedRun, RunState, RunPC, Addr
<1>2. Idle \in Req BY DEF Idle, Req, ReqPC, Addr
<1>3. NoAnswer \in Answer BY DEF NoAnswer, Answer
<1>4. known \subseteq Replica BY DEF Init
<1>5. /\ local \in [Replica -> Rec] /\ stored \in Rec
      /\ timers \in [Replica -> Nat] /\ deletes \in [Replica -> Nat]
      /\ proc \in [Replica -> ProcState]
  BY DEF Init, ProcState
<1>6. /\ run \in [Run -> RunState] /\ req \in [Client -> Req]
      /\ answer \in [Client -> Answer]
  BY <1>1, <1>2, <1>3 DEF Init
<1>7. /\ nrun \in 0..MaxRuns /\ faults \in 0..MaxFaults /\ quit \subseteq 0..MaxRuns
      /\ replied \subseteq Run
      /\ sent \subseteq Client /\ age \in {"young", "old"}
  BY DEF Init
<1> QED BY <1>4, <1>5, <1>6, <1>7 DEF TypeOK

\* The count of faults stays within its bound.
LEMMA FaultType ==
  ASSUME TypeOK, Fault \/ UNCHANGED faults
  PROVE  faults' \in 0..MaxFaults
<1>1. faults \in 0..MaxFaults BY DEF TypeOK
<1>2. QED BY <1>1, ConstantsAssumption DEF Fault

\* UpdateTask's storage write leaves a record of a task in storage.
LEMMA StoreType ==
  ASSUME TypeOK, NEW t \in Rec, StoreOrFail(t)
  PROVE  stored' \in Rec /\ faults' \in 0..MaxFaults
<1>1. stored' \in Rec BY DEF TypeOK, StoreOrFail, SaveStored
<1>2. QED BY <1>1, FaultType DEF StoreOrFail

\* The task that retryJobCall prepares is a record of a task.
LEMMA RetriedTaskType ==
  ASSUME TypeOK, NEW t \in Rec, NEW r, NEW found \in {"yes", "no"}
  PROVE  RetriedTask(t, r, found) \in Rec
<1>1. MyAddr(r) \in Addr BY DEF TypeOK, MyAddr, Addr
<1>2. (IF found = "yes" THEN "ongoing" ELSE "failed") \in Status BY DEF Status
<1>3. t.attempts + 1 \in Nat BY RecFacts
<1>4. \A n \in Nat, a \in Addr, st \in Status :
        [t EXCEPT !.attempts = n, !.addr = a, !.status = st] \in Rec
  BY DEF Rec
<1>5. QED BY <1>1, <1>2, <1>3, <1>4 DEF RetriedTask

\* The handlers and the answers that the actions build.
LEMMA ReqFacts ==
  /\ Idle \in Req /\ NoAnswer \in Answer /\ Again \in Answer /\ Gone \in Answer
  /\ \A q \in Req : /\ q.pc \in ReqPC /\ q.kind \in {"poll", "status"}
                     /\ q.at \in Addr /\ q.site \in Addr
                     /\ q.run \in 0..MaxRuns /\ q.rec \in Rec
  /\ \A q \in Req, p \in ReqPC : [q EXCEPT !.pc = p] \in Req
  /\ \A q \in Req, p \in ReqPC, n \in 0..MaxRuns :
        [q EXCEPT !.pc = p, !.run = n] \in Req
  /\ \A q \in Req, p \in ReqPC, n \in 0..MaxRuns, t \in Rec :
        [q EXCEPT !.pc = p, !.run = n, !.rec = t] \in Req
  /\ \A q \in Req, p \in ReqPC, t \in Rec : [q EXCEPT !.pc = p, !.rec = t] \in Req
  /\ \A q \in Req, p \in ReqPC, a \in Addr, t \in Rec :
        [q EXCEPT !.pc = p, !.site = a, !.rec = t] \in Req
  /\ \A q \in Req, p \in ReqPC, kd \in {"poll", "status"}, a, b \in Addr :
        [q EXCEPT !.pc = p, !.kind = kd, !.at = a, !.site = b] \in Req
<1> USE ConstantsAssumption, RecFacts
<1>1. Idle \in Req BY DEF Idle, Req, ReqPC, Addr
<1>2. NoAnswer \in Answer /\ Again \in Answer /\ Gone \in Answer
  BY DEF NoAnswer, Again, Gone, Answer
<1>3. QED BY <1>1, <1>2 DEF Req

\* A reply to a client keeps handlers and answers in their shapes.
LEMMA ReplyType ==
  ASSUME TypeOK, NEW c \in Client, NEW a \in Answer, Reply(c, a)
  PROVE  req' \in [Client -> Req] /\ answer' \in [Client -> Answer]
  BY ReqFacts DEF TypeOK, Reply

\* So does respondTaskResult, which also schedules a deletion.
LEMMA RespondType ==
  ASSUME TypeOK, NEW c \in Client, NEW r \in Replica, NEW t \in Rec,
         RespondTaskResult(c, r, t)
  PROVE  /\ req' \in [Client -> Req] /\ answer' \in [Client -> Answer]
         /\ timers' \in [Replica -> Nat] /\ sent' \subseteq Client
         /\ faults' \in 0..MaxFaults
<1> DEFINE a == [kind |-> IF t.status = "completed" THEN "ok" ELSE "failed",
                 run |-> t.run]
<1>1. a \in Answer BY RecFacts DEF Answer
<1>2. Again \in Answer BY ReqFacts
<1>3. Reply(c, a) \/ Reply(c, Again) BY DEF RespondTaskResult
<1>4. req' \in [Client -> Req] /\ answer' \in [Client -> Answer]
  BY <1>1, <1>2, <1>3, ReplyType
<1>5. timers' \in [Replica -> Nat] /\ sent' \subseteq Client
  <2>1. timers \in [Replica -> Nat] /\ sent \subseteq Client BY DEF TypeOK
  <2>2. timers' = [timers EXCEPT ![r] = timers[r] + 1] /\ sent' = sent \cup {c}
    BY DEF RespondTaskResult
  <2>3. QED BY <2>1, <2>2
<1>6. faults' \in 0..MaxFaults
  <2>1. Fault \/ UNCHANGED faults BY DEF RespondTaskResult
  <2>2. QED BY <2>1, FaultType
<1>7. QED BY <1>4, <1>5, <1>6

\* Steps of handleBackgroundJobCall and retryJobCall keep the types.
LEMMA TypeRun ==
  ASSUME TypeOK, NEW k \in Run, RunStep(k)
  PROVE  TypeOK'
<1> USE ConstantsAssumption
<1>0. /\ run \in [Run -> RunState] /\ run[k] \in RunState /\ run[k].task \in Rec
      /\ NoRec \in Rec
  BY RecFacts, RunFields DEF TypeOK
<1>1. CASE CreateStored(k)
  <2>1. [run EXCEPT ![k].pc = "call", ![k].calls = 1] \in [Run -> RunState]
    BY <1>0 DEF RunState, RunPC
  <2>2. Over(k, "lost") \in RunState
    BY <1>0, RunFacts DEF Over, RunPC
  <2>3. run' \in [Run -> RunState]
    BY <1>0, <1>1, <2>1, <2>2 DEF CreateStored
  <2>4. stored' \in Rec /\ faults' \in 0..MaxFaults
    BY <1>0, <1>1 DEF TypeOK, CreateStored, SaveStored, Fault
  <2>5. QED BY <1>1, <2>3, <2>4 DEF TypeOK, CreateStored
<1>2. ASSUME NEW o \in Outcome, CallEnds(k, o) PROVE TypeOK'
  <2> DEFINE t == [run[k].task EXCEPT !.status = CallStatus(o)]
  <2>1. t \in Rec
    BY <1>0, RecFacts DEF CallStatus, Status
  <2>2. \A p \in RunPC : [run EXCEPT ![k].pc = p, ![k].task = t]
                           \in [Run -> RunState]
    BY <1>0, <2>1, RunFacts
  <2>3. run' \in [Run -> RunState]
    BY <1>2, <2>2 DEF CallEnds, RunPC
  <2>4. local' \in [Replica -> Rec]
    BY <1>2, <2>1 DEF TypeOK, CallEnds
  <2>5. replied' \subseteq Run
    BY <1>2 DEF TypeOK, CallEnds
  <2>6. QED BY <1>2, <2>3, <2>4, <2>5 DEF TypeOK, CallEnds
<1>3. CASE Save(k)
  <2>1. run' \in [Run -> RunState]
    BY <1>0, <1>3, RunFacts DEF Save, RunPC
  <2>2. stored' \in Rec /\ faults' \in 0..MaxFaults
    BY <1>0, <1>3, StoreType DEF Save
  <2>3. QED BY <1>3, <2>1, <2>2 DEF TypeOK, Save
<1>4. CASE Notify(k)
  <2>1. Over(k, "end") \in RunState
    BY <1>0, RunFacts DEF Over, RunPC
  <2>2. ClosedRun(k) \in RunState
    BY <2>1 DEF ClosedRun, RunState
  <2>3. QED BY <1>0, <1>4, <2>2 DEF TypeOK, Notify
<1>5. CASE Retry(k)
  <2>1. PICK found \in {"yes", "no"} :
          LET t == RetriedTask(run[k].task, run[k].at, found) IN
          /\ IF found = "yes" THEN UNCHANGED faults ELSE Fault
          /\ local' = [local EXCEPT ![run[k].at] = t]
          /\ run' = [run EXCEPT ![k] = RetryingRun(k, t, found)]
    BY <1>5 DEF Retry
  <2> DEFINE t == RetriedTask(run[k].task, run[k].at, found)
  <2>2. t \in Rec
    BY <1>0, RetriedTaskType
  <2>3. RetryingRun(k, t, found) \in RunState
    BY <1>0, <2>2, RunFacts DEF RetryingRun, RunPC
  <2>4. run' \in [Run -> RunState] /\ local' \in [Replica -> Rec]
    BY <1>0, <2>1, <2>2, <2>3 DEF TypeOK
  <2>5. faults' \in 0..MaxFaults
    BY <2>1, FaultType
  <2>6. QED BY <1>5, <2>4, <2>5 DEF TypeOK, Retry
<1>6. CASE Resave(k)
  <2>1. Over(k, "lost") \in RunState
    BY <1>0, RunFacts DEF Over, RunPC
  <2>2. CallingRun(k) \in RunState
    <3>1. run[k].calls + 1 \in Nat BY <1>0, RunFields
    <3>2. \A n \in Nat : [run[k] EXCEPT !.pc = "call", !.calls = n] \in RunState
      BY <1>0 DEF RunState, RunPC
    <3>3. QED BY <3>1, <3>2 DEF CallingRun
  <2>3. run' \in [Run -> RunState]
    BY <1>0, <1>6, <2>1, <2>2 DEF Resave
  <2>4. stored' \in Rec /\ faults' \in 0..MaxFaults
    BY <1>0, <1>6, StoreType DEF Resave
  <2>5. req' \in [Client -> Req] /\ answer' \in [Client -> Answer]
    <3>0. "local" \in ReqPC /\ 0 \in 0..MaxRuns
      BY ConstantsAssumption DEF ReqPC
    <3>1. \A c \in Client : [req[c] EXCEPT !.pc = "local", !.run = 0] \in Req
      BY <3>0, ReqFacts DEF TypeOK
    <3>2. Idle \in Req /\ Again \in Answer BY ReqFacts
    <3>3. QED BY <1>6, <3>1, <3>2 DEF TypeOK, Resave
  <2>6. QED BY <1>6, <2>3, <2>4, <2>5 DEF TypeOK, Resave
<1>7. QED BY <1>1, <1>2, <1>3, <1>4, <1>5, <1>6 DEF RunStep

\* So does a request of a client,
LEMMA TypeClient ==
  ASSUME TypeOK, NEW c \in Client, ClientStep(c)
  PROVE  TypeOK'
<1>1. PICK r \in Replica, kind \in Kind : Request(c, r, kind)
  BY DEF ClientStep
<1>2. \A p \in ReqPC : [Idle EXCEPT !.pc = p, !.kind = kind, !.at = r, !.site = r]
                        \in Req
  BY ReqFacts, ConstantsAssumption DEF Addr
<1>3. req' \in [Client -> Req]
  BY <1>1, <1>2 DEF TypeOK, Request, ReqPC
<1>4. QED BY <1>1, <1>3 DEF TypeOK, Request

\* A handler at work runs on a replica, and waits on one.
PlaceOK == \A c \in Client : req[c].pc # "idle" =>
               req[c].at \in Replica /\ req[c].site \in Replica

\* every step of a poll or status handler,
LEMMA TypeHandler ==
  ASSUME TypeOK, PlaceOK, NEW c \in Client,
         HandlerStep(c) \/ WakeTimeout(c) \/ WakeQuit(c)
  PROVE  TypeOK'
<1>0. /\ req[c] \in Req /\ req[c].at \in Addr /\ req[c].site \in Addr
      /\ req[c].rec \in Rec /\ Gone \in Answer /\ Again \in Answer /\ NoRec \in Rec
      /\ stored \in Rec
  BY ReqFacts, RecFacts DEF TypeOK
<1>a. req[c].pc # "idle" => /\ req[c].at \in Replica /\ req[c].site \in Replica
                            /\ local[req[c].site] \in Rec
  BY DEF TypeOK, PlaceOK
<1>1. CASE ReadStored(c)
  <2>1. [req EXCEPT ![c].pc = "check", ![c].rec = stored] \in [Client -> Req]
    BY <1>0, ReqFacts DEF TypeOK, ReqPC
  <2>2. req' \in [Client -> Req] /\ answer' \in [Client -> Answer]
    BY <1>0, <1>a, <1>1, <2>1, ReplyType, RespondType DEF TypeOK, ReadStored
  <2>3. /\ timers' \in [Replica -> Nat] /\ sent' \subseteq Client
        /\ faults' \in 0..MaxFaults
    BY <1>0, <1>a, <1>1, RespondType, FaultType DEF TypeOK, ReadStored
  <2>4. QED BY <1>1, <2>2, <2>3 DEF TypeOK, ReadStored
<1>2. CASE Check(c)
  <2>1. AskedReplica(c) \in Addr
    BY <1>0, RecFacts DEF AskedReplica
  <2>2. [req EXCEPT ![c].pc = "missing"] \in [Client -> Req]
    BY <1>0, ReqFacts DEF TypeOK, ReqPC
  <2>3. [req EXCEPT ![c].pc = "forward", ![c].site = AskedReplica(c),
                    ![c].rec = NoRec] \in [Client -> Req]
    BY <1>0, <2>1, ReqFacts DEF TypeOK, ReqPC
  <2>4. req' \in [Client -> Req] /\ answer' \in [Client -> Answer]
    BY <1>0, <1>2, <2>2, <2>3, ReplyType DEF TypeOK, Check
  <2>5. faults' \in 0..MaxFaults
    BY <1>2, FaultType DEF Check
  <2>6. QED BY <1>2, <2>4, <2>5 DEF TypeOK, Check
<1>3. CASE RetryMissing(c)
  <2> DEFINE r == req[c].at
             k == nrun + 1
  <2>1. k \in Run /\ k \in 0..MaxRuns
    BY <1>3, ConstantsAssumption DEF TypeOK, RetryMissing, Run
  <2>2. PICK found \in {"yes", "no"} :
          LET t == [RetriedTask(req[c].rec, r, found) EXCEPT !.run = k]
          IN /\ IF found = "yes" THEN UNCHANGED faults ELSE Fault
             /\ local' = [local EXCEPT ![r] = t]
             /\ run' = [run EXCEPT ![k] =
                          [UnusedRun EXCEPT
                             !.pc = IF found = "yes" THEN "resave" ELSE "refail",
                             !.at = r, !.born = t.addr, !.task = t]]
             /\ nrun' = k
             /\ req' = [req EXCEPT ![c].pc = "retry", ![c].run = k,
                                   ![c].rec = NoRec]
    BY <1>3 DEF RetryMissing
  <2> DEFINE t == [RetriedTask(req[c].rec, r, found) EXCEPT !.run = k]
             p == IF found = "yes" THEN "resave" ELSE "refail"
  <2> HIDE DEF k
  <2>3. t \in Rec
    BY <1>0, <2>1, RetriedTaskType DEF Rec
  <2>4. [UnusedRun EXCEPT !.pc = p, !.at = r, !.born = t.addr, !.task = t]
          \in RunState
    <3>1. p \in RunPC BY DEF RunPC
    <3>2. t.addr \in Addr BY <2>3, RecFacts
    <3> HIDE DEF p, t
    <3>3. UnusedRun \in RunState
      BY RecFacts DEF UnusedRun, RunState, RunPC, Addr
    <3>4. QED BY <1>0, <2>3, <3>1, <3>2, <3>3 DEF RunState
  <2>5. [req EXCEPT ![c].pc = "retry", ![c].run = k, ![c].rec = NoRec]
          \in [Client -> Req]
    BY <1>0, <2>1, ReqFacts DEF TypeOK, ReqPC
  <2>6. local' \in [Replica -> Rec] /\ run' \in [Run -> RunState]
    BY <2>2, <2>3, <2>4 DEF TypeOK
  <2>7. nrun' \in 0..MaxRuns /\ req' \in [Client -> Req]
    BY <2>1, <2>2, <2>5
  <2>8. faults' \in 0..MaxFaults
    BY <2>2, FaultType
  <2>9. QED BY <1>3, <2>6, <2>7, <2>8 DEF TypeOK, RetryMissing
<1>4. CASE Forward(c)
  <2>1. [req EXCEPT ![c].pc = "local"] \in [Client -> Req]
    BY <1>0, ReqFacts DEF TypeOK, ReqPC
  <2>2. req' \in [Client -> Req] /\ answer' \in [Client -> Answer]
    BY <1>0, <1>4, <2>1, ReplyType DEF TypeOK, Forward
  <2>3. faults' \in 0..MaxFaults
    BY <1>4, FaultType DEF Forward
  <2>4. QED BY <1>4, <2>2, <2>3 DEF TypeOK, Forward
<1>5. CASE LocalPoll(c)
  <2>1. CASE local[req[c].site].status = "none"
    <3>1. req' \in [Client -> Req] /\ answer' \in [Client -> Answer]
      BY <1>0, <1>5, <2>1, ReplyType DEF LocalPoll
    <3>2. QED BY <1>5, <2>1, <3>1 DEF TypeOK, LocalPoll
  <2>2. CASE local[req[c].site].status = "ongoing"
    <3>1. local[req[c].site].run \in 0..MaxRuns
      BY <1>a, <1>5, RecFacts DEF LocalPoll
    <3>2. [req EXCEPT ![c].pc = "wait", ![c].run = local[req[c].site].run]
            \in [Client -> Req]
      BY <1>0, <3>1, ReqFacts DEF TypeOK, ReqPC
    <3>3. QED BY <1>5, <2>2, <3>2 DEF TypeOK, LocalPoll
  <2>3. CASE local[req[c].site].status \in {"completed", "failed"}
    <3>1. RespondTaskResult(c, req[c].site, local[req[c].site])
      BY <1>5, <2>3 DEF LocalPoll
    <3>2. QED BY <1>a, <1>5, <3>1, RespondType DEF TypeOK, LocalPoll
  <2>4. QED BY <1>5, <2>1, <2>2, <2>3 DEF LocalPoll
<1>6. CASE WakeDone(c) \/ WakeTimeout(c)
  <2>1. Reread(c) /\ req[c].pc = "wait"
    BY <1>6 DEF WakeDone, WakeTimeout
  <2>2. CASE local[req[c].site].status \in {"none", "ongoing"}
    <3>1. req' \in [Client -> Req] /\ answer' \in [Client -> Answer]
      BY <1>0, <2>1, <2>2, ReplyType DEF Reread
    <3>2. QED BY <1>6, <2>1, <2>2, <3>1
              DEF TypeOK, WakeDone, WakeTimeout, Reread
  <2>3. CASE local[req[c].site].status \notin {"none", "ongoing"}
    <3>1. RespondTaskResult(c, req[c].site, local[req[c].site])
      BY <2>1, <2>3 DEF Reread
    <3>2. QED BY <1>a, <1>6, <2>1, <3>1, RespondType
              DEF TypeOK, WakeDone, WakeTimeout
  <2>4. QED BY <2>2, <2>3
<1>7. CASE WakeQuit(c)
  <2>1. req' \in [Client -> Req] /\ answer' \in [Client -> Answer]
    BY <1>0, <1>7, ReplyType DEF WakeQuit
  <2>2. QED BY <1>7, <2>1 DEF TypeOK, WakeQuit
<1>8. QED BY <1>1, <1>2, <1>3, <1>4, <1>5, <1>6, <1>7 DEF HandlerStep

\* and every step of a replica's process and of its routines.
LEMMA TypeReplica ==
  ASSUME TypeOK, NEW r \in Replica, ReplicaStep(r)
  PROVE  TypeOK'
<1> USE ConstantsAssumption
<1>0. NoRec \in Rec /\ local[r] \in Rec /\ local[r].run \in 0..MaxRuns
  BY RecFacts DEF TypeOK
<1>1. CASE RefreshAddrs(r)
  BY <1>1 DEF TypeOK, RefreshAddrs
<1>2. CASE TaskStart(r)
  <2> DEFINE t == [status |-> "ongoing", attempts |-> 1, addr |-> MyAddr(r),
                   run |-> 1]
             u == [UnusedRun EXCEPT !.pc = "create", !.at = r, !.born = t.addr,
                                    !.task = t]
  <2>1. MyAddr(r) \in Addr BY DEF TypeOK, MyAddr, Addr
  <2>2. t \in Rec BY <2>1 DEF Rec, Status
  <2>3. t.addr \in Addr BY <2>1
  <2> HIDE DEF t
  <2>4. u \in RunState
    BY <1>0, <2>2, <2>3 DEF UnusedRun, RunState, RunPC, Addr
  <2> HIDE DEF u
  <2>5. local' = [local EXCEPT ![r] = t] /\ run' = [run EXCEPT ![1] = u]
    BY <1>2 DEF TaskStart, t, u
  <2>6. local' \in [Replica -> Rec] /\ run' \in [Run -> RunState]
    BY <2>2, <2>4, <2>5 DEF TypeOK
  <2>7. nrun' \in 0..MaxRuns BY <1>2 DEF TaskStart
  <2>8. QED BY <1>2, <2>6, <2>7 DEF TypeOK, TaskStart
<1>3. CASE DeleteLocal(r)
  <2>1. /\ timers \in [Replica -> Nat] /\ deletes \in [Replica -> Nat]
        /\ local \in [Replica -> Rec]
    BY DEF TypeOK
  <2>2. /\ timers' \in [Replica -> Nat] /\ deletes' \in [Replica -> Nat]
        /\ local' \in [Replica -> Rec]
    BY <1>0, <1>3, <2>1 DEF DeleteLocal
  <2>3. QED BY <1>3, <2>2 DEF TypeOK, DeleteLocal
<1>4. CASE DeleteStored(r)
  <2>1. deletes' \in [Replica -> Nat]
    BY <1>4 DEF TypeOK, DeleteStored
  <2>2. stored' \in Rec /\ faults' \in 0..MaxFaults
    BY <1>0, <1>4, StoreType DEF DeleteStored
  <2>3. QED BY <1>4, <2>1, <2>2 DEF TypeOK, DeleteStored
<1>5. CASE CleanUp(r)
  <2>1. timers' \in [Replica -> Nat] /\ local' \in [Replica -> Rec]
    BY <1>0, <1>5 DEF TypeOK, CleanUp
  <2>2. QED BY <1>5, <2>1 DEF TypeOK, CleanUp
<1>6. CASE Terminate(r)
  <2>1. proc' \in [Replica -> ProcState] /\ quit' \subseteq 0..MaxRuns
    BY <1>0, <1>6 DEF TypeOK, Terminate, ProcState
  <2>2. faults' \in 0..MaxFaults BY <1>6, FaultType DEF Terminate
  <2>3. QED BY <1>6, <2>1, <2>2 DEF TypeOK, Terminate
<1>7. CASE Exit(r)
  <2>1. \A k \in Run : Over(k, "lost") \in RunState
    BY <1>0, RunFacts DEF TypeOK, Over, RunPC
  <2>2. run' \in [Run -> RunState]
    BY <1>7, <2>1 DEF TypeOK, Exit
  <2>3. req' \in [Client -> Req] /\ answer' \in [Client -> Answer]
    BY <1>7, ReqFacts DEF TypeOK, Exit
  <2>4. /\ proc' \in [Replica -> ProcState] /\ local' \in [Replica -> Rec]
        /\ timers' \in [Replica -> Nat] /\ deletes' \in [Replica -> Nat]
    BY <1>0, <1>7 DEF TypeOK, Exit, ProcState
  <2>5. known' \subseteq Replica /\ quit' \subseteq 0..MaxRuns
    BY <1>7 DEF TypeOK, Exit
  <2>6. faults' \in 0..MaxFaults BY <1>7, FaultType DEF Exit
  <2>7. QED BY <1>7, <2>2, <2>3, <2>4, <2>5, <2>6 DEF TypeOK, Exit
<1>8. CASE Restart(r)
  BY <1>8 DEF TypeOK, Restart, ProcState
<1>9. QED
  BY <1>1, <1>2, <1>3, <1>4, <1>5, <1>6, <1>7, <1>8 DEF ReplicaStep

\* Handlers are started on a replica, and forwarded to one.
LEMMA PlaceStep ==
  ASSUME TypeOK, PlaceOK, Next
  PROVE  PlaceOK'
<1> SUFFICES ASSUME NEW c \in Client, req'[c].pc # "idle"
             PROVE  req'[c].at \in Replica /\ req'[c].site \in Replica
  BY DEF PlaceOK
<1>0. req \in [Client -> Req] /\ Idle.pc = "idle"
  BY DEF TypeOK, Idle
<1>1. CASE req'[c] = req[c]
  BY <1>1 DEF PlaceOK
<1>2. CASE \E b \in Client : ClientStep(b)
  <2>1. PICK b \in Client, r \in Replica, kind \in Kind : Request(b, r, kind)
    BY <1>2 DEF ClientStep
  <2>2. \A p : [Idle EXCEPT !.pc = p, !.kind = kind, !.at = r, !.site = r].at = r
    BY DEF Idle
  <2>3. \A p : [Idle EXCEPT !.pc = p, !.kind = kind, !.at = r, !.site = r].site
               = r
    BY DEF Idle
  <2>4. CASE b = c
    <3> DEFINE p == IF local[r].status # "none" THEN "local" ELSE "read"
               q == [Idle EXCEPT !.pc = p, !.kind = kind, !.at = r, !.site = r]
    <3>1. UNCHANGED req \/ req' = [req EXCEPT ![b] = q]
      BY <2>1 DEF Request
    <3>2. q.at = r /\ q.site = r BY <2>2, <2>3
    <3> HIDE DEF q
    <3>3. QED BY <1>0, <1>1, <2>4, <3>1, <3>2
  <2>5. CASE b # c
    BY <1>0, <1>1, <2>1, <2>5 DEF Request
  <2>6. QED BY <2>4, <2>5
<1>3. CASE \E b \in Client : HandlerStep(b) \/ WakeTimeout(b) \/ WakeQuit(b)
  <2>1. PICK b \in Client : HandlerStep(b) \/ WakeTimeout(b) \/ WakeQuit(b)
    BY <1>3
  <2> SUFFICES ASSUME req'[c] # req[c] PROVE req'[c].at \in Replica
                                            /\ req'[c].site \in Replica
    BY <1>1
  <2>2. \A a : Reply(b, a) => req' = [req EXCEPT ![b] = Idle]
    BY DEF Reply
  <2>3. \A r, t : RespondTaskResult(b, r, t) => req' = [req EXCEPT ![b] = Idle]
    BY <2>2 DEF RespondTaskResult
  <2>4. CASE ReadStored(b)
    BY <1>0, <2>2, <2>3, <2>4 DEF ReadStored, PlaceOK, Req
  <2>5. CASE Check(b)
    <3>1. AskedReplica(b) \in Replica
      BY <1>0, <2>5, RecFacts DEF Check, AskedReplica, PlaceOK, Req, Addr
    <3>2. QED BY <1>0, <2>2, <2>5, <3>1 DEF Check, PlaceOK, Req
  <2>6. CASE RetryMissing(b)
    BY <1>0, <2>6 DEF RetryMissing, PlaceOK, Req
  <2>7. CASE Forward(b)
    BY <1>0, <2>2, <2>7 DEF Forward, PlaceOK, Req
  <2>8. CASE LocalPoll(b)
    BY <1>0, <2>2, <2>3, <2>8 DEF LocalPoll, PlaceOK, Req
  <2>9. CASE WakeDone(b) \/ WakeTimeout(b)
    BY <1>0, <2>2, <2>3, <2>9 DEF WakeDone, WakeTimeout, Reread, PlaceOK
  <2>10. CASE WakeQuit(b)
    BY <1>0, <2>2, <2>10 DEF WakeQuit, PlaceOK
  <2>11. QED
    BY <2>1, <2>4, <2>5, <2>6, <2>7, <2>8, <2>9, <2>10 DEF HandlerStep
<1>4. CASE \E k \in Run : RunStep(k)
  <2>1. PICK k \in Run : RunStep(k) BY <1>4
  <2>2. CASE Resave(k)
    BY <1>0, <2>2 DEF Resave, PlaceOK, Req
  <2>3. CASE ~Resave(k)
    BY <1>1, <2>1, <2>3 DEF RunStep, CreateStored, CallEnds, Save, Notify, Retry
  <2>4. QED BY <2>2, <2>3
<1>5. CASE \E r \in Replica : ReplicaStep(r)
  <2>1. PICK r \in Replica : ReplicaStep(r) BY <1>5
  <2>2. CASE Exit(r)
    BY <1>0, <1>1, <2>2 DEF Exit
  <2>3. CASE ~Exit(r)
    BY <1>1, <2>1, <2>3 DEF ReplicaStep, RefreshAddrs, TaskStart, DeleteLocal,
       DeleteStored, CleanUp, Terminate, Restart
  <2>4. QED BY <2>2, <2>3
<1>6. CASE Expire \/ CleanUpStored
  BY <1>1, <1>6 DEF Expire, CleanUpStored
<1>7. QED BY <1>2, <1>3, <1>4, <1>5, <1>6 DEF Next

\* Every step of the system keeps the types and the places.
LEMMA TypeStep == TypeOK /\ PlaceOK /\ [Next]_vars => TypeOK' /\ PlaceOK'
<1> SUFFICES ASSUME TypeOK, PlaceOK, [Next]_vars PROVE TypeOK' /\ PlaceOK'
  OBVIOUS
<1>1. CASE UNCHANGED vars
  BY <1>1 DEF vars, TypeOK, PlaceOK
<1>2. CASE Next
  <2>1. CASE Expire \/ CleanUpStored
    <3>1. stored' \in Rec /\ age' \in {"young", "old"}
      BY <2>1, RecFacts DEF TypeOK, Expire, CleanUpStored
    <3>2. QED BY <2>1, <3>1, <1>2, PlaceStep
              DEF TypeOK, Expire, CleanUpStored
  <2>2. TypeOK'
    BY <1>2, <2>1, TypeRun, TypeClient, TypeHandler, TypeReplica DEF Next
  <2>3. QED BY <1>2, <2>2, PlaceStep
<1>3. QED BY <1>1, <1>2

\* Type correctness of AsyncTask: every copy of the task, every goroutine and
\* every handler keeps its shape, the deletion counters stay natural numbers.
THEOREM TypeCorrect == Spec => []TypeOK
<1> DEFINE Inv == TypeOK /\ PlaceOK
<1>1. Init => Inv
  BY TypeInit DEF Init, PlaceOK, Idle
<1>2. Inv /\ [Next]_vars => Inv'
  BY TypeStep
<1>3. QED BY <1>1, <1>2, PTL DEF Spec

-----------------------------------------------------------------------------
(* close(doneChannel) *)

\* Stronger than ChannelClosedOnce, and inductive: the channel is closed by the
\* step that ends the run, so a run still at work has an open channel.
ClosedAtEnd ==
    \A k \in Run : run[k].closes = IF run[k].pc = "end" THEN 1 ELSE 0

\* A step closes the channel of a chain only at the end of the chain.
LEMMA ClosedStep ==
  ASSUME TypeOK, ClosedAtEnd, Next
  PROVE  ClosedAtEnd'
<1> SUFFICES ASSUME NEW j \in Run
             PROVE  run'[j].closes = IF run'[j].pc = "end" THEN 1 ELSE 0
  BY DEF ClosedAtEnd
<1>0. /\ run \in [Run -> RunState] /\ run[j] \in RunState
      /\ run[j].closes = IF run[j].pc = "end" THEN 1 ELSE 0
  BY DEF TypeOK, ClosedAtEnd
<1>1. CASE UNCHANGED run
  BY <1>0, <1>1
<1>2. CASE \E k \in Run : RunStep(k)
  <2>1. PICK k \in Run : RunStep(k) BY <1>2
  <2>2. CASE j # k
    BY <1>0, <2>1, <2>2 DEF RunStep, CreateStored, CallEnds, Save, Notify,
       Retry, Resave
  <2>3. CASE j = k
    <3>1. CASE CreateStored(k)
      <4>1. run[j].closes = 0 /\ run[j].pc = "create"
        BY <1>0, <2>3, <3>1 DEF CreateStored
      <4>2. run'[j].closes = 0 /\ run'[j].pc \in {"call", "lost"}
        <5>1. CASE run' = [run EXCEPT ![k].pc = "call", ![k].calls = 1]
          BY <1>0, <2>3, <4>1, <5>1 DEF RunState
        <5>2. CASE run' = [run EXCEPT ![k] = Over(k, "lost")]
          BY <1>0, <2>3, <4>1, <5>2 DEF RunState, Over
        <5>3. QED BY <3>1, <5>1, <5>2 DEF CreateStored
      <4>3. QED BY <4>2
    <3>2. ASSUME NEW o \in Outcome, CallEnds(k, o)
          PROVE  run'[j].closes = IF run'[j].pc = "end" THEN 1 ELSE 0
      BY <1>0, <2>3, <3>2 DEF CallEnds, RunState
    <3>3. CASE Save(k)
      BY <1>0, <2>3, <3>3 DEF Save, RunState
    <3>4. CASE Notify(k)
      BY <1>0, <2>3, <3>4 DEF Notify, ClosedRun, Over, RunState
    <3>5. CASE Retry(k)
      BY <1>0, <2>3, <3>5 DEF Retry, RetryingRun, RunState
    <3>6. CASE Resave(k)
      BY <1>0, <2>3, <3>6 DEF Resave, CallingRun, Over, RunState
    <3>7. QED BY <2>1, <3>1, <3>2, <3>3, <3>4, <3>5, <3>6 DEF RunStep
  <2>4. QED BY <2>2, <2>3
<1>3. CASE \E c \in Client : \/ ClientStep(c) \/ HandlerStep(c)
                             \/ WakeTimeout(c) \/ WakeQuit(c)
  <2>1. CASE \E c \in Client : RetryMissing(c)
    BY <1>0, <2>1 DEF RetryMissing, UnusedRun
  <2>2. CASE ~ \E c \in Client : RetryMissing(c)
    <3>1. UNCHANGED run
      BY <1>3, <2>2 DEF ClientStep, Request, HandlerStep, ReadStored, Check,
         Forward, LocalPoll, WakeDone, WakeTimeout, WakeQuit
    <3>2. QED BY <1>1, <3>1
  <2>3. QED BY <2>1, <2>2
<1>4. CASE \E r \in Replica : ReplicaStep(r)
  <2>1. PICK r \in Replica : ReplicaStep(r) BY <1>4
  <2>2. CASE TaskStart(r)
    BY <1>0, <2>2 DEF TaskStart, UnusedRun
  <2>3. CASE Exit(r)
    BY <1>0, <2>3 DEF Exit, Over, Alive, RunState
  <2>4. CASE ~TaskStart(r) /\ ~Exit(r)
    BY <1>1, <2>1, <2>4 DEF ReplicaStep, RefreshAddrs, DeleteLocal,
       DeleteStored, CleanUp, Terminate, Restart
  <2>5. QED BY <2>2, <2>3, <2>4
<1>5. CASE Expire \/ CleanUpStored
  BY <1>1, <1>5 DEF Expire, CleanUpStored
<1>6. QED BY <1>2, <1>3, <1>4, <1>5 DEF Next

\* No doneChannel is ever closed twice, for any number of retries, copies,
\* handlers and crashes: Pub does not panic in handleBackgroundJobCall.
THEOREM ClosedOnce == Spec => []ChannelClosedOnce
<1> DEFINE Inv == TypeOK /\ PlaceOK /\ ClosedAtEnd
<1>1. Init => Inv
  BY TypeInit DEF Init, PlaceOK, ClosedAtEnd, Idle, UnusedRun
<1>2. Inv /\ [Next]_vars => Inv'
  <2> SUFFICES ASSUME TypeOK, PlaceOK, ClosedAtEnd, [Next]_vars PROVE Inv'
    OBVIOUS
  <2>1. CASE UNCHANGED vars
    BY <2>1, TypeStep DEF vars, ClosedAtEnd
  <2>2. CASE Next
    BY <2>2, TypeStep, ClosedStep
  <2>3. QED BY <2>1, <2>2
<1>3. Inv => ChannelClosedOnce
  BY DEF ClosedAtEnd, ChannelClosedOnce
<1>4. QED BY <1>1, <1>2, <1>3, PTL DEF Spec

-----------------------------------------------------------------------------
(* Where answers come from *)

\* A copy of the task that says "completed" names a run whose call the job
\* answered.
Genuine(t) == t.status = "completed" => t.run \in replied

\* Stronger than AnswerIsGenuine, and inductive: every copy an answer may be
\* taken from is genuine, and a run works on a task of its own.
GenuineInv ==
    /\ \A r \in Replica : Genuine(local[r])
    /\ Genuine(stored)
    /\ \A k \in Run : /\ Genuine(run[k].task)
                      /\ Alive(k) => run[k].task.run = k
    /\ AnswerIsGenuine

\* No record claims no result.
LEMMA NoRecGenuine == Genuine(NoRec)
  BY DEF Genuine, NoRec

\* A task prepared for a retry is ongoing, so it claims no result.
LEMMA RetriedGenuine ==
  ASSUME TypeOK, NEW t \in Rec, NEW r, NEW found \in {"yes", "no"}
  PROVE  /\ RetriedTask(t, r, found).status # "completed"
         /\ RetriedTask(t, r, found).run = t.run
  BY DEF RetriedTask, Rec

\* Steps of the goroutine chains only record results they got.
LEMMA GenuineRun ==
  ASSUME TypeOK, GenuineInv, NEW k \in Run, RunStep(k)
  PROVE  GenuineInv'
<1> USE ConstantsAssumption
<1>0. /\ run \in [Run -> RunState] /\ run[k] \in RunState
      /\ run[k].task \in Rec /\ local \in [Replica -> Rec]
      /\ Genuine(run[k].task) /\ answer \in [Client -> Answer]
      /\ replied \subseteq Run
  BY RunFields DEF TypeOK, GenuineInv
<1>1. CASE CreateStored(k)
  <2>1. stored' \in {stored, run[k].task}
    BY <1>1 DEF CreateStored, SaveStored
  <2>2. \/ run' = [run EXCEPT ![k].pc = "call", ![k].calls = 1]
        \/ run' = [run EXCEPT ![k] = Over(k, "lost")]
    BY <1>1 DEF CreateStored
  <2>3. ASSUME NEW j \in Run
        PROVE  /\ run'[j].task \in {run[j].task, NoRec}
               /\ Alive(j)' => run'[j].task = run[j].task /\ Alive(j)
    <3>1. Alive(k) BY <1>1 DEF CreateStored, Alive
    <3>2. CASE run' = [run EXCEPT ![k].pc = "call", ![k].calls = 1]
      BY <1>0, <3>1, <3>2 DEF Alive, RunState
    <3>3. CASE run' = [run EXCEPT ![k] = Over(k, "lost")]
      BY <1>0, <3>1, <3>3 DEF Over, Alive, RunState
    <3>4. QED BY <2>2, <3>2, <3>3
  <2>4. UNCHANGED <<local, replied, answer>>
    BY <1>1 DEF CreateStored
  <2>5. QED BY <1>0, <2>1, <2>3, <2>4, NoRecGenuine
            DEF GenuineInv, Genuine, AnswerIsGenuine
<1>2. ASSUME NEW o \in Outcome, CallEnds(k, o)
      PROVE  GenuineInv'
  <2> DEFINE t == [run[k].task EXCEPT !.status = CallStatus(o)]
  <2>1. CallStatus(o) \in Status /\ t \in Rec
    BY <1>0, RecFacts DEF CallStatus, Status
  <2>2. t.status = CallStatus(o) /\ t.run = run[k].task.run
    BY <1>0 DEF Rec
  <2>3. Alive(k) /\ run[k].task.run = k
    BY <1>2 DEF CallEnds, Alive, GenuineInv
  <2>4. replied \subseteq replied' /\ (t.status = "completed" => k \in replied')
    BY <1>2, <2>2 DEF CallEnds, CallStatus, CanBeRetried
  <2>5. t.run = k BY <2>2, <2>3
  <2>6. local' \in {local, [local EXCEPT ![run[k].at] = t]}
    BY <1>2 DEF CallEnds
  <2>7. /\ run'[k].task = t
        /\ \A j \in Run \ {k} : run'[j] = run[j]
    BY <1>0, <1>2, <2>1 DEF CallEnds, RunState
  <2>8. UNCHANGED <<stored, answer>>
    BY <1>2 DEF CallEnds
  <2> HIDE DEF t
  <2>9. \A r \in Replica : Genuine(local[r])'
    BY <1>0, <2>4, <2>5, <2>6 DEF GenuineInv, Genuine
  <2>10. \A j \in Run : Genuine(run[j].task)' /\ (Alive(j)' => run'[j].task.run = j)
    BY <2>4, <2>5, <2>7 DEF GenuineInv, Genuine, Alive
  <2>11. QED BY <2>4, <2>8, <2>9, <2>10 DEF GenuineInv, Genuine, AnswerIsGenuine
<1>3. CASE Save(k)
  <2>1. stored' \in {stored, run[k].task}
    BY <1>3 DEF Save, StoreOrFail, SaveStored
  <2>2. ASSUME NEW j \in Run
        PROVE  run'[j].task = run[j].task /\ (Alive(j)' => Alive(j))
    BY <1>0, <1>3 DEF Save, Alive, RunState
  <2>3. UNCHANGED <<local, replied, answer>>
    BY <1>3 DEF Save
  <2>4. QED BY <1>0, <2>1, <2>2, <2>3 DEF GenuineInv, Genuine, AnswerIsGenuine
<1>4. CASE Notify(k)
  <2>1. ASSUME NEW j \in Run
        PROVE  /\ run'[j].task \in {run[j].task, NoRec}
               /\ Alive(j)' => run'[j].task = run[j].task /\ Alive(j)
    BY <1>0, <1>4 DEF Notify, ClosedRun, Over, Alive, RunState
  <2>2. UNCHANGED <<local, stored, replied, answer>>
    BY <1>4 DEF Notify
  <2>3. QED BY <2>1, <2>2, NoRecGenuine DEF GenuineInv, Genuine, AnswerIsGenuine
<1>5. CASE Retry(k)
  <2>1. PICK found \in {"yes", "no"} :
          LET t == RetriedTask(run[k].task, run[k].at, found) IN
          /\ local' = [local EXCEPT ![run[k].at] = t]
          /\ run' = [run EXCEPT ![k] = RetryingRun(k, t, found)]
    BY <1>5 DEF Retry
  <2> DEFINE t == RetriedTask(run[k].task, run[k].at, found)
  <2>2. t.status # "completed" /\ t.run = run[k].task.run /\ t \in Rec
    BY <1>0, RetriedGenuine, RetriedTaskType
  <2>3. run[k].task.run = k
    BY <1>5 DEF Retry, Alive, GenuineInv
  <2>4. local' = [local EXCEPT ![run[k].at] = t] BY <2>1
  <2>5. run' = [run EXCEPT ![k] = RetryingRun(k, t, found)] BY <2>1
  <2> HIDE DEF t
  <2>6. run'[k].task = t /\ \A j \in Run \ {k} : run'[j] = run[j]
    BY <1>0, <2>2, <2>5 DEF RetryingRun, RunState
  <2>7. UNCHANGED <<stored, replied, answer>>
    BY <1>5 DEF Retry
  <2>8. \A r \in Replica : Genuine(local[r])'
    BY <1>0, <2>2, <2>4, <2>7 DEF GenuineInv, Genuine
  <2>9. \A j \in Run : Genuine(run[j].task)' /\ (Alive(j)' => run'[j].task.run = j)
    BY <2>2, <2>3, <2>6, <2>7 DEF GenuineInv, Genuine, Alive
  <2>10. QED BY <2>7, <2>8, <2>9 DEF GenuineInv, Genuine, AnswerIsGenuine
<1>6. CASE Resave(k)
  <2>1. stored' \in {stored, run[k].task}
    BY <1>6 DEF Resave, StoreOrFail, SaveStored
  <2>2. run' \in {[run EXCEPT ![k] = CallingRun(k)],
                  [run EXCEPT ![k] = Over(k, "lost")]}
    BY <1>6 DEF Resave
  <2>3. ASSUME NEW j \in Run
        PROVE  /\ run'[j].task \in {run[j].task, NoRec}
               /\ Alive(j)' => run'[j].task = run[j].task /\ Alive(j)
    <3>1. Alive(k) BY <1>6 DEF Resave, Alive
    <3>2. CASE run' = [run EXCEPT ![k] = CallingRun(k)]
      BY <1>0, <3>1, <3>2 DEF CallingRun, Alive, RunState
    <3>3. CASE run' = [run EXCEPT ![k] = Over(k, "lost")]
      BY <1>0, <3>1, <3>3 DEF Over, Alive, RunState
    <3>4. QED BY <2>2, <3>2, <3>3
  <2>4. UNCHANGED <<local, replied>>
    BY <1>6 DEF Resave
  <2>5. \A c \in Client : answer'[c] \in {answer[c], Again}
    BY <1>6 DEF Resave
  <2>6. AnswerIsGenuine'
    BY <2>4, <2>5 DEF AnswerIsGenuine, GenuineInv, Again
  <2>7. QED BY <1>0, <2>1, <2>3, <2>4, <2>6, NoRecGenuine DEF GenuineInv, Genuine
<1>7. QED BY <1>1, <1>2, <1>3, <1>4, <1>5, <1>6 DEF RunStep

\* A reply without the task's result claims nothing.
LEMMA GenuineReply ==
  ASSUME TypeOK, GenuineInv, NEW c \in Client, NEW a \in Answer, Reply(c, a),
         a.kind = "ok" => a.run \in replied, UNCHANGED replied
  PROVE  AnswerIsGenuine'
<1>1. answer \in [Client -> Answer] /\ AnswerIsGenuine
  BY DEF TypeOK, GenuineInv
<1>2. answer' \in {answer, [answer EXCEPT ![c] = a]} BY DEF Reply
<1>3. \A b \in Client : answer'[b] \in {answer[b], a} BY <1>1, <1>2
<1>4. QED BY <1>1, <1>3 DEF AnswerIsGenuine

\* respondTaskResult passes on what the copy it was given claims.
LEMMA GenuineRespond ==
  ASSUME TypeOK, GenuineInv, NEW c \in Client, NEW r \in Replica, NEW t \in Rec,
         RespondTaskResult(c, r, t), Genuine(t), UNCHANGED replied
  PROVE  AnswerIsGenuine'
<1> DEFINE a == [kind |-> IF t.status = "completed" THEN "ok" ELSE "failed",
                 run |-> t.run]
<1>1. a \in Answer /\ Again \in Answer BY RecFacts, ReqFacts DEF Answer
<1>2. a.kind = "ok" => a.run \in replied BY DEF Genuine
<1>3. Again.kind # "ok" BY DEF Again
<1>4. Reply(c, a) \/ Reply(c, Again) BY DEF RespondTaskResult
<1>5. QED BY <1>1, <1>2, <1>3, <1>4, GenuineReply

\* A step that leaves the copies alone only has to get the answers right.
LEMMA GenuineKept ==
  ASSUME GenuineInv, UNCHANGED <<local, stored, run, replied>>, AnswerIsGenuine'
  PROVE  GenuineInv'
  BY DEF GenuineInv, Genuine, Alive

\* Requests and handlers only pass on results that copies hold.
LEMMA GenuineClient ==
  ASSUME TypeOK, PlaceOK, GenuineInv, NEW c \in Client,
         ClientStep(c) \/ HandlerStep(c) \/ WakeTimeout(c) \/ WakeQuit(c)
  PROVE  GenuineInv'
<1> USE ConstantsAssumption
<1>0. /\ req[c] \in Req /\ Again \in Answer /\ Gone \in Answer
      /\ Again.kind # "ok" /\ Gone.kind # "ok"
      /\ req[c].pc # "idle" => req[c].at \in Replica /\ req[c].site \in Replica
      /\ \A r \in Replica : local[r] \in Rec /\ Genuine(local[r])
      /\ stored \in Rec /\ Genuine(stored)
      /\ AnswerIsGenuine
  BY ReqFacts DEF TypeOK, PlaceOK, GenuineInv, Again, Gone
<1>1. UNCHANGED replied =>
        /\ Reply(c, Again) => AnswerIsGenuine'
        /\ Reply(c, Gone) => AnswerIsGenuine'
        /\ \A r \in Replica : RespondTaskResult(c, r, local[r]) => AnswerIsGenuine'
        /\ \A r \in Replica : RespondTaskResult(c, r, stored) => AnswerIsGenuine'
  BY <1>0, GenuineReply, GenuineRespond
<1>2. UNCHANGED <<answer, replied>> => AnswerIsGenuine'
  BY <1>0 DEF AnswerIsGenuine
<1>3. CASE ClientStep(c)
  BY <1>2, <1>3, GenuineKept DEF ClientStep, Request
<1>4. CASE ReadStored(c)
  <2>1. UNCHANGED <<local, stored, run, replied>> BY <1>4 DEF ReadStored
  <2>2. AnswerIsGenuine' BY <1>0, <1>1, <1>2, <1>4, <2>1 DEF ReadStored
  <2>3. QED BY <2>1, <2>2, GenuineKept
<1>5. CASE Check(c)
  <2>1. UNCHANGED <<local, stored, run, replied>> BY <1>5 DEF Check
  <2>2. AnswerIsGenuine' BY <1>0, <1>1, <1>2, <1>5, <2>1 DEF Check
  <2>3. QED BY <2>1, <2>2, GenuineKept
<1>6. CASE Forward(c)
  <2>1. UNCHANGED <<local, stored, run, replied>> BY <1>6 DEF Forward
  <2>2. AnswerIsGenuine' BY <1>0, <1>1, <1>2, <1>6, <2>1 DEF Forward
  <2>3. QED BY <2>1, <2>2, GenuineKept
<1>7. CASE LocalPoll(c)
  <2>1. UNCHANGED <<local, stored, run, replied>> BY <1>7 DEF LocalPoll
  <2>2. AnswerIsGenuine' BY <1>0, <1>1, <1>2, <1>7, <2>1 DEF LocalPoll
  <2>3. QED BY <2>1, <2>2, GenuineKept
<1>8. CASE WakeDone(c) \/ WakeTimeout(c)
  <2>1. UNCHANGED <<local, stored, run, replied>>
    BY <1>8 DEF WakeDone, WakeTimeout
  <2>2. AnswerIsGenuine'
    BY <1>0, <1>1, <1>8, <2>1 DEF WakeDone, WakeTimeout, Reread
  <2>3. QED BY <2>1, <2>2, GenuineKept
<1>9. CASE WakeQuit(c)
  <2>1. UNCHANGED <<local, stored, run, replied>> BY <1>9 DEF WakeQuit
  <2>2. AnswerIsGenuine' BY <1>1, <1>9, <2>1 DEF WakeQuit
  <2>3. QED BY <2>1, <2>2, GenuineKept
<1>10. CASE RetryMissing(c)
  <2>1. PICK found \in {"yes", "no"} :
          LET t == [RetriedTask(req[c].rec, req[c].at, found)
                      EXCEPT !.run = nrun + 1]
          IN /\ local' = [local EXCEPT ![req[c].at] = t]
             /\ run' = [run EXCEPT ![nrun + 1] =
                          [UnusedRun EXCEPT
                             !.pc = IF found = "yes" THEN "resave" ELSE "refail",
                             !.at = req[c].at, !.born = t.addr, !.task = t]]
    BY <1>10 DEF RetryMissing
  <2> DEFINE t == [RetriedTask(req[c].rec, req[c].at, found)
                     EXCEPT !.run = nrun + 1]
  <2>2. nrun + 1 \in Run /\ nrun + 1 \in 0..MaxRuns
    <3>1. nrun \in 0..MaxRuns /\ nrun < MaxRuns
      BY <1>10 DEF RetryMissing, TypeOK
    <3>2. QED BY <3>1 DEF Run
  <2>3. RetriedTask(req[c].rec, req[c].at, found) \in Rec
    BY <1>0, ReqFacts, RetriedTaskType
  <2>4. t.status # "completed" /\ t.run = nrun + 1 /\ t \in Rec
    <3>1. req[c].rec \in Rec BY <1>0, ReqFacts
    <3>2. RetriedTask(req[c].rec, req[c].at, found).status # "completed"
      BY <3>1, RetriedGenuine
    <3>3. QED BY <2>2, <2>3, <3>2 DEF Rec
  <2>5. local' = [local EXCEPT ![req[c].at] = t] BY <2>1
  <2>6. /\ run'[nrun + 1].task = t
        /\ \A j \in Run \ {nrun + 1} : run'[j] = run[j]
    BY <2>1, <2>2 DEF UnusedRun, TypeOK
  <2>7. UNCHANGED <<stored, replied, answer>>
    BY <1>10 DEF RetryMissing
  <2> HIDE DEF t
  <2>8. \A r \in Replica : Genuine(local[r])'
    BY <1>0, <2>4, <2>5, <2>7 DEF TypeOK, Genuine
  <2>9. \A j \in Run : Genuine(run[j].task)' /\ (Alive(j)' => run'[j].task.run = j)
    BY <2>4, <2>6, <2>7 DEF GenuineInv, Genuine, Alive
  <2>10. QED BY <2>7, <2>8, <2>9 DEF GenuineInv, Genuine, AnswerIsGenuine
<1>11. QED
  BY <1>3, <1>4, <1>5, <1>6, <1>7, <1>8, <1>9, <1>10 DEF HandlerStep

\* Processes and routines start, delete or drop copies, and make up none.
LEMMA GenuineReplica ==
  ASSUME TypeOK, GenuineInv, NEW r \in Replica, ReplicaStep(r)
  PROVE  GenuineInv'
<1> USE ConstantsAssumption
<1>0. /\ run \in [Run -> RunState] /\ local \in [Replica -> Rec]
      /\ 1 \in Run /\ AnswerIsGenuine
  BY DEF TypeOK, GenuineInv, Run
<1>1. CASE RefreshAddrs(r) \/ Terminate(r) \/ Restart(r)
  BY <1>1, GenuineKept DEF RefreshAddrs, Terminate, Restart,
     GenuineInv, AnswerIsGenuine
<1>2. CASE TaskStart(r)
  <2> DEFINE t == [status |-> "ongoing", attempts |-> 1, addr |-> MyAddr(r),
                   run |-> 1]
  <2>1. local' = [local EXCEPT ![r] = t] /\ UNCHANGED <<stored, answer, replied>>
    BY <1>2 DEF TaskStart
  <2>2. run'[1].task = t /\ \A j \in Run \ {1} : run'[j] = run[j]
    BY <1>0, <1>2 DEF TaskStart, UnusedRun
  <2>3. t.status # "completed" /\ t.run = 1 OBVIOUS
  <2> HIDE DEF t
  <2>4. \A s \in Replica : Genuine(local[s])'
    BY <1>0, <2>1, <2>3 DEF GenuineInv, Genuine
  <2>5. \A j \in Run : Genuine(run[j].task)' /\ (Alive(j)' => run'[j].task.run = j)
    BY <2>1, <2>2, <2>3 DEF GenuineInv, Genuine, Alive
  <2>6. QED BY <2>1, <2>4, <2>5 DEF GenuineInv, Genuine, AnswerIsGenuine
<1>3. CASE DeleteLocal(r) \/ DeleteStored(r) \/ CleanUp(r)
  <2>1. UNCHANGED <<run, answer, replied>> /\ stored' \in {stored, NoRec}
    BY <1>3 DEF DeleteLocal, DeleteStored, CleanUp, StoreOrFail, SaveStored
  <2>2. local' \in {local, [local EXCEPT ![r] = NoRec]}
    BY <1>3 DEF DeleteLocal, DeleteStored, CleanUp
  <2>3. \A s \in Replica : local'[s] \in {local[s], NoRec} BY <1>0, <2>2
  <2>4. QED BY <2>1, <2>3, NoRecGenuine
            DEF GenuineInv, Genuine, AnswerIsGenuine, Alive
<1>4. CASE Exit(r)
  <2>1. UNCHANGED <<stored, replied>> /\ local' = [local EXCEPT ![r] = NoRec]
    BY <1>4 DEF Exit
  <2>2. \A s \in Replica : local'[s] \in {local[s], NoRec} BY <1>0, <2>1
  <2>3. ASSUME NEW j \in Run
        PROVE  run'[j] = run[j] \/ run'[j] = Over(j, "lost")
    BY <1>4 DEF Exit
  <2>4. ASSUME NEW j \in Run
        PROVE  /\ run'[j].task \in {run[j].task, NoRec}
               /\ Alive(j)' => run'[j].task = run[j].task /\ Alive(j)
    <3>1. CASE run'[j] = run[j] BY <3>1 DEF Alive
    <3>2. CASE run'[j] = Over(j, "lost")
      <4>1. run[j] \in RunState BY <1>0
      <4>2. run'[j].task = NoRec /\ run'[j].pc = "lost"
        BY <3>2, <4>1 DEF Over, RunState
      <4>3. QED BY <4>2 DEF Alive
    <3>3. QED BY <2>3, <3>1, <3>2
  <2>5. \A c \in Client : answer'[c] \in {answer[c], Again}
    BY <1>4 DEF Exit
  <2>6. AnswerIsGenuine'
    BY <1>0, <2>1, <2>5 DEF AnswerIsGenuine, Again
  <2>7. QED BY <2>1, <2>2, <2>4, <2>6, NoRecGenuine DEF GenuineInv, Genuine
<1>5. QED BY <1>1, <1>2, <1>3, <1>4 DEF ReplicaStep

LEMMA GenuineInit == Init => GenuineInv
  BY DEF Init, GenuineInv, Genuine, NoRec, UnusedRun, Alive, AnswerIsGenuine,
     NoAnswer

LEMMA GenuineStep == TypeOK /\ PlaceOK /\ GenuineInv /\ [Next]_vars => GenuineInv'
<1> SUFFICES ASSUME TypeOK, PlaceOK, GenuineInv, [Next]_vars PROVE GenuineInv'
  OBVIOUS
<1>1. CASE UNCHANGED vars
  BY <1>1 DEF vars, GenuineInv, Genuine, Alive, AnswerIsGenuine
<1>2. CASE Expire \/ CleanUpStored
  BY <1>2, NoRecGenuine DEF Expire, CleanUpStored, GenuineInv, Genuine, Alive,
     AnswerIsGenuine
<1>3. QED BY <1>1, <1>2, GenuineRun, GenuineClient, GenuineReplica DEF Next

\* A client told that the task has completed holds a response the job really
\* gave: for any number of replicas, clients, retries, crashes and lost writes.
THEOREM GenuineAnswers == Spec => []AnswerIsGenuine
<1> DEFINE Inv == TypeOK /\ PlaceOK /\ GenuineInv
<1>1. Init => Inv
  BY TypeInit, GenuineInit DEF Init, PlaceOK, Idle
<1>2. Inv /\ [Next]_vars => Inv'
  BY TypeStep, GenuineStep
<1>3. Inv => AnswerIsGenuine
  BY DEF GenuineInv
<1>4. QED BY <1>1, <1>2, <1>3, PTL DEF Spec

-----------------------------------------------------------------------------
(* How goroutine chains and handlers move *)

\* The steps that change a chain or start one.
LEMMA ChainSteps ==
  Next => \/ \E k \in Run : RunStep(k)
          \/ \E c \in Client : RetryMissing(c)
          \/ \E r \in Replica : TaskStart(r)
          \/ \E r \in Replica : Exit(r)
          \/ UNCHANGED <<run, nrun>>
<1> SUFFICES ASSUME Next PROVE \/ \E k \in Run : RunStep(k)
                               \/ \E c \in Client : RetryMissing(c)
                               \/ \E r \in Replica : TaskStart(r) \/ Exit(r)
                               \/ UNCHANGED <<run, nrun>>
  OBVIOUS
<1>1. CASE \E r \in Replica : ReplicaStep(r)
  BY <1>1 DEF ReplicaStep, RefreshAddrs, DeleteLocal, DeleteStored, CleanUp,
     Terminate, Restart
<1>2. CASE \E c \in Client : \/ ClientStep(c) \/ HandlerStep(c)
                             \/ WakeTimeout(c) \/ WakeQuit(c)
  BY <1>2 DEF ClientStep, Request, HandlerStep, ReadStored, Check, Forward,
     LocalPoll, WakeDone, WakeTimeout, WakeQuit
<1>3. CASE Expire \/ CleanUpStored
  BY <1>3 DEF Expire, CleanUpStored
<1>4. QED BY <1>1, <1>2, <1>3 DEF Next

\* What a step of a chain does to it: from where to where, and which of its
\* fields go along.
Moves(u, v) ==
    /\ \/ u.pc = "create" /\ v.pc \in {"call", "lost"}
       \/ u.pc = "call" /\ v.pc \in {"sleep", "save"}
       \/ u.pc = "sleep" /\ v.pc \in {"resave", "refail"}
       \/ u.pc = "resave" /\ v.pc = "call"
       \/ u.pc = "refail" /\ v.pc = "lost"
       \/ u.pc = "save" /\ v.pc = "notify"
       \/ u.pc = "notify" /\ v.pc = "end"
    /\ v.pc \notin {"lost", "end"} => v.at = u.at
    /\ v.born = u.born
    /\ IF u.pc = "create" THEN v.calls = IF v.pc = "call" THEN 1 ELSE u.calls
                          ELSE v.calls >= u.calls
    /\ v.pc # "end" => v.closes = u.closes
    /\ v.pc = "end" => v.closes = u.closes + 1

LEMMA ChainMoves ==
  ASSUME TypeOK, NEW k \in Run, RunStep(k)
  PROVE  /\ \A j \in Run \ {k} : run'[j] = run[j]
         /\ UNCHANGED <<nrun, timers, deletes, proc, known, quit, sent, age>>
         /\ Moves(run[k], run'[k])
<1>0. run \in [Run -> RunState] /\ run[k] \in RunState /\ run[k].calls \in Nat
  BY RunFields DEF TypeOK
<1>1. CASE CreateStored(k)
  <2>1. CASE run' = [run EXCEPT ![k].pc = "call", ![k].calls = 1]
    BY <1>0, <1>1, <2>1 DEF CreateStored, RunState, Moves
  <2>2. CASE run' = [run EXCEPT ![k] = Over(k, "lost")]
    BY <1>0, <1>1, <2>2 DEF CreateStored, Over, RunState, Moves
  <2>3. QED BY <1>1, <2>1, <2>2 DEF CreateStored
<1>2. ASSUME NEW o \in Outcome, CallEnds(k, o)
      PROVE  /\ \A j \in Run \ {k} : run'[j] = run[j]
             /\ UNCHANGED <<nrun, timers, deletes, proc, known, quit, sent, age>>
             /\ Moves(run[k], run'[k])
  <2> DEFINE t == [run[k].task EXCEPT !.status = CallStatus(o)]
  <2>1. \E p \in {"sleep", "save"} :
           run' = [run EXCEPT ![k].pc = p, ![k].task = t]
    BY <1>2 DEF CallEnds
  <2> HIDE DEF t
  <2>2. QED BY <1>0, <1>2, <2>1 DEF CallEnds, RunState, Moves
<1>3. CASE Save(k)
  BY <1>0, <1>3 DEF Save, RunState, Moves
<1>4. CASE Notify(k)
  BY <1>0, <1>4 DEF Notify, ClosedRun, Over, RunState, Moves
<1>5. CASE Retry(k)
  <2>1. PICK found \in {"yes", "no"} :
          run' = [run EXCEPT ![k] =
                    RetryingRun(k, RetriedTask(run[k].task, run[k].at, found),
                                found)]
    BY <1>5 DEF Retry
  <2> DEFINE t == RetriedTask(run[k].task, run[k].at, found)
  <2>2. PICK p \in {"resave", "refail"} :
           run' = [run EXCEPT ![k] = [run[k] EXCEPT !.pc = p, !.task = t]]
    BY <2>1 DEF RetryingRun
  <2> HIDE DEF t
  <2>3. /\ \A j \in Run \ {k} : run'[j] = run[j]
        /\ run'[k] = [run[k] EXCEPT !.pc = p, !.task = t]
    BY <1>0, <2>2
  <2>4. /\ run[k].pc = "sleep"
        /\ UNCHANGED <<nrun, timers, deletes, proc, known, quit, sent, age>>
    BY <1>5 DEF Retry
  <2>5. Moves(run[k], run'[k])
    BY <1>0, <2>3, <2>4 DEF RunState, Moves
  <2>6. QED BY <2>3, <2>4, <2>5
<1>6. CASE Resave(k)
  <2>1. /\ \A j \in Run \ {k} : run'[j] = run[j]
        /\ run'[k] = IF run[k].pc = "resave" THEN CallingRun(k)
                                            ELSE Over(k, "lost")
    BY <1>0, <1>6 DEF Resave
  <2>2. run[k].pc = "resave" => Moves(run[k], run'[k])
    BY <1>0, <2>1 DEF CallingRun, RunState, Moves
  <2>3. run[k].pc = "refail" => Moves(run[k], run'[k])
    BY <1>0, <2>1 DEF Over, RunState, Moves
  <2>4. /\ run[k].pc \in {"resave", "refail"}
        /\ UNCHANGED <<nrun, timers, deletes, proc, known, quit, sent, age>>
    BY <1>6 DEF Resave
  <2>5. QED BY <2>1, <2>2, <2>3, <2>4
<1>7. QED BY <1>1, <1>2, <1>3, <1>4, <1>5, <1>6 DEF RunStep

\* A handler that finds the task missing starts the next chain.
LEMMA ChainStarts ==
  ASSUME TypeOK, PlaceOK, NEW c \in Client, RetryMissing(c)
  PROVE  LET k == nrun + 1 IN
         /\ nrun' = k /\ k \in Run /\ req[c].at \in Replica
         /\ \A j \in Run \ {k} : run'[j] = run[j]
         /\ run'[k].pc \in {"resave", "refail"} /\ run'[k].at = req[c].at
         /\ run'[k].calls = 0 /\ run'[k].closes = 0
         /\ run'[k].task.status =
              IF run'[k].pc = "resave" THEN "ongoing" ELSE "failed"
         /\ run'[k].task.addr = MyAddr(req[c].at)
         /\ run'[k].born = MyAddr(req[c].at)
         /\ run'[k].task.run = k
         /\ local' = [local EXCEPT ![req[c].at] = run'[k].task]
         /\ req' = [req EXCEPT ![c].pc = "retry", ![c].run = k, ![c].rec = NoRec]
<1> DEFINE r == req[c].at
           k == nrun + 1
<1>1. k \in Run /\ r \in Replica
  BY ConstantsAssumption DEF TypeOK, PlaceOK, RetryMissing, Run
<1>2. PICK found \in {"yes", "no"} :
        LET t == [RetriedTask(req[c].rec, r, found) EXCEPT !.run = k]
        IN /\ local' = [local EXCEPT ![r] = t]
           /\ run' = [run EXCEPT ![k] =
                        [UnusedRun EXCEPT
                           !.pc = IF found = "yes" THEN "resave" ELSE "refail",
                           !.at = r, !.born = t.addr, !.task = t]]
           /\ nrun' = k
           /\ req' = [req EXCEPT ![c].pc = "retry", ![c].run = k,
                                 ![c].rec = NoRec]
  BY DEF RetryMissing
<1> DEFINE u == RetriedTask(req[c].rec, r, found)
           t == [u EXCEPT !.run = k]
           p == IF found = "yes" THEN "resave" ELSE "refail"
<1>3. u \in Rec /\ u.addr = MyAddr(r)
      /\ u.status = IF found = "yes" THEN "ongoing" ELSE "failed"
  <2>1. req[c].rec \in Rec BY ReqFacts DEF TypeOK
  <2>2. u \in Rec BY <2>1, RetriedTaskType
  <2>3. QED BY <2>1, <2>2 DEF RetriedTask, Rec
<1> HIDE DEF u, k
<1>4. /\ t.run = k /\ t.addr = MyAddr(r)
      /\ t.status = IF found = "yes" THEN "ongoing" ELSE "failed"
  BY <1>3 DEF Rec
<1>5. /\ local' = [local EXCEPT ![r] = t] /\ nrun' = k
      /\ run' = [run EXCEPT ![k] = [UnusedRun EXCEPT !.pc = p, !.at = r,
                                      !.born = t.addr, !.task = t]]
      /\ req' = [req EXCEPT ![c].pc = "retry", ![c].run = k, ![c].rec = NoRec]
  BY <1>2 DEF u
<1> HIDE DEF t
<1>6. run \in [Run -> RunState] BY DEF TypeOK
<1>7. /\ \A j \in Run \ {k} : run'[j] = run[j]
      /\ run'[k] = [UnusedRun EXCEPT !.pc = p, !.at = r, !.born = t.addr,
                                     !.task = t]
  BY <1>1, <1>5, <1>6
<1>8. /\ run'[k].pc = p /\ run'[k].at = r /\ run'[k].task = t
      /\ run'[k].born = t.addr /\ run'[k].calls = 0 /\ run'[k].closes = 0
  BY <1>7 DEF UnusedRun
<1>9. /\ run'[k].pc \in {"resave", "refail"}
      /\ t.status = IF run'[k].pc = "resave" THEN "ongoing" ELSE "failed"
  BY <1>4, <1>8
<1> HIDE DEF p
<1>10. QED BY <1>1, <1>4, <1>5, <1>7, <1>8, <1>9 DEF k

\* The process that ends takes the chains that run on it along.
LEMMA ChainsLost ==
  ASSUME TypeOK, NEW r \in Replica, Exit(r), NEW j \in Run
  PROVE  /\ ~(run[j].at = r /\ Alive(j)) => run'[j] = run[j]
         /\ run[j].at = r /\ Alive(j) =>
              /\ run'[j].pc = "lost" /\ run'[j].task = NoRec
              /\ run'[j].at = NoAddr
         /\ run'[j].calls = run[j].calls /\ run'[j].closes = run[j].closes
         /\ run'[j].born = run[j].born
<1>1. run[j] \in RunState BY DEF TypeOK
<1>2. run'[j] = IF run[j].at = r /\ Alive(j) THEN Over(j, "lost") ELSE run[j]
  BY DEF Exit
<1>3. QED BY <1>1, <1>2 DEF Over, RunState

\* The chain that starts the task.
LEMMA FirstChain ==
  ASSUME TypeOK, NEW r \in Replica, TaskStart(r)
  PROVE  /\ nrun = 0 /\ nrun' = 1 /\ 1 \in Run
         /\ \A j \in Run \ {1} : run'[j] = run[j]
         /\ run'[1].pc = "create" /\ run'[1].at = r /\ run'[1].calls = 0
         /\ run'[1].closes = 0 /\ run'[1].born = MyAddr(r)
         /\ run'[1].task.status = "ongoing" /\ run'[1].task.run = 1
         /\ run'[1].task.addr = MyAddr(r)
         /\ local' = [local EXCEPT ![r] = run'[1].task]
<1> DEFINE t == [status |-> "ongoing", attempts |-> 1, addr |-> MyAddr(r),
                 run |-> 1]
<1>1. /\ nrun = 0 /\ nrun' = 1 /\ local' = [local EXCEPT ![r] = t]
      /\ run' = [run EXCEPT ![1] = [UnusedRun EXCEPT !.pc = "create", !.at = r,
                                      !.born = MyAddr(r), !.task = t]]
  BY DEF TaskStart
<1>2. 1 \in Run /\ run \in [Run -> RunState]
  BY ConstantsAssumption DEF TypeOK, Run
<1> HIDE DEF t
<1>3. /\ \A j \in Run \ {1} : run'[j] = run[j]
      /\ run'[1] = [UnusedRun EXCEPT !.pc = "create", !.at = r,
                                     !.born = MyAddr(r), !.task = t]
  BY <1>1, <1>2
<1>4. QED BY <1>1, <1>2, <1>3 DEF UnusedRun, t

-----------------------------------------------------------------------------
(* A task is accepted before anybody works on it or asks for it *)

\* The points of a chain whose task has been accepted.
Working == {"call", "sleep", "resave", "refail", "save", "notify", "end"}

\* Chains are started in turn, and work once the task is accepted.
ChainsOK ==
    \A k \in Run : /\ k > nrun => run[k].pc = "unused"
                   /\ run[k].pc = "create" => k = 1 /\ run[k].calls = 0
                   /\ run[k].pc \in Working => Accepted

\* Only a client that has no final answer yet asks, for an accepted task.
AskersOK ==
    \A c \in Client : IF req[c].pc = "idle" THEN req[c].at = NoAddr
                                            ELSE Accepted /\ ~Final(c)

\* A task once accepted stays so.
LEMMA AcceptedStays ==
  ASSUME TypeOK, PlaceOK, ChainsOK, Accepted, Next
  PROVE  Accepted'
<1>0. /\ nrun \in Nat /\ nrun > 0 /\ 1 \in Run /\ run[1].calls \in Nat
      /\ run[1].calls > 0
  BY ConstantsAssumption, RunFields DEF TypeOK, Accepted, Run
<1>1. ASSUME NEW k \in Run, RunStep(k) PROVE Accepted'
  <2>1. Moves(run[k], run'[k]) /\ nrun' = nrun
        /\ \A j \in Run \ {k} : run'[j] = run[j]
    BY <1>1, ChainMoves
  <2>2. CASE k = 1
    <3>1. run[1].pc # "create" BY <1>0 DEF ChainsOK
    <3>2. run'[1].calls >= run[1].calls BY <2>1, <2>2, <3>1 DEF Moves
    <3>3. run'[1].calls > 0
      <4>1. run'[1].calls \in Nat
        BY <1>0, <1>1, TypeRun, RunFields DEF TypeOK
      <4>2. QED BY <1>0, <3>2, <4>1
    <3>4. QED BY <1>0, <2>1, <3>3 DEF Accepted
  <2>3. CASE k # 1
    BY <1>0, <2>1, <2>3 DEF Accepted
  <2>4. QED BY <2>2, <2>3
<1>2. ASSUME NEW c \in Client, RetryMissing(c) PROVE Accepted'
  <2>1. nrun' = nrun + 1 /\ \A j \in Run \ {nrun + 1} : run'[j] = run[j]
    BY <1>2, ChainStarts
  <2>2. QED BY <1>0, <2>1 DEF Accepted
<1>3. ASSUME NEW r \in Replica, TaskStart(r) PROVE Accepted'
  BY <1>0, <1>3 DEF TaskStart
<1>4. ASSUME NEW r \in Replica, Exit(r) PROVE Accepted'
  <2>1. run'[1].calls = run[1].calls BY <1>0, <1>4, ChainsLost
  <2>2. nrun' = nrun BY <1>4 DEF Exit
  <2>3. QED BY <1>0, <2>1, <2>2 DEF Accepted
<1>5. CASE UNCHANGED <<run, nrun>>
  BY <1>5 DEF Accepted
<1>6. QED BY <1>1, <1>2, <1>3, <1>4, <1>5, ChainSteps

\* Chains keep to their turns.
LEMMA ChainsStep ==
  ASSUME TypeOK, PlaceOK, ChainsOK, AskersOK, Next
  PROVE  ChainsOK'
<1>0. /\ nrun \in Nat /\ 1 \in Run /\ Run \subseteq Nat
      /\ run \in [Run -> RunState]
  BY ConstantsAssumption DEF TypeOK, Run
<1>a. Accepted => Accepted' BY AcceptedStays
<1>1. ASSUME NEW k \in Run, RunStep(k) PROVE ChainsOK'
  <2>1. Moves(run[k], run'[k]) /\ nrun' = nrun
        /\ \A j \in Run \ {k} : run'[j] = run[j]
    BY <1>1, ChainMoves
  <2>2. k <= nrun BY <1>0, <2>1 DEF ChainsOK, Moves
  <2>3. run'[k].pc # "create" /\ run'[k].pc # "unused" BY <2>1 DEF Moves
  <2>4. run'[k].pc \in Working => Accepted'
    <3>1. CASE run[k].pc = "create"
      <4>1. k = 1 BY <3>1 DEF ChainsOK
      <4>2. run'[k].pc = "call" => run'[k].calls = 1 BY <2>1, <3>1 DEF Moves
      <4>3. run'[k].pc \in {"call", "lost"} BY <2>1, <3>1 DEF Moves
      <4>4. QED BY <1>0, <2>1, <2>2, <4>1, <4>2, <4>3 DEF Accepted, Working
    <3>2. CASE run[k].pc # "create"
      <4>1. run'[k].pc \in Working => run[k].pc \in Working
        BY <2>1, <3>2 DEF Moves, Working
      <4>2. QED BY <1>a, <4>1 DEF ChainsOK
    <3>3. QED BY <3>1, <3>2
  <2>5. QED BY <1>0, <1>a, <2>1, <2>2, <2>3, <2>4 DEF ChainsOK
<1>2. ASSUME NEW c \in Client, RetryMissing(c) PROVE ChainsOK'
  <2>1. /\ nrun' = nrun + 1 /\ \A j \in Run \ {nrun + 1} : run'[j] = run[j]
        /\ run'[nrun + 1].pc \in {"resave", "refail"}
    BY <1>2, ChainStarts
  <2>2. Accepted' BY <1>2, <1>a DEF RetryMissing, AskersOK
  <2>3. ASSUME NEW j \in Run
        PROVE  /\ j > nrun' => run'[j].pc = "unused"
               /\ run'[j].pc = "create" => j = 1 /\ run'[j].calls = 0
    <3>1. CASE j = nrun + 1 BY <1>0, <2>1, <3>1
    <3>2. CASE j # nrun + 1
      <4>1. j > nrun' => j > nrun BY <1>0, <2>1
      <4>2. QED BY <2>1, <3>2, <4>1 DEF ChainsOK
    <3>3. QED BY <3>1, <3>2
  <2>4. QED BY <2>2, <2>3 DEF ChainsOK
<1>3. ASSUME NEW r \in Replica, TaskStart(r) PROVE ChainsOK'
  <2>1. /\ nrun = 0 /\ nrun' = 1 /\ \A j \in Run \ {1} : run'[j] = run[j]
        /\ run'[1].pc = "create" /\ run'[1].calls = 0
    BY <1>3, FirstChain
  <2>2. \A j \in Run \ {1} : run[j].pc = "unused"
    BY <1>0, <2>1 DEF ChainsOK, Run
  <2>3. "create" \notin Working /\ "unused" \notin Working BY DEF Working
  <2>4. QED BY <1>0, <2>1, <2>2, <2>3 DEF ChainsOK
<1>4. ASSUME NEW r \in Replica, Exit(r) PROVE ChainsOK'
  <2>1. nrun' = nrun BY <1>4 DEF Exit
  <2>2. \A j \in Run : run'[j] = run[j] \/ (Alive(j) /\ run'[j].pc = "lost")
    BY <1>4, ChainsLost
  <2>3. "lost" \notin Working BY DEF Working
  <2>4. QED BY <1>a, <2>1, <2>2, <2>3 DEF ChainsOK, Alive
<1>5. CASE UNCHANGED <<run, nrun>>
  BY <1>5 DEF Accepted, ChainsOK
<1>6. QED BY <1>1, <1>2, <1>3, <1>4, <1>5, ChainSteps

\* What a step means to the client it concerns: nothing, the handler goes on
\* or is started, or it ends, with an answer if it serves a poll.
LEMMA HandlerMoves ==
  ASSUME TypeOK, PlaceOK, AskersOK, Next, NEW c \in Client
  PROVE  \/ req'[c] = req[c] /\ answer'[c] = answer[c]
         \/ /\ req'[c].pc # "idle" /\ answer'[c] = answer[c]
            /\ req[c].pc # "idle" \/ (Accepted /\ ~Final(c))
         \/ req[c].pc # "idle" /\ req'[c] = Idle
<1> DEFINE Goal == \/ req'[c] = req[c] /\ answer'[c] = answer[c]
                   \/ /\ req'[c].pc # "idle" /\ answer'[c] = answer[c]
                      /\ req[c].pc # "idle" \/ (Accepted /\ ~Final(c))
                   \/ req[c].pc # "idle" /\ req'[c] = Idle
<1>0. req \in [Client -> Req] /\ answer \in [Client -> Answer] /\ req[c] \in Req
  BY DEF TypeOK
<1>1. CASE UNCHANGED <<req, answer>>
  BY <1>1
<1>2. ASSUME NEW b \in Client, ClientStep(b) PROVE Goal
  <2>1. PICK r \in Replica, kind \in Kind : Request(b, r, kind)
    BY <1>2 DEF ClientStep
  <2>2. CASE b # c BY <1>0, <2>1, <2>2 DEF Request
  <2>3. CASE b = c
    <3>1. Accepted /\ ~Final(c) /\ answer' = answer BY <2>1, <2>3 DEF Request
    <3>2. PICK p \in {"local", "read"} :
             \/ UNCHANGED req
             \/ req' = [req EXCEPT ![c] = [Idle EXCEPT !.pc = p, !.kind = kind,
                                                       !.at = r, !.site = r]]
      BY <2>1, <2>3 DEF Request
    <3>3. [Idle EXCEPT !.pc = p, !.kind = kind, !.at = r, !.site = r].pc = p
      BY DEF Idle
    <3>4. QED BY <1>0, <3>1, <3>2, <3>3
  <2>4. QED BY <2>2, <2>3
<1>3. ASSUME NEW b \in Client, HandlerStep(b) \/ WakeTimeout(b) \/ WakeQuit(b)
      PROVE  Goal
  <2>1. req[b].pc # "idle"
    BY <1>3 DEF HandlerStep, ReadStored, Check, RetryMissing, Forward, LocalPoll,
       WakeDone, WakeTimeout, WakeQuit
  <2>2. ASSUME NEW a, Reply(b, a) PROVE Goal
    BY <1>0, <2>1, <2>2 DEF Reply
  <2>3. ASSUME NEW r, NEW t, RespondTaskResult(b, r, t) PROVE Goal
    BY <2>2, <2>3 DEF RespondTaskResult
  <2>4. ASSUME NEW p \in ReqPC \ {"idle"}, NEW s, NEW n, NEW t, UNCHANGED answer,
               req' = [req EXCEPT ![b] = [req[b] EXCEPT !.pc = p, !.site = s,
                                                        !.run = n, !.rec = t]]
        PROVE  Goal
    <3>1. [req[b] EXCEPT !.pc = p, !.site = s, !.run = n, !.rec = t].pc = p
      BY <1>0 DEF Req
    <3>2. QED BY <1>0, <2>1, <2>4, <3>1
  <2> HIDE DEF Goal
  <2>5. CASE ReadStored(b)
    <3>1. CASE req' = [req EXCEPT ![b].pc = "check", ![b].rec = stored]
               /\ UNCHANGED answer
      BY <1>0, <2>1, <3>1 DEF Goal, Req
    <3>2. QED BY <2>2, <2>3, <2>5, <3>1 DEF ReadStored
  <2>6. CASE Check(b)
    <3>1. CASE req' = [req EXCEPT ![b].pc = "missing"] /\ UNCHANGED answer
      BY <1>0, <2>1, <3>1 DEF Goal, Req
    <3>2. CASE req' = [req EXCEPT ![b].pc = "forward",
                                  ![b].site = AskedReplica(b),
                                  ![b].rec = NoRec] /\ UNCHANGED answer
      BY <1>0, <2>1, <3>2 DEF Goal, Req
    <3>3. QED BY <2>2, <2>6, <3>1, <3>2 DEF Check
  <2>7. CASE RetryMissing(b)
    BY <1>0, <2>1, <2>7 DEF RetryMissing, Goal, Req
  <2>8. CASE Forward(b)
    <3>1. CASE req' = [req EXCEPT ![b].pc = "local"] /\ UNCHANGED answer
      BY <1>0, <2>1, <3>1 DEF Goal, Req
    <3>2. QED BY <2>2, <2>8, <3>1 DEF Forward
  <2>9. CASE LocalPoll(b)
    <3>1. CASE req' = [req EXCEPT ![b].pc = "wait",
                                  ![b].run = local[req[b].site].run]
               /\ UNCHANGED answer
      BY <1>0, <2>1, <3>1 DEF Goal, Req
    <3>2. QED BY <2>2, <2>3, <2>9, <3>1 DEF LocalPoll
  <2>10. CASE WakeDone(b) \/ WakeTimeout(b)
    BY <2>2, <2>3, <2>10 DEF WakeDone, WakeTimeout, Reread
  <2>11. CASE WakeQuit(b)
    BY <2>2, <2>11 DEF WakeQuit
  <2>12. QED
    BY <1>3, <2>5, <2>6, <2>7, <2>8, <2>9, <2>10, <2>11 DEF HandlerStep
<1>4. ASSUME NEW k \in Run, RunStep(k) PROVE Goal
  <2>1. CASE Resave(k)
    <3>1. CASE req[c].pc = "retry" /\ req[c].run = k
      <4>1. [req[c] EXCEPT !.pc = "local", !.run = 0].pc = "local"
        BY <1>0 DEF Req
      <4>2. req'[c] = IF run[k].pc = "resave" /\ req[c].kind = "poll"
                      THEN [req[c] EXCEPT !.pc = "local", !.run = 0] ELSE Idle
        BY <2>1, <3>1 DEF Resave
      <4>3. run[k].pc = "resave" => answer'[c] = answer[c]
        BY <2>1 DEF Resave
      <4>4. QED BY <3>1, <4>1, <4>2, <4>3
    <3>2. CASE ~(req[c].pc = "retry" /\ req[c].run = k)
      BY <2>1, <3>2 DEF Resave
    <3>3. QED BY <3>1, <3>2
  <2>2. CASE ~Resave(k)
    BY <1>1, <1>4, <2>2 DEF RunStep, CreateStored, CallEnds, Save, Notify, Retry
  <2>3. QED BY <2>1, <2>2
<1>5. ASSUME NEW r \in Replica, ReplicaStep(r) PROVE Goal
  <2>1. CASE Exit(r)
    <3>1. CASE req[c].pc = "idle"
      <4>1. req[c].at # r BY <1>5, <3>1, ConstantsAssumption DEF AskersOK
      <4>2. QED BY <2>1, <3>1, <4>1 DEF Exit
    <3>2. CASE req[c].pc # "idle"
      BY <2>1, <3>2 DEF Exit
    <3>3. QED BY <3>1, <3>2
  <2>2. CASE ~Exit(r)
    BY <1>1, <1>5, <2>2 DEF ReplicaStep, RefreshAddrs, TaskStart, DeleteLocal,
       DeleteStored, CleanUp, Terminate, Restart
  <2>3. QED BY <2>1, <2>2
<1>6. CASE Expire \/ CleanUpStored
  BY <1>1, <1>6 DEF Expire, CleanUpStored
<1>7. QED BY <1>2, <1>3, <1>4, <1>5, <1>6 DEF Next

\* Askers stay askers of an accepted task.
LEMMA AskersStep ==
  ASSUME TypeOK, PlaceOK, ChainsOK, AskersOK, Next
  PROVE  AskersOK'
<1> SUFFICES ASSUME NEW c \in Client
             PROVE  IF req'[c].pc = "idle" THEN req'[c].at = NoAddr
                                           ELSE Accepted' /\ ~Final(c)'
  BY DEF AskersOK
<1>1. Accepted => Accepted' BY AcceptedStays
<1>2. Idle.pc = "idle" /\ Idle.at = NoAddr BY DEF Idle
<1>3. QED BY <1>1, <1>2, HandlerMoves DEF AskersOK, Final

\* TypeOK with what every state of the task owes to the order of its life.
BaseOK == TypeOK /\ PlaceOK /\ ChainsOK /\ AskersOK

LEMMA BaseInit == Init => BaseOK
<1> SUFFICES ASSUME Init PROVE PlaceOK /\ ChainsOK /\ AskersOK
  BY TypeInit DEF BaseOK
<1>1. \A k \in Run : run[k].pc = "unused" BY DEF Init, UnusedRun
<1>2. \A c \in Client : req[c].pc = "idle" /\ req[c].at = NoAddr
  BY DEF Init, Idle
<1>3. QED BY <1>1, <1>2 DEF PlaceOK, ChainsOK, AskersOK, Working

LEMMA BaseStep == BaseOK /\ [Next]_vars => BaseOK'
<1>1. BaseOK /\ Next => BaseOK'
  BY TypeStep, ChainsStep, AskersStep DEF BaseOK
<1>2. BaseOK /\ UNCHANGED vars => BaseOK'
  <2> SUFFICES ASSUME BaseOK, UNCHANGED vars PROVE BaseOK'
    OBVIOUS
  <2>1. TypeOK' /\ PlaceOK' BY TypeStep DEF BaseOK
  <2>2. UNCHANGED <<run, nrun, req, answer>> BY DEF vars
  <2>3. ChainsOK' /\ AskersOK'
    BY <2>2 DEF BaseOK, ChainsOK, AskersOK, Accepted, Final
  <2>4. QED BY <2>1, <2>3 DEF BaseOK
<1>3. QED BY <1>1, <1>2

-----------------------------------------------------------------------------
(* The record in storage *)

\* What a step of a chain does to the task it works on, and to the copies.
Carries(u, v) ==
    /\ u.pc \in {"create", "resave", "save"} /\ v.pc # "lost" => v.task = u.task
    /\ u.pc = "call" => /\ v.task.addr = u.task.addr
                        /\ v.pc = "sleep" => v.task.status = "failed"
                        /\ v.task.status \in {"completed", "failed"}
    /\ u.pc = "sleep" => /\ v.task.addr = MyAddr(u.at)
                         /\ v.task.status = IF v.pc = "resave" THEN "ongoing"
                                                               ELSE "failed"
    /\ local' = IF v.pc \in {"save", "resave", "refail"}
                THEN [local EXCEPT ![u.at] = v.task] ELSE local
    /\ stored' \in {stored, u.task}
    /\ u.pc \notin {"create", "resave", "refail", "save"} => stored' = stored
    /\ u.pc = "create" /\ v.pc = "call" => stored' = u.task
    /\ (UNCHANGED faults \/ Fault)
    /\ (u.pc = "create" /\ v.pc = "lost") \/ v.pc = "refail" => Fault

LEMMA ChainCarries ==
  ASSUME TypeOK, NEW k \in Run, RunStep(k)
  PROVE  Carries(run[k], run'[k])
<1>0. run \in [Run -> RunState] /\ run[k] \in RunState /\ run[k].task \in Rec
  BY RunFields DEF TypeOK
<1>1. CASE CreateStored(k)
  <2>1. run[k].pc = "create" /\ UNCHANGED local BY <1>1 DEF CreateStored
  <2>2. CASE run' = [run EXCEPT ![k].pc = "call", ![k].calls = 1]
    <3>1. run'[k].pc = "call" /\ run'[k].task = run[k].task
      BY <1>0, <2>2 DEF RunState
    <3>2. stored' = run[k].task /\ UNCHANGED faults
      <4>1. run'[k] # Over(k, "lost")
        BY <1>0, <3>1 DEF Over, RunState
      <4>2. QED BY <1>0, <1>1, <4>1 DEF CreateStored, SaveStored
    <3>3. QED BY <2>1, <3>1, <3>2 DEF Carries
  <2>3. CASE run' = [run EXCEPT ![k] = Over(k, "lost")]
    <3>1. run'[k].pc = "lost" BY <1>0, <2>3 DEF RunState, Over
    <3>2. run' # [run EXCEPT ![k].pc = "call", ![k].calls = 1]
      BY <1>0, <3>1 DEF RunState
    <3>3. Fault /\ UNCHANGED stored BY <1>1, <3>2 DEF CreateStored
    <3>4. QED BY <2>1, <3>1, <3>3 DEF Carries
  <2>4. QED BY <1>1, <2>2, <2>3 DEF CreateStored
<1>2. ASSUME NEW o \in Outcome, CallEnds(k, o) PROVE Carries(run[k], run'[k])
  <2> DEFINE t == [run[k].task EXCEPT !.status = CallStatus(o)]
  <2>1. /\ t.addr = run[k].task.addr /\ t.status = CallStatus(o)
        /\ CallStatus(o) \in {"completed", "failed"}
    BY <1>0 DEF CallStatus, Rec
  <2>2. /\ run[k].pc = "call" /\ UNCHANGED <<stored, faults>>
        /\ \/ /\ run' = [run EXCEPT ![k].pc = "sleep", ![k].task = t]
              /\ UNCHANGED local /\ CallStatus(o) = "failed"
           \/ /\ run' = [run EXCEPT ![k].pc = "save", ![k].task = t]
              /\ local' = [local EXCEPT ![run[k].at] = t]
    BY <1>2, <2>1 DEF CallEnds, CanBeRetried
  <2> HIDE DEF t
  <2>3. /\ run'[k].task = t
        /\ \/ run'[k].pc = "sleep" /\ UNCHANGED local /\ CallStatus(o) = "failed"
           \/ run'[k].pc = "save" /\ local' = [local EXCEPT ![run[k].at] = t]
    BY <1>0, <2>2 DEF RunState
  <2>4. QED BY <2>1, <2>2, <2>3 DEF Carries
<1>3. CASE Save(k)
  <2>1. /\ run[k].pc = "save" /\ UNCHANGED local /\ stored' \in {stored, run[k].task}
        /\ (UNCHANGED faults \/ Fault)
    BY <1>3 DEF Save, StoreOrFail, SaveStored
  <2>2. run'[k].pc = "notify" /\ run'[k].task = run[k].task
    BY <1>0, <1>3 DEF Save, RunState
  <2>3. QED BY <2>1, <2>2 DEF Carries
<1>4. CASE Notify(k)
  <2>1. run[k].pc = "notify" /\ UNCHANGED <<local, stored, faults>>
    BY <1>4 DEF Notify
  <2>2. run'[k].pc = "end"
    BY <1>0, <1>4 DEF Notify, ClosedRun, Over, RunState
  <2>3. QED BY <2>1, <2>2 DEF Carries
<1>5. CASE Retry(k)
  <2>1. PICK found \in {"yes", "no"} :
          LET t == RetriedTask(run[k].task, run[k].at, found) IN
          /\ IF found = "yes" THEN UNCHANGED faults ELSE Fault
          /\ local' = [local EXCEPT ![run[k].at] = t]
          /\ run' = [run EXCEPT ![k] = RetryingRun(k, t, found)]
    BY <1>5 DEF Retry
  <2> DEFINE t == RetriedTask(run[k].task, run[k].at, found)
  <2>2. /\ t.addr = MyAddr(run[k].at)
        /\ t.status = IF found = "yes" THEN "ongoing" ELSE "failed"
    BY <1>0 DEF RetriedTask, Rec
  <2>3. /\ local' = [local EXCEPT ![run[k].at] = t]
        /\ run' = [run EXCEPT ![k] = RetryingRun(k, t, found)]
        /\ (UNCHANGED faults \/ Fault)
        /\ found = "no" => Fault
    BY <2>1
  <2> HIDE DEF t
  <2>4. /\ run'[k].task = t
        /\ run'[k].pc = IF found = "yes" THEN "resave" ELSE "refail"
    BY <1>0, <2>3 DEF RetryingRun, RunState
  <2>5. run[k].pc = "sleep" /\ UNCHANGED stored BY <1>5 DEF Retry
  <2>6. /\ run'[k].pc \in {"resave", "refail"}
        /\ t.status = IF run'[k].pc = "resave" THEN "ongoing" ELSE "failed"
        /\ run'[k].pc = "refail" => Fault
    BY <2>2, <2>3, <2>4
  <2>7. QED BY <2>2, <2>3, <2>4, <2>5, <2>6 DEF Carries
<1>6. CASE Resave(k)
  <2>1. /\ run[k].pc \in {"resave", "refail"} /\ UNCHANGED local
        /\ stored' \in {stored, run[k].task} /\ (UNCHANGED faults \/ Fault)
    BY <1>6 DEF Resave, StoreOrFail, SaveStored
  <2>2. /\ run[k].pc = "resave" => /\ run'[k].pc = "call"
                                   /\ run'[k].task = run[k].task
        /\ run[k].pc = "refail" => run'[k].pc = "lost"
    <3>1. run'[k] = IF run[k].pc = "resave" THEN CallingRun(k)
                                           ELSE Over(k, "lost")
      BY <1>0, <1>6 DEF Resave
    <3>2. QED BY <1>0, <3>1 DEF CallingRun, Over, RunState
  <2>3. QED BY <2>1, <2>2 DEF Carries
<1>7. QED BY <1>1, <1>2, <1>3, <1>4, <1>5, <1>6 DEF RunStep

\* The status of the task fits the point its chain has reached.
StatusFits(u) ==
    /\ u.pc \in {"create", "call", "resave"} => u.task.status = "ongoing"
    /\ u.pc \in {"sleep", "refail"} => u.task.status = "failed"
    /\ u.pc \in {"save", "notify"} => u.task.status \in {"completed", "failed"}

StatusOK == \A k \in Run : StatusFits(run[k])

LEMMA StatusStep ==
  ASSUME TypeOK, PlaceOK, StatusOK, Next
  PROVE  StatusOK'
<1> SUFFICES ASSUME NEW j \in Run PROVE StatusFits(run'[j])
  BY DEF StatusOK
<1>1. CASE run'[j] = run[j]
  BY <1>1 DEF StatusOK
<1>2. ASSUME NEW k \in Run, RunStep(k), k = j PROVE StatusFits(run'[j])
  <2>1. Moves(run[j], run'[j]) /\ Carries(run[j], run'[j])
    BY <1>2, ChainMoves, ChainCarries
  <2>2. QED BY <2>1 DEF StatusOK, StatusFits, Moves, Carries
<1>3. ASSUME NEW c \in Client, RetryMissing(c), j = nrun + 1
      PROVE  StatusFits(run'[j])
  BY <1>3, ChainStarts DEF StatusFits
<1>4. ASSUME NEW r \in Replica, TaskStart(r), j = 1 PROVE StatusFits(run'[j])
  <2>1. run'[1].pc = "create" /\ run'[1].task.status = "ongoing"
    BY <1>4, FirstChain
  <2>2. QED BY <1>4, <2>1 DEF StatusFits
<1>5. ASSUME NEW r \in Replica, Exit(r) PROVE StatusFits(run'[j])
  <2>1. run'[j] = run[j] \/ run'[j].pc = "lost" BY <1>5, ChainsLost
  <2>2. QED BY <1>1, <2>1 DEF StatusFits
<1>6. \A k \in Run : RunStep(k) => k = j \/ run'[j] = run[j]
  BY ChainMoves
<1>7. \A c \in Client : RetryMissing(c) => j = nrun + 1 \/ run'[j] = run[j]
  BY ChainStarts
<1>8. \A r \in Replica : TaskStart(r) => j = 1 \/ run'[j] = run[j]
  BY FirstChain
<1>9. QED
  BY <1>1, <1>2, <1>3, <1>4, <1>5, <1>6, <1>7, <1>8, ChainSteps

\* What justifies that the record is gone.
Answered == sent # {} \/ age = "old"

\* Stronger than KeptUntilAnswered, and inductive: a deletion that waits to
\* start, or is on its way to storage, was due.
KeptInv ==
    /\ StatusOK
    /\ \A r \in Replica : timers[r] > 0 \/ deletes[r] > 0 => Answered
    /\ KeptUntilAnswered

\* A result that was sent stays sent, and time does not go back.
LEMMA AnsweredStays ==
  ASSUME Answered, Next
  PROVE  Answered'
<1>1. \A c \in Client : \A r, t : RespondTaskResult(c, r, t) => Answered'
  BY DEF RespondTaskResult, Answered
<1>2. UNCHANGED <<sent, age>> => Answered' BY DEF Answered
<1>3. ASSUME NEW k \in Run, RunStep(k) PROVE Answered'
  BY <1>2, <1>3 DEF RunStep, CreateStored, CallEnds, Save, Notify, Retry, Resave
<1>4. ASSUME NEW r \in Replica, ReplicaStep(r) PROVE Answered'
  BY <1>2, <1>4 DEF ReplicaStep, RefreshAddrs, TaskStart, DeleteLocal,
     DeleteStored, CleanUp, Terminate, Exit, Restart
<1>5. ASSUME NEW c \in Client, ClientStep(c) \/ HandlerStep(c)
                               \/ WakeTimeout(c) \/ WakeQuit(c)
      PROVE  Answered'
  <2>1. \/ UNCHANGED sent
        \/ \E r, t : RespondTaskResult(c, r, t)
    BY <1>5 DEF ClientStep, Request, HandlerStep, ReadStored, Check, RetryMissing,
       Forward, LocalPoll, WakeDone, WakeTimeout, WakeQuit, Reread
  <2>2. UNCHANGED age
    BY <1>5 DEF ClientStep, Request, HandlerStep, ReadStored, Check, RetryMissing,
       Forward, LocalPoll, WakeDone, WakeTimeout, WakeQuit, Reread
  <2>3. QED BY <1>1, <1>2, <2>1, <2>2
<1>6. CASE Expire \/ CleanUpStored
  BY <1>6 DEF Expire, CleanUpStored, Answered
<1>7. QED BY <1>3, <1>4, <1>5, <1>6 DEF Next

\* respondTaskResult and cleanUpRoutine schedule deletions, for their reasons.
LEMMA DueStep ==
  ASSUME TypeOK, PlaceOK, KeptInv, Next, NEW s \in Replica,
         timers'[s] > 0 \/ deletes'[s] > 0
  PROVE  Answered'
<1>0. timers \in [Replica -> Nat] /\ deletes \in [Replica -> Nat]
  BY DEF TypeOK
<1>1. Answered => Answered' BY AnsweredStays
<1>2. CASE UNCHANGED <<timers, deletes>>
  BY <1>1, <1>2 DEF KeptInv
<1>3. ASSUME NEW k \in Run, RunStep(k) PROVE Answered'
  BY <1>2, <1>3, ChainMoves
<1>4. ASSUME NEW r \in Replica, ReplicaStep(r) PROVE Answered'
  <2>1. CASE DeleteLocal(r)
    <3>1. timers[r] > 0 /\ Answered BY <2>1 DEF DeleteLocal, KeptInv
    <3>2. QED BY <1>1, <3>1
  <2>2. CASE DeleteStored(r)
    <3>1. deletes[r] > 0 /\ Answered BY <2>2 DEF DeleteStored, KeptInv
    <3>2. QED BY <1>1, <3>1
  <2>3. CASE CleanUp(r)
    BY <1>1, <2>3 DEF CleanUp, Answered
  <2>4. CASE Exit(r)
    <3>1. timers[s] > 0 \/ deletes[s] > 0
      BY <1>0, <2>4 DEF Exit
    <3>2. QED BY <1>1, <3>1 DEF KeptInv
  <2>5. QED
    BY <1>2, <1>4, <2>1, <2>2, <2>3, <2>4
       DEF ReplicaStep, RefreshAddrs, TaskStart, Terminate, Restart
<1>5. ASSUME NEW c \in Client, ClientStep(c) \/ HandlerStep(c)
                               \/ WakeTimeout(c) \/ WakeQuit(c)
      PROVE  Answered'
  <2>1. \/ UNCHANGED <<timers, deletes>>
        \/ \E r, t : RespondTaskResult(c, r, t)
    BY <1>5 DEF ClientStep, Request, HandlerStep, ReadStored, Check, RetryMissing,
       Forward, LocalPoll, WakeDone, WakeTimeout, WakeQuit, Reread
  <2>2. QED BY <1>2, <2>1 DEF RespondTaskResult, Answered
<1>6. CASE Expire \/ CleanUpStored
  BY <1>2, <1>6 DEF Expire, CleanUpStored
<1>7. QED BY <1>3, <1>4, <1>5, <1>6 DEF Next

\* No step takes the record of an accepted task away before its time.
LEMMA KeptStep ==
  ASSUME BaseOK, KeptInv, Next
  PROVE  KeptInv'
<1>0. TypeOK /\ PlaceOK /\ ChainsOK /\ AskersOK BY DEF BaseOK
<1>1. StatusOK' BY <1>0, StatusStep DEF KeptInv
<1>2. \A r \in Replica : timers'[r] > 0 \/ deletes'[r] > 0 => Answered'
  BY <1>0, DueStep
<1>3. Answered => Answered' BY AnsweredStays
<1>4. Accepted /\ stored.status = "none" => Answered
  BY DEF KeptInv, KeptUntilAnswered, Answered
<1>5. ASSUME Accepted', stored'.status = "none" PROVE Answered'
  <2>1. CASE UNCHANGED stored /\ Accepted
    BY <1>3, <1>4, <1>5, <2>1
  <2>2. ASSUME NEW k \in Run, RunStep(k) PROVE Answered'
    <3>1. /\ Moves(run[k], run'[k]) /\ Carries(run[k], run'[k]) /\ nrun' = nrun
          /\ \A j \in Run \ {k} : run'[j] = run[j]
      BY <1>0, <2>2, ChainMoves, ChainCarries
    <3>2. stored' # stored => run[k].task.status # "none"
      BY <3>1 DEF Carries, KeptInv, StatusOK, StatusFits, Moves
    <3>3. stored' = stored BY <1>5, <3>1, <3>2 DEF Carries
    <3>4. CASE run[k].pc = "create"
      <4>1. run'[k].pc = "lost"
        <5>1. run'[k].pc = "call" => stored' = run[k].task
          BY <3>1, <3>4 DEF Carries
        <5>2. run[k].task.status = "ongoing"
          BY <3>4 DEF KeptInv, StatusOK, StatusFits
        <5>3. QED BY <1>5, <3>1, <3>4, <5>1, <5>2 DEF Moves
      <4>2. run'[k].calls = run[k].calls BY <3>1, <3>4, <4>1 DEF Moves
      <4>3. 1 \in Run BY ConstantsAssumption DEF Run
      <4>4. run'[1].calls = run[1].calls BY <3>1, <4>2, <4>3
      <4>5. Accepted BY <1>5, <3>1, <4>4 DEF Accepted
      <4>6. QED BY <2>1, <3>3, <4>5
    <3>5. CASE run[k].pc # "create"
      <4>1. run[k].pc \in Working BY <3>1, <3>5 DEF Moves, Working
      <4>2. QED BY <1>0, <2>1, <3>3, <4>1 DEF ChainsOK
    <3>6. QED BY <3>4, <3>5
  <2>3. ASSUME NEW c \in Client, RetryMissing(c) PROVE Answered'
    BY <1>0, <2>1, <2>3 DEF RetryMissing, AskersOK
  <2>4. ASSUME NEW r \in Replica, ReplicaStep(r) PROVE Answered'
    <3>1. CASE DeleteStored(r)
      <4>1. deletes[r] > 0 BY <3>1 DEF DeleteStored
      <4>2. QED BY <1>3, <4>1 DEF KeptInv
    <3>2. CASE TaskStart(r)
      <4>1. 1 \in Run /\ nrun' = 1 /\ run'[1].calls = 0
        BY <1>0, <3>2, FirstChain
      <4>2. QED BY <1>5, <4>1 DEF Accepted
    <3>3. CASE Exit(r)
      <4>1. 1 \in Run BY ConstantsAssumption DEF Run
      <4>2. run'[1].calls = run[1].calls /\ nrun' = nrun /\ UNCHANGED stored
        BY <1>0, <3>3, <4>1, ChainsLost DEF Exit
      <4>3. QED BY <1>5, <2>1, <4>2 DEF Accepted
    <3>4. CASE ~DeleteStored(r) /\ ~TaskStart(r) /\ ~Exit(r)
      <4>1. UNCHANGED <<stored, run, nrun>>
        BY <2>4, <3>4 DEF ReplicaStep, RefreshAddrs, DeleteLocal, CleanUp,
           Terminate, Restart
      <4>2. QED BY <1>5, <2>1, <4>1 DEF Accepted
    <3>5. QED BY <3>1, <3>2, <3>3, <3>4
  <2>5. ASSUME NEW c \in Client, ClientStep(c) \/ HandlerStep(c)
                                 \/ WakeTimeout(c) \/ WakeQuit(c)
        PROVE  Answered'
    <3>1. CASE ~RetryMissing(c)
      <4>1. UNCHANGED <<stored, run, nrun>>
        BY <2>5, <3>1 DEF ClientStep, Request, HandlerStep, ReadStored, Check,
           Forward, LocalPoll, WakeDone, WakeTimeout, WakeQuit
      <4>2. QED BY <1>5, <2>1, <4>1 DEF Accepted
    <3>2. QED BY <2>3, <3>1
  <2>6. CASE Expire
    BY <2>6 DEF Expire, Answered
  <2>7. CASE CleanUpStored
    BY <1>3, <2>7 DEF CleanUpStored, Answered
  <2>8. QED BY <2>2, <2>4, <2>5, <2>6, <2>7 DEF Next
<1>6. QED BY <1>1, <1>2, <1>5 DEF KeptInv, KeptUntilAnswered, Answered

\* A task that was accepted stays in Lifecycle's storage until a response with
\* its result was sent or its lifetime is over, whatever is lost, deleted late,
\* retried or restarted in between.
THEOREM RecordIsKept == Spec => []KeptUntilAnswered
<1> DEFINE Inv == BaseOK /\ KeptInv
<1>1. Init => Inv
  <2> SUFFICES ASSUME Init PROVE KeptInv
    BY BaseInit
  <2>1. \A k \in Run : run[k].pc = "unused" BY DEF Init, UnusedRun
  <2>2. \A r \in Replica : timers[r] = 0 /\ deletes[r] = 0 BY DEF Init
  <2>3. ~Accepted BY DEF Init, Accepted
  <2>4. QED
    BY <2>1, <2>2, <2>3 DEF KeptInv, StatusOK, StatusFits, KeptUntilAnswered
<1>2. Inv /\ [Next]_vars => Inv'
  <2> SUFFICES ASSUME BaseOK, KeptInv, [Next]_vars PROVE KeptInv'
    BY BaseStep
  <2>1. CASE UNCHANGED vars
    BY <2>1 DEF vars, KeptInv, StatusOK, KeptUntilAnswered, Accepted, Answered
  <2>2. QED BY <2>1, KeptStep
<1>3. Inv => KeptUntilAnswered
  BY DEF KeptInv
<1>4. QED BY <1>1, <1>2, <1>3, PTL DEF Spec

-----------------------------------------------------------------------------
(* Handlers that wait for a result *)

\* CreateTask could not save the record: the task was never accepted.
Aborted == run[1].pc = "lost" /\ run[1].calls = 0

\* A chain that keeps the ongoing entry of replica r up to date.
Minds(u, r) == u.at = r /\ u.pc \in {"create", "call", "sleep", "resave"}

\* An entry of localTasks that says "ongoing" has a chain on its replica that
\* will change it.
OngoingOK ==
    \A r \in Replica : local[r].status = "ongoing" =>
        /\ local[r].run \in Run
        /\ Minds(run[local[r].run], r) \/ Aborted

\* A handler waits on the channel of a chain that was started.
WaitOK ==
    \A c \in Client : req[c].pc = "wait" =>
        req[c].run \in Run /\ run[req[c].run].pc # "unused"

\* Entries of localTasks are written by chains and removed by the rest.
LEMMA LocalMoves ==
  ASSUME TypeOK, Next
  PROVE  \/ \E k \in Run : RunStep(k)
         \/ \E c \in Client : RetryMissing(c)
         \/ \E r \in Replica : TaskStart(r)
         \/ \E r \in Replica : Exit(r)
         \/ /\ UNCHANGED <<run, nrun>>
            /\ \A r \in Replica : local'[r] \in {local[r], NoRec}
<1> DEFINE Rest == /\ UNCHANGED <<run, nrun>>
                   /\ \A r \in Replica : local'[r] \in {local[r], NoRec}
<1>0. local \in [Replica -> Rec] BY DEF TypeOK
<1>1. ASSUME NEW s \in Replica, ReplicaStep(s) PROVE TaskStart(s) \/ Exit(s) \/ Rest
  <2>1. CASE DeleteLocal(s) \/ CleanUp(s)
    <3>1. local' = [local EXCEPT ![s] = NoRec] /\ UNCHANGED <<run, nrun>>
      BY <2>1 DEF DeleteLocal, CleanUp
    <3>2. QED BY <1>0, <3>1
  <2>2. CASE RefreshAddrs(s) \/ DeleteStored(s) \/ Terminate(s) \/ Restart(s)
    BY <2>2 DEF RefreshAddrs, DeleteStored, Terminate, Restart
  <2>3. QED BY <1>1, <2>1, <2>2 DEF ReplicaStep
<1>2. ASSUME NEW c \in Client, ClientStep(c) \/ HandlerStep(c)
                               \/ WakeTimeout(c) \/ WakeQuit(c)
      PROVE  RetryMissing(c) \/ Rest
  <2>1. RetryMissing(c) \/ UNCHANGED <<local, run, nrun>>
    BY <1>2 DEF ClientStep, Request, HandlerStep, ReadStored, Check, Forward,
       LocalPoll, WakeDone, WakeTimeout, WakeQuit
  <2>2. QED BY <2>1
<1>3. CASE Expire \/ CleanUpStored
  BY <1>3 DEF Expire, CleanUpStored
<1>4. QED BY <1>1, <1>2, <1>3 DEF Next

\* A handler comes to wait only in LocalTaskPollEndpoint, on an ongoing entry.
LEMMA WaitMoves ==
  ASSUME TypeOK, PlaceOK, Next, NEW c \in Client, req'[c].pc = "wait"
  PROVE  \/ req'[c] = req[c] /\ \A r \in Replica : Exit(r) => req[c].site # r
         \/ /\ req[c].pc = "local" /\ local[req[c].site].status = "ongoing"
            /\ req'[c].run = local[req[c].site].run
            /\ req'[c].site = req[c].site
            /\ UNCHANGED <<local, run, nrun>>
<1> DEFINE Stays == req'[c] = req[c]
           Comes == /\ req[c].pc = "local" /\ local[req[c].site].status = "ongoing"
                    /\ req'[c].run = local[req[c].site].run
                    /\ req'[c].site = req[c].site
                    /\ UNCHANGED <<local, run, nrun>>
<1>0. /\ req \in [Client -> Req] /\ req[c] \in Req /\ Idle.pc # "wait"
  BY DEF TypeOK, Idle
<1>1. ASSUME NEW r \in Replica, Exit(r) PROVE Stays /\ req[c].site # r
  BY <1>0, <1>1 DEF Exit
<1>2. ASSUME NEW b \in Client, ClientStep(b) PROVE Stays
  <2>1. PICK r \in Replica, kind \in Kind : Request(b, r, kind)
    BY <1>2 DEF ClientStep
  <2>2. PICK p \in {"local", "read"} :
           \/ UNCHANGED req
           \/ req' = [req EXCEPT ![b] = [Idle EXCEPT !.pc = p, !.kind = kind,
                                                     !.at = r, !.site = r]]
    BY <2>1 DEF Request
  <2>3. [Idle EXCEPT !.pc = p, !.kind = kind, !.at = r, !.site = r].pc = p
    BY DEF Idle
  <2>4. QED BY <1>0, <2>2, <2>3
<1>3. ASSUME NEW b \in Client, HandlerStep(b) \/ WakeTimeout(b) \/ WakeQuit(b)
      PROVE  Stays \/ Comes
  <2>1. ASSUME NEW a, Reply(b, a) PROVE Stays
    BY <1>0, <2>1 DEF Reply
  <2>2. ASSUME NEW r, NEW t, RespondTaskResult(b, r, t) PROVE Stays
    BY <2>1, <2>2 DEF RespondTaskResult
  <2>3. CASE ReadStored(b)
    <3>1. CASE req' = [req EXCEPT ![b].pc = "check", ![b].rec = stored]
      BY <1>0, <3>1 DEF Req
    <3>2. QED BY <2>1, <2>2, <2>3, <3>1 DEF ReadStored
  <2>4. CASE Check(b)
    <3>1. CASE req' = [req EXCEPT ![b].pc = "missing"]
      BY <1>0, <3>1 DEF Req
    <3>2. CASE req' = [req EXCEPT ![b].pc = "forward",
                                  ![b].site = AskedReplica(b), ![b].rec = NoRec]
      BY <1>0, <3>2 DEF Req
    <3>3. QED BY <2>1, <2>4, <3>1, <3>2 DEF Check
  <2>5. CASE RetryMissing(b)
    BY <1>0, <2>5 DEF RetryMissing, Req
  <2>6. CASE Forward(b)
    <3>1. CASE req' = [req EXCEPT ![b].pc = "local"]
      BY <1>0, <3>1 DEF Req
    <3>2. QED BY <2>1, <2>6, <3>1 DEF Forward
  <2>7. CASE LocalPoll(b)
    <3>1. CASE /\ local[req[b].site].status = "ongoing"
               /\ req' = [req EXCEPT ![b].pc = "wait",
                                     ![b].run = local[req[b].site].run]
      BY <1>0, <2>7, <3>1 DEF LocalPoll, Req
    <3>2. QED BY <2>1, <2>2, <2>7, <3>1 DEF LocalPoll
  <2>8. CASE WakeDone(b) \/ WakeTimeout(b)
    BY <2>1, <2>2, <2>8 DEF WakeDone, WakeTimeout, Reread
  <2>9. CASE WakeQuit(b)
    BY <2>1, <2>9 DEF WakeQuit
  <2>10. QED
    BY <1>3, <2>3, <2>4, <2>5, <2>6, <2>7, <2>8, <2>9 DEF HandlerStep
<1>4. ASSUME NEW k \in Run, RunStep(k) PROVE Stays
  <2>1. CASE Resave(k)
    BY <1>0, <2>1 DEF Resave, Req
  <2>2. CASE ~Resave(k)
    BY <1>4, <2>2 DEF RunStep, CreateStored, CallEnds, Save, Notify, Retry
  <2>3. QED BY <2>1, <2>2
<1>5. ASSUME NEW r \in Replica, ReplicaStep(r) PROVE Stays
  BY <1>1, <1>5 DEF ReplicaStep, RefreshAddrs, TaskStart, DeleteLocal,
     DeleteStored, CleanUp, Terminate, Restart
<1>6. Expire \/ CleanUpStored => Stays
  BY DEF Expire, CleanUpStored
<1> HIDE DEF Stays, Comes
<1>7. Stays \/ Comes
  BY <1>2, <1>3, <1>4, <1>5, <1>6 DEF Next
<1>8. QED
  <2>1. CASE \E r \in Replica : Exit(r)
    <3>1. PICK r \in Replica : Exit(r) BY <2>1
    <3>2. ASSUME NEW s \in Replica, Exit(s) PROVE Stays /\ req[c].site # s
      BY <1>1, <3>2
    <3>3. QED BY <3>1, <3>2 DEF Stays
  <2>2. CASE ~ \E r \in Replica : Exit(r)
    BY <1>7, <2>2 DEF Stays, Comes
  <2>3. QED BY <2>1, <2>2

\* Stronger than WaiterIsServed, and inductive with BaseOK and GenuineInv.
WaitInv == BaseOK /\ GenuineInv /\ StatusOK /\ OngoingOK /\ WaitOK /\ WaiterIsServed

\* An ongoing entry is left with the chain that minds it.
LEMMA OngoingStep ==
  ASSUME BaseOK, GenuineInv, GenuineInv', StatusOK, StatusOK', OngoingOK, Next
  PROVE  OngoingOK'
<1> SUFFICES ASSUME NEW r \in Replica, local'[r].status = "ongoing"
             PROVE  /\ local'[r].run \in Run
                    /\ Minds(run'[local'[r].run], r) \/ Aborted'
  BY DEF OngoingOK
<1>0. /\ TypeOK /\ PlaceOK /\ ChainsOK /\ AskersOK
      /\ 1 \in Run /\ nrun \in Nat /\ Run \subseteq Nat
      /\ local \in [Replica -> Rec] /\ NoRec.status = "none"
  BY ConstantsAssumption DEF BaseOK, TypeOK, Run, NoRec
<1> DEFINE j == local[r].run
<1>1. local[r].status = "ongoing" => j \in Run /\ (Minds(run[j], r) \/ Aborted)
  BY DEF OngoingOK
<1>2. ASSUME NEW k \in Run, RunStep(k)
      PROVE  /\ local'[r].run \in Run
             /\ Minds(run'[local'[r].run], r) \/ Aborted'
  <2>1. /\ Moves(run[k], run'[k]) /\ Carries(run[k], run'[k])
        /\ \A i \in Run \ {k} : run'[i] = run[i]
    BY <1>0, <1>2, ChainMoves, ChainCarries
  <2>2. CASE r = run[k].at /\ run'[k].pc \in {"save", "resave", "refail"}
    <3>1. local'[r] = run'[k].task BY <1>0, <2>1, <2>2 DEF Carries
    <3>2. run'[k].pc = "resave" BY <2>2, <3>1 DEF StatusOK, StatusFits
    <3>3. run'[k].task.run = k BY <3>2 DEF GenuineInv, Alive
    <3>4. run'[k].at = r BY <2>1, <2>2, <3>2 DEF Moves
    <3>5. QED BY <3>1, <3>2, <3>3, <3>4 DEF Minds
  <2>3. CASE ~(r = run[k].at /\ run'[k].pc \in {"save", "resave", "refail"})
    <3>1. local'[r] = local[r] BY <1>0, <2>1, <2>3 DEF Carries
    <3>2. j \in Run /\ (Minds(run[j], r) \/ Aborted) BY <1>1, <3>1
    <3>3. CASE Aborted
      <4>1. run[k].pc # "lost" BY <2>1 DEF Moves
      <4>2. Aborted' BY <1>0, <2>1, <3>3, <4>1 DEF Aborted
      <4>3. QED BY <3>1, <3>2, <4>2
    <3>4. CASE Minds(run[j], r) /\ j # k
      BY <2>1, <3>1, <3>2, <3>4
    <3>5. CASE Minds(run[j], r) /\ j = k
      <4>1. CASE run[k].pc = "create" /\ run'[k].pc = "lost"
        <5>1. k = 1 /\ run[k].calls = 0 BY <1>0, <4>1 DEF ChainsOK
        <5>2. run'[k].calls = 0 BY <2>1, <4>1, <5>1 DEF Moves
        <5>3. QED BY <3>1, <3>2, <4>1, <5>1, <5>2 DEF Aborted
      <4>2. CASE ~(run[k].pc = "create" /\ run'[k].pc = "lost")
        BY <2>1, <2>3, <3>1, <3>2, <3>5, <4>2 DEF Minds, Moves
      <4>3. QED BY <4>1, <4>2
    <3>6. QED BY <3>2, <3>3, <3>4, <3>5
  <2>4. QED BY <2>2, <2>3
<1>3. ASSUME NEW c \in Client, RetryMissing(c)
      PROVE  /\ local'[r].run \in Run
             /\ Minds(run'[local'[r].run], r) \/ Aborted'
  <2> DEFINE k == nrun + 1
  <2>1. /\ k \in Run /\ \A i \in Run \ {k} : run'[i] = run[i]
        /\ run'[k].at = req[c].at /\ run'[k].task.run = k
        /\ run'[k].pc \in {"resave", "refail"}
        /\ run'[k].task.status = IF run'[k].pc = "resave" THEN "ongoing"
                                                          ELSE "failed"
        /\ local' = [local EXCEPT ![req[c].at] = run'[k].task]
    BY <1>0, <1>3, ChainStarts
  <2>2. run[k].pc = "unused" BY <1>0, <2>1 DEF ChainsOK
  <2>3. ~Aborted
    BY <1>0, <1>3 DEF RetryMissing, AskersOK, Accepted, Aborted
  <2> HIDE DEF k
  <2>4. CASE r = req[c].at
    BY <1>0, <2>1, <2>4 DEF Minds
  <2>5. CASE r # req[c].at
    <3>1. local'[r] = local[r] BY <1>0, <2>1, <2>5
    <3>2. j \in Run /\ Minds(run[j], r) BY <1>1, <2>3, <3>1
    <3>3. j # k BY <2>2, <3>2 DEF Minds
    <3>4. QED BY <2>1, <3>1, <3>2, <3>3
  <2>6. QED BY <2>4, <2>5
<1>4. ASSUME NEW s \in Replica, TaskStart(s)
      PROVE  /\ local'[r].run \in Run
             /\ Minds(run'[local'[r].run], r) \/ Aborted'
  <2>1. /\ nrun = 0 /\ local' = [local EXCEPT ![s] = run'[1].task]
        /\ run'[1].task.run = 1 /\ run'[1].at = s /\ run'[1].pc = "create"
    BY <1>0, <1>4, FirstChain
  <2>2. \A i \in Run : run[i].pc = "unused"
    BY <1>0, <2>1, ConstantsAssumption DEF ChainsOK, Run
  <2>3. CASE r = s
    BY <1>0, <2>1, <2>3 DEF Minds
  <2>4. CASE r # s
    <3>1. local'[r] = local[r] BY <1>0, <2>1, <2>4
    <3>2. QED BY <1>0, <1>1, <2>2, <3>1 DEF Minds, Aborted
  <2>5. QED BY <2>3, <2>4
<1>5. ASSUME NEW s \in Replica, Exit(s)
      PROVE  /\ local'[r].run \in Run
             /\ Minds(run'[local'[r].run], r) \/ Aborted'
  <2>1. local' = [local EXCEPT ![s] = NoRec] BY <1>5 DEF Exit
  <2>2. r # s /\ local'[r] = local[r] BY <1>0, <2>1
  <2>3. j \in Run /\ (Minds(run[j], r) \/ Aborted) BY <1>1, <2>2
  <2>4. Minds(run[j], r) => run'[j] = run[j]
    BY <1>0, <1>5, <2>2, <2>3, ChainsLost DEF Minds
  <2>5. Aborted => Aborted'
    BY <1>0, <1>5, ChainsLost DEF Aborted, Alive
  <2>6. QED BY <2>2, <2>3, <2>4, <2>5
<1>6. CASE /\ UNCHANGED <<run, nrun>>
           /\ \A s \in Replica : local'[s] \in {local[s], NoRec}
  <2>1. local'[r] = local[r] BY <1>0, <1>6
  <2>2. QED BY <1>1, <1>6, <2>1 DEF Aborted
<1>7. QED BY <1>0, <1>2, <1>3, <1>4, <1>5, <1>6, LocalMoves

\* What keeps a handler that waits at site on the channel of chain k alive.
Served(k, site) ==
    \/ run[k].closes > 0
    \/ Alive(k) /\ run[k].at = site
    \/ run[k].pc = "lost" /\ (local[site].status # "ongoing" \/ local[site].run # k)

\* It does not end while the handler waits.
LEMMA ServedStays ==
  ASSUME BaseOK, GenuineInv', StatusOK', OngoingOK, Next, Accepted,
         NEW k \in Run, run[k].pc # "unused", NEW site \in Replica,
         Served(k, site), \A r \in Replica : Exit(r) => site # r
  PROVE  run'[k].pc # "unused" /\ Served(k, site)'
<1>0. /\ TypeOK /\ PlaceOK /\ ChainsOK /\ AskersOK
      /\ 1 \in Run /\ nrun \in Nat /\ Run \subseteq Nat
      /\ local \in [Replica -> Rec] /\ NoRec.status = "none"
      /\ run[k].closes \in Nat
  BY ConstantsAssumption, RunFields DEF BaseOK, TypeOK, Run, NoRec
<1>1. ASSUME NEW m \in Run, RunStep(m) PROVE run'[k].pc # "unused" /\ Served(k, site)'
  <2>1. /\ Moves(run[m], run'[m]) /\ Carries(run[m], run'[m])
        /\ \A i \in Run \ {m} : run'[i] = run[i]
    BY <1>0, <1>1, ChainMoves, ChainCarries
  <2>2. CASE m # k
    <3>1. run'[k] = run[k] BY <2>1, <2>2
    <3>2. local'[site] = local[site] \/ local'[site].run = m
      <4>1. run'[m].pc \in {"save", "resave", "refail"} => run'[m].task.run = m
        BY DEF GenuineInv, Alive
      <4>2. QED BY <1>0, <2>1, <4>1 DEF Carries
    <3>3. QED BY <2>2, <3>1, <3>2 DEF Served, Alive
  <2>3. CASE m = k
    <3>1. run'[k].pc # "unused" BY <2>1, <2>3 DEF Moves
    <3>2. CASE run[k].closes > 0
      <4>1. run'[k].closes > 0 BY <1>0, <2>1, <2>3, <3>2 DEF Moves
      <4>2. QED BY <3>1, <4>1 DEF Served
    <3>3. CASE run'[k].pc = "end"
      <4>1. run'[k].closes > 0 BY <1>0, <2>1, <2>3, <3>3 DEF Moves
      <4>2. QED BY <3>1, <4>1 DEF Served
    <3>4. CASE run'[k].pc = "lost"
      <4>1. run[k].pc # "create"
        BY <1>0 DEF ChainsOK, Accepted
      <4>2. run[k].pc = "refail" BY <2>1, <2>3, <3>4, <4>1 DEF Moves
      <4>3. local' = local BY <2>1, <2>3, <3>4 DEF Carries
      <4>4. ~Aborted BY DEF Accepted, Aborted
      <4>5. local[site].status # "ongoing" \/ local[site].run # k
        BY <4>2, <4>4 DEF OngoingOK, Minds
      <4>6. QED BY <3>1, <3>4, <4>3, <4>5 DEF Served
    <3>5. CASE run[k].closes = 0 /\ run'[k].pc \notin {"end", "lost"}
      <4>1. run[k].pc # "lost" BY <2>1, <2>3 DEF Moves
      <4>2. run[k].at = site BY <3>5, <4>1 DEF Served
      <4>3. run'[k].at = site BY <2>1, <2>3, <3>5, <4>2 DEF Moves
      <4>4. QED BY <3>1, <3>5, <4>3 DEF Served, Alive
    <3>6. QED BY <1>0, <3>2, <3>3, <3>4, <3>5
  <2>4. QED BY <2>2, <2>3
<1>2. ASSUME NEW c \in Client, RetryMissing(c)
      PROVE  run'[k].pc # "unused" /\ Served(k, site)'
  <2>1. /\ nrun + 1 \in Run /\ \A i \in Run \ {nrun + 1} : run'[i] = run[i]
        /\ run'[nrun + 1].task.run = nrun + 1
        /\ local' = [local EXCEPT ![req[c].at] = run'[nrun + 1].task]
    BY <1>0, <1>2, ChainStarts
  <2>2. k # nrun + 1 BY <1>0, <2>1 DEF ChainsOK
  <2>3. run'[k] = run[k] BY <2>1, <2>2
  <2>4. local'[site] = local[site] \/ local'[site].run # k BY <1>0, <2>1, <2>2
  <2>5. QED BY <2>3, <2>4 DEF Served, Alive
<1>3. ASSUME NEW r \in Replica, TaskStart(r)
      PROVE  run'[k].pc # "unused" /\ Served(k, site)'
  BY <1>0, <1>3 DEF TaskStart, Accepted
<1>4. ASSUME NEW r \in Replica, Exit(r)
      PROVE  run'[k].pc # "unused" /\ Served(k, site)'
  <2>1. local' = [local EXCEPT ![r] = NoRec] /\ site # r BY <1>4 DEF Exit
  <2>2. local'[site] = local[site] BY <1>0, <2>1
  <2>3. \/ run'[k] = run[k]
        \/ run'[k].pc = "lost" /\ run[k].at # site /\ Alive(k)
    BY <1>0, <1>4, <2>1, ChainsLost
  <2>4. run'[k].closes = run[k].closes BY <1>0, <1>4, ChainsLost
  <2>5. QED BY <2>2, <2>3, <2>4 DEF Served, Alive
<1>5. CASE /\ UNCHANGED <<run, nrun>>
           /\ \A s \in Replica : local'[s] \in {local[s], NoRec}
  BY <1>0, <1>5 DEF Served, Alive
<1>6. QED BY <1>0, <1>1, <1>2, <1>3, <1>4, <1>5, LocalMoves

\* A handler starts to wait for a chain that serves it, and is served on.
LEMMA WaitStep ==
  ASSUME BaseOK, GenuineInv', StatusOK', OngoingOK, WaitOK, WaiterIsServed, Next
  PROVE  WaitOK' /\ WaiterIsServed'
<1> SUFFICES ASSUME NEW c \in Client, req'[c].pc = "wait"
             PROVE  /\ req'[c].run \in Run /\ run'[req'[c].run].pc # "unused"
                    /\ Served(req[c].run, req[c].site)'
  BY DEF WaitOK, WaiterIsServed, Served
<1>0. TypeOK /\ PlaceOK /\ ChainsOK /\ AskersOK BY DEF BaseOK
<1>1. CASE req'[c] = req[c] /\ \A r \in Replica : Exit(r) => req[c].site # r
  <2>1. /\ req[c].run \in Run /\ run[req[c].run].pc # "unused"
        /\ Served(req[c].run, req[c].site)
    BY <1>1 DEF WaitOK, WaiterIsServed, Served
  <2>2. Accepted /\ req[c].site \in Replica
    BY <1>0, <1>1 DEF AskersOK, PlaceOK
  <2>3. PICK k \in Run, site \in Replica : k = req[c].run /\ site = req[c].site
    BY <2>1, <2>2
  <2>4. run'[k].pc # "unused" /\ Served(k, site)'
    BY <1>1, <2>1, <2>2, <2>3, ServedStays
  <2>5. k = req'[c].run /\ site = req'[c].site BY <1>1, <2>3
  <2>6. QED BY <2>4, <2>5 DEF Served, Alive
<1>2. CASE /\ req[c].pc = "local" /\ local[req[c].site].status = "ongoing"
           /\ req'[c].run = local[req[c].site].run
           /\ req'[c].site = req[c].site
           /\ UNCHANGED <<local, run, nrun>>
  <2>1. Accepted /\ req[c].site \in Replica
    BY <1>0, <1>2 DEF AskersOK, PlaceOK
  <2>2. ~Aborted BY <2>1 DEF Accepted, Aborted
  <2>3. req'[c].run \in Run /\ Minds(run[req'[c].run], req'[c].site)
    BY <1>2, <2>1, <2>2 DEF OngoingOK
  <2>4. QED BY <1>2, <2>3 DEF Minds, Served, Alive
<1>3. QED BY <1>0, <1>1, <1>2, WaitMoves

\* No handler of LocalTaskPollEndpoint waits in vain: its channel is closed, or
\* the chain that will close it runs on the handler's replica, or the entry it
\* reads again at the time-out is no longer the ongoing one it waits for.
THEOREM WaitersAreServed == Spec => []WaiterIsServed
<1>1. Init => WaitInv
  <2> SUFFICES ASSUME Init PROVE StatusOK /\ OngoingOK /\ WaitOK /\ WaiterIsServed
    BY BaseInit, GenuineInit DEF WaitInv
  <2>1. \A k \in Run : run[k].pc = "unused" BY DEF Init, UnusedRun
  <2>2. \A r \in Replica : local[r].status = "none" BY DEF Init, NoRec
  <2>3. \A c \in Client : req[c].pc = "idle" BY DEF Init, Idle
  <2>4. QED
    BY <2>1, <2>2, <2>3
       DEF StatusOK, StatusFits, OngoingOK, WaitOK, WaiterIsServed
<1>2. WaitInv /\ [Next]_vars => WaitInv'
  <2> SUFFICES ASSUME WaitInv, [Next]_vars PROVE WaitInv'
    OBVIOUS
  <2>0. /\ BaseOK /\ TypeOK /\ PlaceOK /\ GenuineInv /\ StatusOK /\ OngoingOK
        /\ WaitOK /\ WaiterIsServed
    BY DEF WaitInv, BaseOK
  <2>1. BaseOK' /\ GenuineInv'
    BY <2>0, BaseStep, GenuineStep
  <2>2. CASE Next
    <3>1. StatusOK' BY <2>0, <2>2, StatusStep
    <3>2. OngoingOK' BY <2>0, <2>1, <2>2, <3>1, OngoingStep
    <3>3. WaitOK' /\ WaiterIsServed' BY <2>0, <2>1, <2>2, <3>1, WaitStep
    <3>4. QED BY <2>1, <3>1, <3>2, <3>3 DEF WaitInv
  <2>3. CASE UNCHANGED vars
    <3>1. UNCHANGED <<local, run, req>> BY <2>3 DEF vars
    <3>2. StatusOK' /\ OngoingOK' /\ WaitOK' /\ WaiterIsServed'
      BY <2>0, <3>1 DEF StatusOK, OngoingOK, Aborted, WaitOK, WaiterIsServed,
         Alive
    <3>3. QED BY <2>1, <3>2 DEF WaitInv
  <2>4. QED BY <2>2, <2>3
<1>3. WaitInv => WaiterIsServed
  BY DEF WaitInv
<1>4. QED BY <1>1, <1>2, <1>3, PTL DEF Spec

-----------------------------------------------------------------------------
(* The service the clients see *)

\* A step of TaskService, or none.
ServiceStep == [Service!Next]_(Service!svars)

\* A step that answers nobody and gets no reply from the job at most accepts
\* the task.
LEMMA QuietStep ==
  ASSUME BaseOK, Next, UNCHANGED <<replied, answer>>
  PROVE  ServiceStep
<1>1. Accepted => Accepted' BY AcceptedStays DEF BaseOK
<1>2. Accepted \in BOOLEAN /\ Accepted' \in BOOLEAN BY DEF Accepted
<1>3. CASE Accepted' = Accepted
  BY <1>3 DEF ServiceStep, Service!svars
<1>4. CASE ~Accepted /\ Accepted'
  BY <1>2, <1>4 DEF ServiceStep, Service!Next, Service!Accept
<1>5. QED BY <1>1, <1>2, <1>3, <1>4

\* Clients that wait for an answer, and may get one.
LEMMA AskersPending ==
  ASSUME BaseOK, NEW c \in Client, req[c].pc # "idle"
  PROVE  Accepted /\ Service!Pending(c)
<1>1. Accepted /\ ~Final(c) /\ answer[c] \in Answer
  BY DEF BaseOK, AskersOK, TypeOK
<1>2. QED BY <1>1 DEF Final, Answer, Service!Pending

\* Clients that are told to ask again, by a process that ends or by a retry
\* that failed.
LEMMA AgainStep ==
  ASSUME BaseOK, Next, UNCHANGED replied, Accepted, NEW S \in SUBSET Client,
         \A c \in S : req[c].pc # "idle",
         answer' = [c \in Client |-> IF c \in S THEN Again ELSE answer[c]]
  PROVE  ServiceStep
<1>1. Accepted' BY AcceptedStays DEF BaseOK
<1>2. Accepted \in BOOLEAN /\ Accepted' \in BOOLEAN BY DEF Accepted
<1>3. S \in SUBSET {c \in Client : Service!Pending(c)}
  BY AskersPending
<1>4. answer' = [c \in Client |-> IF c \in S THEN [kind |-> "again", run |-> 0]
                                            ELSE answer[c]]
  BY DEF Again
<1>5. Service!AskAgain
  BY <1>1, <1>2, <1>3, <1>4 DEF Service!AskAgain
<1>6. QED BY <1>5 DEF ServiceStep, Service!Next

\* The answer of one handler.
LEMMA ReplyStep ==
  ASSUME BaseOK, Next, UNCHANGED replied, NEW c \in Client, req[c].pc # "idle",
         NEW a \in Service!FinalAnswer \cup {Again}, Reply(c, a)
  PROVE  ServiceStep
<1>1. Accepted /\ Service!Pending(c) BY AskersPending
<1>2. Accepted' BY <1>1, AcceptedStays DEF BaseOK
<1>3. Accepted \in BOOLEAN /\ Accepted' \in BOOLEAN BY DEF Accepted
<1>4. answer \in [Client -> Answer] BY DEF BaseOK, TypeOK
<1>5. CASE req[c].kind # "poll"
  BY <1>5, QuietStep DEF Reply
<1>6. CASE req[c].kind = "poll" /\ a \in Service!FinalAnswer
  <2>1. answer' = [answer EXCEPT ![c] = a] BY <1>6 DEF Reply
  <2>2. Service!Finish(c)
    BY <1>1, <1>2, <1>3, <1>6, <2>1 DEF Service!Finish
  <2>3. QED BY <2>2 DEF ServiceStep, Service!Next
<1>7. CASE req[c].kind = "poll" /\ a = Again
  <2>1. answer' = [answer EXCEPT ![c] = Again] BY <1>7 DEF Reply
  <2>2. answer' = [b \in Client |-> IF b \in {c} THEN Again ELSE answer[b]]
    BY <1>4, <2>1
  <2>3. {c} \in SUBSET Client /\ \A b \in {c} : req[b].pc # "idle" OBVIOUS
  <2>4. QED BY <1>1, <2>2, <2>3, AgainStep
<1>8. QED BY <1>5, <1>6, <1>7

\* The answer with the task's result.
LEMMA ResultStep ==
  ASSUME BaseOK, Next, UNCHANGED replied, NEW c \in Client, req[c].pc # "idle",
         NEW r, NEW t \in Rec, Genuine(t), RespondTaskResult(c, r, t)
  PROVE  ServiceStep
<1> DEFINE a == [kind |-> IF t.status = "completed" THEN "ok" ELSE "failed",
                 run |-> t.run]
<1>1. a \in Service!FinalAnswer
  <2>1. t.run \in 0..MaxRuns BY RecFacts
  <2>2. CASE t.status = "completed"
    BY <2>2 DEF Genuine, Service!FinalAnswer
  <2>3. CASE t.status # "completed"
    BY <2>1, <2>3 DEF Service!FinalAnswer
  <2>4. QED BY <2>2, <2>3
<1>2. Reply(c, a) \/ Reply(c, Again) BY DEF RespondTaskResult
<1> HIDE DEF a
<1>3. QED BY <1>1, <1>2, ReplyStep

\* Every step of the replicas is one of the service, or none.
LEMMA Simulates ==
  ASSUME BaseOK, GenuineInv, [Next]_vars
  PROVE  ServiceStep
<1>1. CASE UNCHANGED vars
  BY <1>1 DEF vars, ServiceStep, Service!svars, Accepted
<1> SUFFICES ASSUME Next PROVE ServiceStep
  BY <1>1
<1>0. TypeOK /\ PlaceOK /\ ChainsOK /\ AskersOK BY DEF BaseOK
<1>2. ASSUME NEW k \in Run, RunStep(k) PROVE ServiceStep
  <2>1. CASE Resave(k)
    <3> DEFINE S == {c \in Client : /\ req[c].pc = "retry" /\ req[c].run = k
                                    /\ run[k].pc # "resave"
                                    /\ req[c].kind = "poll"}
    <3>1. Accepted
      BY <1>0, <2>1 DEF Resave, ChainsOK, Working
    <3>2. /\ UNCHANGED replied
          /\ answer' = [c \in Client |-> IF c \in S THEN Again ELSE answer[c]]
      BY <2>1 DEF Resave
    <3>3. S \in SUBSET Client /\ \A c \in S : req[c].pc # "idle" OBVIOUS
    <3> HIDE DEF S
    <3>4. QED BY <3>1, <3>2, <3>3, AgainStep
  <2>2. ASSUME NEW o \in Outcome, CallEnds(k, o) PROVE ServiceStep
    <3>1. run[k].pc = "call" /\ UNCHANGED answer BY <2>2 DEF CallEnds
    <3>2. Accepted BY <1>0, <3>1 DEF ChainsOK, Working
    <3>3. Accepted' BY <1>0, <3>2, AcceptedStays
    <3>4. Accepted \in BOOLEAN /\ Accepted' \in BOOLEAN BY DEF Accepted
    <3>5. replied' \in {replied, replied \cup {k}} BY <2>2 DEF CallEnds
    <3>6. CASE replied' = replied BY <3>1, <3>6, QuietStep
    <3>7. CASE replied' = replied \cup {k}
      <4>1. k \in 1..MaxRuns BY DEF Run
      <4>2. Service!JobReplies(k)
        BY <3>1, <3>2, <3>3, <3>4, <3>7 DEF Service!JobReplies
      <4>3. QED BY <4>1, <4>2 DEF ServiceStep, Service!Next
    <3>8. QED BY <3>5, <3>6, <3>7
  <2>3. CASE CreateStored(k) \/ Save(k) \/ Notify(k) \/ Retry(k)
    BY <2>3, QuietStep DEF CreateStored, Save, Notify, Retry
  <2>4. QED BY <1>2, <2>1, <2>2, <2>3 DEF RunStep
<1>3. ASSUME NEW c \in Client, ClientStep(c) PROVE ServiceStep
  BY <1>3, QuietStep DEF ClientStep, Request
<1>4. ASSUME NEW c \in Client, HandlerStep(c) \/ WakeTimeout(c) \/ WakeQuit(c)
      PROVE  ServiceStep
  <2>1. req[c].pc # "idle" /\ UNCHANGED replied
    BY <1>4 DEF HandlerStep, ReadStored, Check, RetryMissing, Forward, LocalPoll,
       WakeDone, WakeTimeout, WakeQuit
  <2>2. /\ req[c].site \in Replica /\ stored \in Rec /\ Genuine(stored)
        /\ local[req[c].site] \in Rec /\ Genuine(local[req[c].site])
    BY <1>0, <2>1 DEF PlaceOK, TypeOK, GenuineInv
  <2>3. Gone \in Service!FinalAnswer BY DEF Gone, Service!FinalAnswer
  <2>4. /\ Reply(c, Again) => ServiceStep
        /\ Reply(c, Gone) => ServiceStep
    BY <2>1, <2>3, ReplyStep
  <2>5. \A r : /\ RespondTaskResult(c, r, stored) => ServiceStep
               /\ RespondTaskResult(c, r, local[req[c].site]) => ServiceStep
    BY <2>1, <2>2, ResultStep
  <2>6. UNCHANGED answer => ServiceStep BY <2>1, QuietStep
  <2> HIDE DEF ServiceStep
  <2>7. CASE ReadStored(c) BY <2>4, <2>5, <2>6, <2>7 DEF ReadStored
  <2>8. CASE Check(c) BY <2>4, <2>6, <2>8 DEF Check
  <2>9. CASE RetryMissing(c) BY <2>6, <2>9 DEF RetryMissing
  <2>10. CASE Forward(c) BY <2>4, <2>6, <2>10 DEF Forward
  <2>11. CASE LocalPoll(c) BY <2>4, <2>5, <2>6, <2>11 DEF LocalPoll
  <2>12. CASE WakeDone(c) \/ WakeTimeout(c)
    BY <2>4, <2>5, <2>12 DEF WakeDone, WakeTimeout, Reread
  <2>13. CASE WakeQuit(c) BY <2>4, <2>13 DEF WakeQuit
  <2>14. QED
    BY <1>4, <2>7, <2>8, <2>9, <2>10, <2>11, <2>12, <2>13 DEF HandlerStep
<1>5. ASSUME NEW r \in Replica, ReplicaStep(r) PROVE ServiceStep
  <2>1. CASE Exit(r)
    <3> DEFINE S == {c \in Client :
                       /\ \/ req[c].at = r
                          \/ req[c].site = r /\ req[c].pc \in {"local", "wait"}
                       /\ req[c].kind = "poll"}
    <3>1. /\ UNCHANGED replied
          /\ answer' = [c \in Client |-> IF c \in S THEN Again ELSE answer[c]]
      BY <2>1 DEF Exit
    <3>2. S \in SUBSET Client /\ \A c \in S : req[c].pc # "idle"
      BY <1>0, ConstantsAssumption DEF AskersOK
    <3> HIDE DEF S
    <3>3. CASE Accepted
      BY <3>1, <3>2, <3>3, AgainStep
    <3>4. CASE ~Accepted
      <4>1. S = {} BY <1>0, <3>2, <3>4 DEF AskersOK
      <4>2. answer' = answer
        BY <1>0, <3>1, <4>1 DEF TypeOK
      <4>3. QED BY <3>1, <4>2, QuietStep
    <3>5. QED BY <3>3, <3>4
  <2>2. CASE ~Exit(r)
    BY <1>5, <2>2, QuietStep DEF ReplicaStep, RefreshAddrs, TaskStart,
       DeleteLocal, DeleteStored, CleanUp, Terminate, Restart
  <2>3. QED BY <2>1, <2>2
<1>6. CASE Expire \/ CleanUpStored
  BY <1>6, QuietStep DEF Expire, CleanUpStored
<1>7. QED BY <1>2, <1>3, <1>4, <1>5, <1>6 DEF Next

\* Under all retries, copies, forwards and crashes the clients see the service
\* that TaskService describes: a task accepted once, whose executions get their
\* replies one by one, and to every client at most one final answer, which is
\* a reply that was really given, a failure, or the news that the task is gone.
THEOREM ServiceImplemented == Spec => ImplementsService
<1>1. Init => BaseOK /\ GenuineInv /\ Service!Init
  <2>1. Init => Service!Init
    BY DEF Init, Service!Init, Accepted, Service!NoAnswerYet, NoAnswer
  <2>2. QED BY <2>1, BaseInit, GenuineInit
<1>2. BaseOK /\ GenuineInv /\ [Next]_vars => (BaseOK /\ GenuineInv)'
  BY BaseStep, GenuineStep DEF BaseOK
<1>3. BaseOK /\ GenuineInv /\ [Next]_vars => [Service!Next]_(Service!svars)
  BY Simulates DEF ServiceStep
<1>4. QED BY <1>1, <1>2, <1>3, PTL DEF Spec, ImplementsService, Service!Spec

-----------------------------------------------------------------------------
(* Executions side by side *)

\* Nothing has failed so far, no record is too old, and every replica knew its
\* address when it started a chain.
Untroubled ==
    /\ faults = 0
    /\ age = "young"
    /\ \A k \in Run : run[k].pc # "unused" => run[k].born # NoAddr

\* The first execution is over.
Finished == run[1].pc \in {"save", "notify", "end"}

ResultIn(t) == t.status \in {"completed", "failed"}

\* The task has one home: the replica h that started it runs its chain, holds
\* the only entry, and is named in storage. A result is found there only when
\* the first execution is over.
CopiesAt(h) ==
    /\ h \in known /\ h \in Replica
    /\ local[h].status # "none"
    /\ \A r \in Replica \ {h} : local[r].status = "none"
    /\ run[1].pc \notin {"refail", "lost"}
    /\ Alive(1) => run[1].at = h /\ run[1].task.addr = h
    /\ stored.status # "none" => stored.addr = h
    /\ ResultIn(local[h]) \/ ResultIn(stored) => Finished

\* Handlers elsewhere look for the task at its home.
AsksAt(q, h) ==
    /\ q.pc \notin {"missing", "retry"}
    /\ q.pc \in {"read", "check"} => q.at # h
    /\ q.pc = "check" => q.rec.addr = h

\* As long as no result was sent there is at most the first chain.
Alone ==
    /\ \A r \in Replica : timers[r] = 0 /\ deletes[r] = 0
    /\ \/ /\ nrun = 0 /\ stored.status = "none"
          /\ \A r \in Replica : local[r].status = "none"
       \/ /\ nrun = 1
          /\ CopiesAt(run[1].born)
          /\ \A c \in Client : AsksAt(req[c], run[1].born)

\* Stronger than DuplicateHasCause, and inductive with BaseOK and StatusOK.
HomeInv ==
    Untroubled => /\ \A r \in Replica : proc[r] = "up"
                  /\ IF sent = {} THEN Alone ELSE Finished

\* Faults are counted, and nothing else changes the count.
LEMMA FaultSteps ==
  ASSUME TypeOK, Next
  PROVE  UNCHANGED faults \/ Fault
<1>1. \A c \in Client : \A r, t : RespondTaskResult(c, r, t) =>
          UNCHANGED faults \/ Fault
  BY DEF RespondTaskResult
<1>2. ASSUME NEW k \in Run, RunStep(k) PROVE UNCHANGED faults \/ Fault
  BY <1>2, ChainCarries DEF Carries
<1>3. ASSUME NEW r \in Replica, ReplicaStep(r) PROVE UNCHANGED faults \/ Fault
  BY <1>3 DEF ReplicaStep, RefreshAddrs, TaskStart, DeleteLocal, DeleteStored,
     StoreOrFail, CleanUp, Terminate, Exit, Restart
<1>4. ASSUME NEW c \in Client, ClientStep(c) \/ HandlerStep(c)
                               \/ WakeTimeout(c) \/ WakeQuit(c)
      PROVE  UNCHANGED faults \/ Fault
  BY <1>1, <1>4 DEF ClientStep, Request, HandlerStep, ReadStored, Check,
     RetryMissing, Forward, LocalPoll, WakeDone, WakeTimeout, WakeQuit, Reread
<1>5. CASE Expire \/ CleanUpStored
  BY <1>5 DEF Expire, CleanUpStored
<1>6. QED BY <1>2, <1>3, <1>4, <1>5 DEF Next

\* What is untroubled now has been so before, and no step was a failure.
LEMMA UntroubledBefore ==
  ASSUME BaseOK, Next, Untroubled'
  PROVE  Untroubled /\ ~Fault
<1>0. TypeOK /\ PlaceOK /\ ChainsOK /\ faults \in Nat /\ nrun \in Nat
  BY DEF BaseOK, TypeOK
<1>1. ~Fault /\ faults = 0
  <2>1. ~Fault BY <1>0 DEF Fault, Untroubled
  <2>2. QED BY <1>0, <2>1, FaultSteps DEF Untroubled
<1>2. age = "young"
  <2>1. CASE UNCHANGED age BY <2>1 DEF Untroubled
  <2>2. CASE Expire BY <2>2 DEF Expire
  <2>3. ASSUME NEW k \in Run, RunStep(k) PROVE UNCHANGED age
    BY <1>0, <2>3, ChainMoves
  <2>4. ASSUME NEW r \in Replica, ReplicaStep(r) PROVE UNCHANGED age
    BY <2>4 DEF ReplicaStep, RefreshAddrs, TaskStart, DeleteLocal, DeleteStored,
       CleanUp, Terminate, Exit, Restart
  <2>5. ASSUME NEW c \in Client, ClientStep(c) \/ HandlerStep(c)
                                 \/ WakeTimeout(c) \/ WakeQuit(c)
        PROVE  UNCHANGED age
    BY <2>5 DEF ClientStep, Request, HandlerStep, ReadStored, Check, RetryMissing,
       Forward, LocalPoll, WakeDone, WakeTimeout, WakeQuit
  <2>6. CleanUpStored => UNCHANGED age BY DEF CleanUpStored
  <2>7. QED BY <2>1, <2>2, <2>3, <2>4, <2>5, <2>6 DEF Next
<1>3. ASSUME NEW k \in Run, run[k].pc # "unused" PROVE run[k].born # NoAddr
  <2>1. run'[k].pc # "unused" /\ run'[k].born = run[k].born
    <3>1. ASSUME NEW m \in Run, RunStep(m)
          PROVE  run'[k].pc # "unused" /\ run'[k].born = run[k].born
      <4>1. CASE m = k BY <1>0, <3>1, <4>1, ChainMoves DEF Moves
      <4>2. CASE m # k BY <1>0, <1>3, <3>1, <4>2, ChainMoves
      <4>3. QED BY <4>1, <4>2
    <3>2. k <= nrun BY <1>0, <1>3 DEF ChainsOK, Run
    <3>3. ASSUME NEW c \in Client, RetryMissing(c) PROVE run'[k] = run[k]
      <4>1. k # nrun + 1 BY <1>0, <3>2 DEF Run
      <4>2. QED BY <1>0, <3>3, <4>1, ChainStarts
    <3>4. ASSUME NEW r \in Replica, TaskStart(r) PROVE FALSE
      BY <1>0, <3>2, <3>4 DEF TaskStart, Run
    <3>5. ASSUME NEW r \in Replica, Exit(r)
          PROVE  run'[k].pc # "unused" /\ run'[k].born = run[k].born
      BY <1>0, <1>3, <3>5, ChainsLost
    <3>6. QED BY <1>3, <3>1, <3>3, <3>4, <3>5, ChainSteps
  <2>2. QED BY <2>1 DEF Untroubled
<1>4. QED BY <1>1, <1>2, <1>3 DEF Untroubled

\* Without trouble replicas neither end nor restart, and nothing expires.
LEMMA UntroubledSteps ==
  ASSUME BaseOK, HomeInv, Next, Untroubled'
  PROVE  /\ UNCHANGED proc
         /\ \/ \E k \in Run : RunStep(k)
            \/ \E c \in Client : \/ ClientStep(c) \/ HandlerStep(c)
                                 \/ WakeTimeout(c) \/ WakeQuit(c)
            \/ \E r \in Replica : \/ RefreshAddrs(r) \/ TaskStart(r)
                                  \/ DeleteLocal(r) \/ DeleteStored(r)
<1>1. Untroubled /\ ~Fault BY UntroubledBefore
<1>2. \A r \in Replica : proc[r] = "up" BY <1>1 DEF HomeInv
<1>3. ~Expire /\ ~CleanUpStored
  BY <1>1 DEF Expire, CleanUpStored, Untroubled
<1>4. \A r \in Replica : ~CleanUp(r) /\ ~Terminate(r) /\ ~Exit(r) /\ ~Restart(r)
  BY <1>1, <1>2 DEF CleanUp, Terminate, Exit, Restart, Untroubled
<1>5. \A r \in Replica : ReplicaStep(r) => \/ RefreshAddrs(r) \/ TaskStart(r)
                                           \/ DeleteLocal(r) \/ DeleteStored(r)
  BY <1>4 DEF ReplicaStep
<1>6. \/ \E k \in Run : RunStep(k)
      \/ \E c \in Client : \/ ClientStep(c) \/ HandlerStep(c)
                           \/ WakeTimeout(c) \/ WakeQuit(c)
      \/ \E r \in Replica : \/ RefreshAddrs(r) \/ TaskStart(r)
                            \/ DeleteLocal(r) \/ DeleteStored(r)
  BY <1>3, <1>5 DEF Next
<1>7. \A k \in Run : RunStep(k) => UNCHANGED proc
  BY ChainMoves DEF BaseOK
<1>8. \A c \in Client : ClientStep(c) \/ HandlerStep(c)
                        \/ WakeTimeout(c) \/ WakeQuit(c) => UNCHANGED proc
  BY DEF ClientStep, Request, HandlerStep, ReadStored, Check, RetryMissing,
     Forward, LocalPoll, WakeDone, WakeTimeout, WakeQuit
<1>9. \A r \in Replica : RefreshAddrs(r) \/ TaskStart(r)
                         \/ DeleteLocal(r) \/ DeleteStored(r) => UNCHANGED proc
  BY DEF RefreshAddrs, TaskStart, DeleteLocal, DeleteStored
<1>10. QED BY <1>6, <1>7, <1>8, <1>9

\* The first chain stays at home.
LEMMA HomeRun ==
  ASSUME BaseOK, StatusOK, StatusOK', Alone, Untroubled, ~Fault,
         NEW k \in Run, RunStep(k)
  PROVE  Alone'
<1>0. /\ TypeOK /\ PlaceOK /\ ChainsOK /\ AskersOK
      /\ 1 \in Run /\ nrun \in Nat /\ local \in [Replica -> Rec]
  BY ConstantsAssumption DEF BaseOK, TypeOK, Run
<1>1. /\ Moves(run[k], run'[k]) /\ Carries(run[k], run'[k])
      /\ UNCHANGED <<nrun, timers, deletes, known>>
  BY <1>0, ChainMoves, ChainCarries
<1>2. nrun = 1 /\ k = 1
  <2>1. k <= nrun BY <1>0, <1>1 DEF ChainsOK, Moves, Run
  <2>2. nrun <= 1 BY DEF Alone
  <2>3. QED BY <1>0, <2>1, <2>2 DEF Run
<1>3. PICK h \in Replica : h = run[1].born
  BY <1>2 DEF Alone, CopiesAt
<1>4. CopiesAt(h) /\ \A c \in Client : AsksAt(req[c], h)
  BY <1>2, <1>3 DEF Alone
<1>5. run'[1].born = h BY <1>1, <1>2, <1>3 DEF Moves
<1>6. \A c \in Client : AsksAt(req'[c], h)
  <2>1. \A c \in Client : req'[c] = req[c]
    <3>1. CASE Resave(k)
      <4>1. \A c \in Client : req[c].pc # "retry" BY <1>4 DEF AsksAt
      <4>2. QED BY <3>1, <4>1 DEF Resave
    <3>2. CASE ~Resave(k)
      <4>1. UNCHANGED req
        BY <3>2 DEF RunStep, CreateStored, CallEnds, Save, Notify, Retry
      <4>2. QED BY <4>1
    <3>3. QED BY <3>1, <3>2
  <2>2. QED BY <1>4, <2>1
<1>7. CopiesAt(h)'
  <2>1. run[1].at = h /\ run[1].task.addr = h
    BY <1>1, <1>2, <1>4 DEF CopiesAt, Alive, Moves
  <2>2. run'[1].pc \notin {"refail", "lost"}
    BY <1>1, <1>2, <1>4 DEF Carries, Moves, CopiesAt
  <2>3. Alive(1)' => run'[1].at = h /\ run'[1].task.addr = h
    <3>1. MyAddr(h) = h BY <1>4 DEF CopiesAt, MyAddr
    <3>2. QED BY <1>1, <1>2, <2>1, <2>2, <3>1 DEF Alive, Moves, Carries
  <2>4. /\ \A r \in Replica \ {h} : local'[r] = local[r]
        /\ IF run'[1].pc \in {"save", "resave"} THEN local'[h] = run'[1].task
                                                 ELSE local'[h] = local[h]
    BY <1>0, <1>1, <1>2, <2>1, <2>2 DEF Carries
  <2>5. local'[h].status # "none"
    BY <1>0, <1>4, <2>4 DEF CopiesAt, StatusOK, StatusFits
  <2>6. stored'.status # "none" => stored'.addr = h
    BY <1>1, <1>2, <1>4, <2>1 DEF Carries, CopiesAt
  <2>7. Finished => Finished'
    BY <1>1, <1>2 DEF Finished, Moves
  <2>8. ResultIn(local'[h]) => Finished'
    <3>1. CASE run'[1].pc = "save" BY <3>1 DEF Finished
    <3>2. CASE run'[1].pc = "resave"
      <4>1. local'[h].status = "ongoing"
        BY <1>0, <2>4, <3>2 DEF StatusOK, StatusFits
      <4>2. QED BY <4>1 DEF ResultIn
    <3>3. CASE run'[1].pc \notin {"save", "resave"}
      BY <1>4, <2>4, <2>7, <3>3 DEF CopiesAt
    <3>4. QED BY <3>1, <3>2, <3>3
  <2>9. ResultIn(stored') => Finished'
    <3>1. CASE stored' = stored BY <1>4, <2>7, <3>1 DEF CopiesAt
    <3>2. CASE stored' # stored
      <4>1. stored' = run[1].task
            /\ run[1].pc \in {"create", "resave", "refail", "save"}
        BY <1>1, <1>2, <3>2 DEF Carries
      <4>2. CASE run[1].pc = "save" BY <2>7, <4>2 DEF Finished
      <4>3. CASE run[1].pc \in {"create", "resave"}
        <5>1. stored'.status = "ongoing"
          BY <1>0, <4>1, <4>3 DEF StatusOK, StatusFits
        <5>2. QED BY <5>1 DEF ResultIn
      <4>4. run[1].pc # "refail" BY <1>4 DEF CopiesAt
      <4>5. QED BY <4>1, <4>2, <4>3, <4>4
    <3>3. QED BY <3>1, <3>2
  <2>10. h \in known' BY <1>1, <1>4 DEF CopiesAt
  <2>11. \A r \in Replica \ {h} : local'[r].status = "none"
    BY <1>4, <2>4 DEF CopiesAt
  <2>12. QED
    BY <2>2, <2>3, <2>5, <2>6, <2>8, <2>9, <2>10, <2>11 DEF CopiesAt
<1>8. CopiesAt(run[1].born)'
  BY <1>5, <1>7 DEF CopiesAt, Finished, Alive
<1>9. QED BY <1>1, <1>2, <1>5, <1>6, <1>8 DEF Alone

\* Handlers away from home find the task at home.
LEMMA HomeHandler ==
  ASSUME BaseOK, Alone, HomeInv, Untroubled, ~Fault, sent = {}, sent' = {},
         NEW c \in Client,
         ClientStep(c) \/ HandlerStep(c) \/ WakeTimeout(c) \/ WakeQuit(c)
  PROVE  Alone'
<1>0. /\ TypeOK /\ PlaceOK /\ ChainsOK /\ AskersOK
      /\ req \in [Client -> Req] /\ req[c] \in Req /\ Idle.pc = "idle"
  BY DEF BaseOK, TypeOK, Idle
<1>1. Accepted
  BY <1>0 DEF ClientStep, Request, HandlerStep, ReadStored, Check, RetryMissing,
     Forward, LocalPoll, WakeDone, WakeTimeout, WakeQuit, AskersOK
<1>2. nrun = 1 BY <1>1 DEF Alone, Accepted
<1>3. PICK h \in Replica : h = run[1].born
  BY <1>2 DEF Alone, CopiesAt
<1>4. CopiesAt(h) /\ \A b \in Client : AsksAt(req[b], h)
  BY <1>2, <1>3 DEF Alone
<1>5. \A r, t : ~RespondTaskResult(c, r, t)
  BY DEF RespondTaskResult
<1>6. ~RetryMissing(c) BY <1>4 DEF RetryMissing, AsksAt
<1>7. UNCHANGED <<run, nrun, local, stored, known, deletes>>
  BY <1>6 DEF ClientStep, Request, HandlerStep, ReadStored, Check, Forward,
     LocalPoll, WakeDone, WakeTimeout, WakeQuit
<1>8. UNCHANGED timers
  BY <1>5, <1>6 DEF ClientStep, Request, HandlerStep, ReadStored, Check, Forward,
     LocalPoll, WakeDone, WakeTimeout, WakeQuit, Reread
<1>9. \A b \in Client : AsksAt(req'[b], h)
  <2> SUFFICES ASSUME NEW b \in Client PROVE AsksAt(req'[b], h)
    OBVIOUS
  <2>0. AsksAt(Idle, h) /\ AsksAt(req[b], h) BY <1>0, <1>4 DEF AsksAt
  <2>1. ASSUME NEW a, Reply(c, a) PROVE AsksAt(req'[b], h)
    BY <1>0, <2>0, <2>1 DEF Reply
  <2>2. CASE ClientStep(c)
    <3>1. PICK r \in Replica, kind \in Kind : Request(c, r, kind)
      BY <2>2 DEF ClientStep
    <3>2. PICK p \in {"local", "read"} :
             /\ p = "read" => local[r].status = "none"
             /\ \/ UNCHANGED req
                \/ req' = [req EXCEPT ![c] = [Idle EXCEPT !.pc = p, !.kind = kind,
                                                        !.at = r, !.site = r]]
      BY <3>1 DEF Request
    <3>3. p = "read" => r # h BY <1>4, <3>2 DEF CopiesAt
    <3> DEFINE q == [Idle EXCEPT !.pc = p, !.kind = kind, !.at = r, !.site = r]
    <3>4. q.pc = p /\ q.at = r BY DEF Idle
    <3> HIDE DEF q
    <3>5. AsksAt(q, h) BY <3>3, <3>4 DEF AsksAt
    <3>6. req' \in {req, [req EXCEPT ![c] = q]} BY <3>2 DEF q
    <3>7. QED BY <1>0, <2>0, <3>5, <3>6
  <2>3. CASE ReadStored(c)
    <3>1. CASE /\ stored.status = "ongoing"
               /\ req' = [req EXCEPT ![c].pc = "check", ![c].rec = stored]
      <4>1. stored.addr = h /\ req[c].at # h
        BY <1>4, <2>3, <3>1 DEF CopiesAt, AsksAt, ReadStored
      <4>2. QED BY <1>0, <2>0, <3>1, <4>1 DEF AsksAt, Req
    <3>2. QED BY <1>5, <2>1, <2>3, <3>1 DEF ReadStored
  <2>4. CASE Check(c)
    <3>1. req[c].at # h /\ req[c].rec.addr = h
      BY <1>4, <2>4 DEF AsksAt, Check
    <3>2. h # NoAddr BY ConstantsAssumption
    <3>3. AskedReplica(c) = h /\ ~ClaimedByMe(c)
      BY <3>1, <3>2 DEF AskedReplica, ClaimedByMe, MyAddr
    <3>4. proc[h] = "up" /\ local[h].status # "none"
      BY <1>4 DEF HomeInv, CopiesAt
    <3>5. CASE req' = [req EXCEPT ![c].pc = "forward",
                                  ![c].site = AskedReplica(c), ![c].rec = NoRec]
      BY <1>0, <2>0, <3>5 DEF AsksAt, Req
    <3>6. QED BY <2>1, <2>4, <3>3, <3>4, <3>5 DEF Check
  <2>5. CASE Forward(c)
    <3>1. CASE req' = [req EXCEPT ![c].pc = "local"]
      BY <1>0, <2>0, <3>1 DEF AsksAt, Req
    <3>2. QED BY <2>1, <2>5, <3>1 DEF Forward
  <2>6. CASE LocalPoll(c)
    <3>1. CASE req' = [req EXCEPT ![c].pc = "wait",
                                  ![c].run = local[req[c].site].run]
      BY <1>0, <2>0, <3>1 DEF AsksAt, Req
    <3>2. QED BY <1>5, <2>1, <2>6, <3>1 DEF LocalPoll
  <2>7. CASE WakeDone(c) \/ WakeTimeout(c)
    BY <1>5, <2>1, <2>7 DEF WakeDone, WakeTimeout, Reread
  <2>8. CASE WakeQuit(c)
    BY <2>1, <2>8 DEF WakeQuit
  <2>9. QED
    BY <1>6, <2>2, <2>3, <2>4, <2>5, <2>6, <2>7, <2>8 DEF HandlerStep
<1>10. CopiesAt(run[1].born)'
  BY <1>3, <1>4, <1>7 DEF CopiesAt, Finished, Alive
<1>11. QED BY <1>2, <1>3, <1>7, <1>8, <1>9, <1>10 DEF Alone

\* The task starts at home; before that there is nothing of it.
LEMMA HomeStart ==
  ASSUME BaseOK, Alone, Untroubled', NEW s \in Replica, TaskStart(s)
  PROVE  Alone'
<1>0. /\ TypeOK /\ PlaceOK /\ ChainsOK /\ AskersOK
      /\ local \in [Replica -> Rec]
  BY DEF BaseOK, TypeOK
<1>1. /\ nrun = 0 /\ nrun' = 1 /\ 1 \in Run
      /\ run'[1].pc = "create" /\ run'[1].at = s /\ run'[1].born = MyAddr(s)
      /\ run'[1].task.status = "ongoing" /\ run'[1].task.addr = MyAddr(s)
      /\ local' = [local EXCEPT ![s] = run'[1].task]
  BY <1>0, FirstChain
<1>2. UNCHANGED <<stored, known, req, timers, deletes>> BY DEF TaskStart
<1>3. MyAddr(s) = s /\ s \in known
  BY <1>1 DEF Untroubled, MyAddr
<1>4. stored.status = "none" /\ \A r \in Replica : local[r].status = "none"
  BY <1>1 DEF Alone
<1>5. local'[s].status = "ongoing"
      /\ \A r \in Replica \ {s} : local'[r].status = "none"
  BY <1>0, <1>1, <1>4
<1>6. \A c \in Client : AsksAt(req'[c], s)
  <2>1. ~Accepted BY <1>1 DEF Accepted
  <2>2. \A c \in Client : req'[c].pc = "idle" BY <1>0, <1>2, <2>1 DEF AskersOK
  <2>3. QED BY <2>2 DEF AsksAt
<1>7. CopiesAt(s)'
  BY <1>1, <1>2, <1>3, <1>4, <1>5 DEF CopiesAt, ResultIn
<1>8. CopiesAt(run[1].born)'
  BY <1>1, <1>3, <1>7 DEF CopiesAt, Finished, Alive
<1>9. QED BY <1>1, <1>2, <1>3, <1>6, <1>8 DEF Alone

\* A result is sent only when the first execution is over, and it stays over.
LEMMA FinishedStays ==
  ASSUME BaseOK, Next, Finished, UNCHANGED proc, \A r \in Replica : proc[r] = "up"
  PROVE  Finished'
<1>0. TypeOK /\ PlaceOK /\ ChainsOK /\ 1 \in Run /\ nrun \in Nat
  BY ConstantsAssumption DEF BaseOK, TypeOK, Run
<1>1. nrun >= 1 BY <1>0 DEF ChainsOK, Finished
<1>2. ASSUME NEW k \in Run, RunStep(k) PROVE Finished'
  BY <1>0, <1>2, ChainMoves DEF Moves, Finished
<1>3. ASSUME NEW c \in Client, RetryMissing(c) PROVE Finished'
  <2>1. nrun + 1 # 1 BY <1>0, <1>1
  <2>2. run'[1] = run[1] BY <1>0, <1>3, <2>1, ChainStarts
  <2>3. QED BY <2>2 DEF Finished
<1>4. \A r \in Replica : ~TaskStart(r) BY <1>1 DEF TaskStart
<1>5. \A r \in Replica : ~Exit(r) BY <1>0 DEF Exit, TypeOK
<1>6. UNCHANGED <<run, nrun>> => Finished' BY DEF Finished
<1>7. QED BY <1>2, <1>3, <1>4, <1>5, <1>6, ChainSteps

LEMMA FirstResult ==
  ASSUME BaseOK, Alone, NEW c \in Client, HandlerStep(c) \/ WakeTimeout(c),
         NEW r \in Replica, NEW t, RespondTaskResult(c, r, t), ResultIn(t),
         t = stored \/ \E s \in Replica : t = local[s]
  PROVE  Finished
<1>1. req[c].pc # "idle"
  BY DEF HandlerStep, ReadStored, Check, RetryMissing, Forward, LocalPoll,
     WakeDone, WakeTimeout
<1>2. nrun = 1
  BY <1>1 DEF BaseOK, AskersOK, Accepted, Alone
<1>3. CopiesAt(run[1].born) BY <1>2 DEF Alone
<1>4. QED BY <1>3 DEF CopiesAt, ResultIn

LEMMA HomeStep ==
  ASSUME BaseOK, StatusOK, StatusOK', HomeInv, Next
  PROVE  HomeInv'
<1> SUFFICES ASSUME Untroubled'
             PROVE  /\ \A r \in Replica : proc'[r] = "up"
                    /\ IF sent' = {} THEN Alone' ELSE Finished'
  BY DEF HomeInv
<1>0. TypeOK /\ PlaceOK BY DEF BaseOK
<1>1. /\ Untroubled /\ ~Fault
      /\ \A r \in Replica : proc[r] = "up"
      /\ IF sent = {} THEN Alone ELSE Finished
  BY UntroubledBefore DEF HomeInv
<1>2. UNCHANGED proc /\ \A r \in Replica : proc'[r] = "up"
  BY <1>1, UntroubledSteps
<1>3. \/ \E k \in Run : RunStep(k)
      \/ \E c \in Client : \/ ClientStep(c) \/ HandlerStep(c)
                           \/ WakeTimeout(c) \/ WakeQuit(c)
      \/ \E r \in Replica : \/ RefreshAddrs(r) \/ TaskStart(r)
                            \/ DeleteLocal(r) \/ DeleteStored(r)
  BY UntroubledSteps
<1>4. \A k \in Run : RunStep(k) => UNCHANGED sent
  BY <1>0, ChainMoves
<1>5. \A r \in Replica : RefreshAddrs(r) \/ TaskStart(r)
                         \/ DeleteLocal(r) \/ DeleteStored(r) => UNCHANGED sent
  BY DEF RefreshAddrs, TaskStart, DeleteLocal, DeleteStored
<1>6. ASSUME NEW c \in Client, ClientStep(c) \/ HandlerStep(c)
                               \/ WakeTimeout(c) \/ WakeQuit(c),
             sent = {}, sent' # {}
      PROVE  Finished
  <2>0. Alone BY <1>1, <1>6
  <2>1. /\ ~ClientStep(c) /\ ~WakeQuit(c) /\ ~Check(c) /\ ~RetryMissing(c)
        /\ ~Forward(c)
    BY <1>6 DEF ClientStep, Request, WakeQuit, Check, RetryMissing, Forward
  <2>2. req[c].pc # "idle"
    BY <1>6, <2>1 DEF HandlerStep, ReadStored, LocalPoll, WakeDone, WakeTimeout
  <2>3. /\ req[c].at \in Replica /\ req[c].site \in Replica
        /\ local[req[c].site].status \in Status
    BY <1>0, <2>2, RecFacts DEF PlaceOK, TypeOK
  <2>4. CASE ReadStored(c)
    <3>1. RespondTaskResult(c, req[c].at, stored) /\ ResultIn(stored)
      BY <1>6, <2>4 DEF ReadStored, ResultIn
    <3>2. QED BY <2>0, <2>3, <2>4, <3>1, FirstResult DEF HandlerStep
  <2>5. CASE LocalPoll(c)
    <3>1. /\ RespondTaskResult(c, req[c].site, local[req[c].site])
          /\ ResultIn(local[req[c].site])
      BY <1>6, <2>5 DEF LocalPoll, ResultIn
    <3>2. QED BY <2>0, <2>3, <2>5, <3>1, FirstResult DEF HandlerStep
  <2>6. CASE WakeDone(c) \/ WakeTimeout(c)
    <3>1. /\ RespondTaskResult(c, req[c].site, local[req[c].site])
          /\ ResultIn(local[req[c].site])
      BY <1>6, <2>3, <2>6 DEF WakeDone, WakeTimeout, Reread, ResultIn, Status
    <3>2. QED BY <2>0, <2>3, <2>6, <3>1, FirstResult DEF HandlerStep
  <2>7. QED BY <1>6, <2>1, <2>4, <2>5, <2>6 DEF HandlerStep
<1>7. sent # {} => sent' # {}
  <2>1. \A c \in Client : ClientStep(c) \/ HandlerStep(c)
                          \/ WakeTimeout(c) \/ WakeQuit(c) =>
           UNCHANGED sent \/ sent' = sent \cup {c}
    BY DEF ClientStep, Request, HandlerStep, ReadStored, Check, RetryMissing,
       Forward, LocalPoll, WakeDone, WakeTimeout, WakeQuit, Reread,
       RespondTaskResult
  <2>2. QED BY <1>3, <1>4, <1>5, <2>1
<1>8. CASE sent' # {}
  <2>1. Finished BY <1>1, <1>3, <1>4, <1>5, <1>6, <1>8
  <2>2. QED BY <1>1, <1>2, <1>8, <2>1, FinishedStays
<1>9. CASE sent' = {}
  <2>1. sent = {} /\ Alone BY <1>1, <1>7, <1>9
  <2>2. ASSUME NEW k \in Run, RunStep(k) PROVE Alone'
    BY <1>1, <2>1, <2>2, HomeRun
  <2>3. ASSUME NEW c \in Client, ClientStep(c) \/ HandlerStep(c)
                                 \/ WakeTimeout(c) \/ WakeQuit(c)
        PROVE  Alone'
    BY <1>1, <1>9, <2>1, <2>3, HomeHandler
  <2>4. ASSUME NEW r \in Replica, TaskStart(r) PROVE Alone'
    BY <2>1, <2>4, HomeStart
  <2>5. \A r \in Replica : ~DeleteLocal(r) /\ ~DeleteStored(r)
    BY <2>1 DEF Alone, DeleteLocal, DeleteStored
  <2>6. ASSUME NEW r \in Replica, RefreshAddrs(r) PROVE Alone'
    <3>1. /\ known \subseteq known'
          /\ UNCHANGED <<local, stored, run, nrun, req, timers, deletes>>
      BY <2>6 DEF RefreshAddrs
    <3>2. CASE nrun = 0
      BY <2>1, <3>1, <3>2 DEF Alone
    <3>3. CASE nrun # 0
      <4>1. CopiesAt(run[1].born) /\ \A c \in Client : AsksAt(req[c], run[1].born)
        BY <2>1, <3>3 DEF Alone
      <4>2. CopiesAt(run[1].born)'
        BY <3>1, <4>1 DEF CopiesAt, Finished, Alive
      <4>3. QED BY <2>1, <3>1, <3>3, <4>1, <4>2 DEF Alone
    <3>4. QED BY <3>2, <3>3
  <2>7. QED BY <1>2, <1>3, <1>9, <2>2, <2>3, <2>4, <2>5, <2>6
<1>10. QED BY <1>2, <1>8, <1>9

\* While nothing has failed, no record has expired and every replica knew its
\* address, no chain works next to the first execution of a task, whatever the
\* replicas, the clients that poll and check it and the retries of its call;
\* others work side by side only after a result was sent.
THEOREM DuplicatesAreCaused == Spec => []DuplicateHasCause
<1> DEFINE Inv == BaseOK /\ StatusOK /\ HomeInv
<1>1. Init => Inv
  <2> SUFFICES ASSUME Init PROVE StatusOK /\ HomeInv
    BY BaseInit
  <2>1. \A k \in Run : run[k].pc = "unused" BY DEF Init, UnusedRun
  <2>2. stored.status = "none" /\ \A r \in Replica : local[r].status = "none"
    BY DEF Init, NoRec
  <2>3. Alone BY <2>2 DEF Init, Alone
  <2>4. \A r \in Replica : proc[r] = "up" BY DEF Init
  <2>5. QED BY <2>1, <2>3, <2>4 DEF StatusOK, StatusFits, HomeInv, Init
<1>2. Inv /\ [Next]_vars => Inv'
  <2> SUFFICES ASSUME BaseOK, StatusOK, HomeInv, [Next]_vars
               PROVE  BaseOK' /\ StatusOK' /\ HomeInv'
    OBVIOUS
  <2>1. CASE Next
    <3>1. StatusOK' BY <2>1, StatusStep DEF BaseOK
    <3>2. QED BY <2>1, <3>1, BaseStep, HomeStep
  <2>2. CASE UNCHANGED vars
    <3>1. StatusOK' BY <2>2 DEF vars, StatusOK
    <3>2. HomeInv'
      BY <2>2 DEF vars, HomeInv, Untroubled, Alone, CopiesAt, Finished, Alive
    <3>3. QED BY <2>2, <3>1, <3>2, BaseStep
  <2>3. QED BY <2>1, <2>2
<1>3. Inv => DuplicateHasCause
  <2> SUFFICES ASSUME BaseOK, HomeInv, Untroubled, NEW i \in Run, NEW j \in Run,
                      i # j, Executing(i), Executing(j)
               PROVE  sent # {} /\ 1 \notin {i, j}
    BY DEF DuplicateHasCause, Untroubled, BaseOK, TypeOK
  <2>1. i <= nrun /\ j <= nrun /\ nrun \in Nat
    BY DEF BaseOK, TypeOK, ChainsOK, Executing, Run
  <2>2. sent # {}
    <3>1. CASE sent = {}
      <4>1. nrun <= 1 BY <3>1 DEF HomeInv, Alone
      <4>2. QED BY <2>1, <4>1 DEF Run
    <3>2. QED BY <3>1
  <2>3. ~Executing(1) BY <2>2 DEF HomeInv, Finished, Executing
  <2>4. QED BY <2>2, <2>3
<1>4. QED BY <1>1, <1>2, <1>3, PTL DEF Spec

=============================================================================
