------------------------------ MODULE AuthCache ------------------------------
(***************************************************************************)
(* Pub's cache of Lifecycle's answers to "may this caller call this job":  *)
(* getAuthorizedJobDetails for ONE key (job, version, path, token), called *)
(* by several goroutines while Lifecycle changes its mind and goes up and  *)
(* down.  Time is counted in ticks.                                        *)
(***************************************************************************)
EXTENDS Naturals

CONSTANTS
    Request,        \* goroutines that serve calls with this key
    TTLMin,         \* LIFECYCLE_CACHE_TTL_MIN
    TTLMax,         \* LIFECYCLE_CACHE_TTL_MAX
    Timeout,        \* bound of the HTTP client on a call to Lifecycle
    MaxTime         \* bound: time

ASSUME CacheAssumption ==
    /\ TTLMin \in Nat /\ TTLMax \in Nat /\ Timeout \in Nat /\ MaxTime \in Nat

VARIABLES
    now,            \* the time
    truth,          \* what Lifecycle would answer
    lastAllowed,    \* when it would last have allowed the call
    entry,          \* Entry: the cached response
    req             \* [Request -> RequestState]

vars == <<now, truth, lastAllowed, entry, req>>

-----------------------------------------------------------------------------
Time == 0..MaxTime

Entry == [cached : {"no", "yes"}, createdAt : Time]
NoEntry == [cached |-> "no", createdAt |-> 0]

\* pc: idle, waiting for Lifecycle, has Lifecycle's answer, about to delete an
\* expired response (holding the read lock), answered, cut off by a crash.
\* via tells where a positive answer came from, age how long before it
\* Lifecycle would have allowed the call.
RequestState ==
    [pc : {"idle", "call", "reply", "delete", "over", "cut"}, start : Time,
     answer : {"none", "allowed", "denied", "missing", "error"},
     via : {"none", "cache", "lifecycle", "recovered"}, age : Time]
Idle == [pc |-> "idle", start |-> 0, answer |-> "none", via |-> "none",
         age |-> 0]

Init ==
    /\ now = 0 /\ truth = "allowed" /\ lastAllowed = 0
    /\ entry = NoEntry
    /\ req = [r \in Request |-> Idle]

\* Some goroutine deletes from the map while it holds the read lock only.
Deleting == \E r \in Request : req[r].pc = "delete"

Accept(r, via) ==
    req' = [req EXCEPT ![r].pc = "over", ![r].via = via,
                       ![r].age = now - lastAllowed]

\* createdAt.Add(ttl).Before(now)
Expired(ttl) == entry.createdAt + ttl < now

-----------------------------------------------------------------------------
\* Mutant: a response is used until it may no longer be recovered.
UsableUntilMax == entry.cached = "yes" /\ ~Expired(TTLMax)

\* RetrieveResponse
Usable == entry.cached = "yes" /\ ~Expired(TTLMin)

\* The cache is looked at; if that does not help Lifecycle is asked.  Without a
\* client (a remote gateway that is not connected) the call fails at once.
Retrieve(r) ==
    /\ req[r].pc = "idle"
    /\ \/ Usable /\ Accept(r, "cache")
       \/ ~Usable /\ req' = [req EXCEPT ![r].pc = "call", ![r].start = now]
       \/ ~Usable /\ req' = [req EXCEPT ![r].pc = "over"]
    /\ UNCHANGED <<now, truth, lastAllowed, entry>>

\* AuthorizeCaller: Lifecycle answers, or there is an error on the way.
Answered(r, answer) ==
    /\ req[r].pc = "call"
    /\ answer \in {truth, "error"}
    /\ req' = [req EXCEPT ![r].pc = "reply", ![r].answer = answer]
    /\ UNCHANGED <<now, truth, lastAllowed, entry>>

\* The call is allowed: Put takes the write lock.
Put(r) ==
    /\ req[r].pc = "reply" /\ req[r].answer = "allowed" /\ ~Deleting
    /\ Accept(r, "lifecycle")
    /\ entry' = IF TTLMax > 0 THEN [cached |-> "yes", createdAt |-> now]
                              ELSE entry
    /\ UNCHANGED <<now, truth, lastAllowed>>

\* RecoverFailedResponse, and what becomes of the call.
Recover(r) ==
    /\ req[r].pc = "reply" /\ req[r].answer # "allowed"
    /\ \/ /\ entry.cached = "yes" /\ Expired(TTLMax)
          /\ req' = [req EXCEPT ![r].pc = "delete"]
       \/ /\ entry.cached = "yes" /\ ~Expired(TTLMax)
          /\ req[r].answer # "denied"
          /\ Accept(r, "recovered")
       \/ /\ entry.cached = "no" \/ req[r].answer = "denied"
          /\ entry.cached = "yes" => ~Expired(TTLMax)
          /\ req' = [req EXCEPT ![r].pc = "over"]
    /\ UNCHANGED <<now, truth, lastAllowed, entry>>

\* The end of RecoverFailedResponse for an expired response.
Forget(r) ==
    /\ req[r].pc = "delete"
    /\ entry' = NoEntry
    /\ req' = [req EXCEPT ![r].pc = "over"]
    /\ UNCHANGED <<now, truth, lastAllowed>>

\* One step of cleanUpRoutine, under the write lock.
CleanUp ==
    /\ ~Deleting /\ entry.cached = "yes" /\ Expired(TTLMax)
    /\ entry' = NoEntry
    /\ UNCHANGED <<now, truth, lastAllowed, req>>

\* A goroutine is about to access the map under the read lock.
Reading(s) ==
    \/ req[s].pc \in {"idle", "delete"}
    \/ req[s].pc = "reply" /\ req[s].answer # "allowed"

\* The Go runtime ends a process in which a goroutine accesses a map while
\* another one deletes from it; it restarts with an empty cache.
MapFault(r) ==
    /\ req[r].pc = "delete"
    /\ \E s \in Request \ {r} : Reading(s)
    /\ entry' = NoEntry
    /\ req' = [s \in Request |-> IF req[s].pc \in {"idle", "over"} THEN req[s]
                                 ELSE [req[s] EXCEPT !.pc = "cut"]]
    /\ UNCHANGED <<now, truth, lastAllowed>>

-----------------------------------------------------------------------------
\* Time passes.  A call to Lifecycle ends within the timeout of the HTTP client,
\* and what a goroutine does with the answer adds nothing to it.
Tick ==
    /\ now < MaxTime
    /\ \A r \in Request : req[r].pc \in {"call", "reply", "delete"} =>
                            now - req[r].start < Timeout
    /\ now' = now + 1
    /\ lastAllowed' = IF truth = "allowed" THEN now + 1 ELSE lastAllowed
    /\ UNCHANGED <<truth, entry, req>>

\* A permission is granted or revoked, the job is deployed or deleted.
Change(t) ==
    /\ truth # t
    /\ truth' = t
    /\ lastAllowed' = IF t = "allowed" THEN now ELSE lastAllowed
    /\ UNCHANGED <<now, entry, req>>

Next ==
    \/ \E r \in Request :
         \/ Retrieve(r) \/ Put(r) \/ Recover(r) \/ Forget(r) \/ MapFault(r)
         \/ \E answer \in {"allowed", "denied", "missing", "error"} :
              Answered(r, answer)
    \/ CleanUp \/ Tick
    \/ \E t \in {"allowed", "denied", "missing"} : Change(t)

Spec == Init /\ [][Next]_vars

-----------------------------------------------------------------------------
(* Properties *)

\* The cached response and the requests have their shapes, and no time lies in the
\* future.
TypeOK ==
    /\ now \in Time /\ lastAllowed \in Time
    /\ truth \in {"allowed", "denied", "missing"}
    /\ entry \in Entry
    /\ req \in [Request -> RequestState]

\* How long a revoked permission or a deleted job can still be used: a call
\* that is accepted would have been allowed by Lifecycle within the cache's time
\* to live (TTLMin for a cached answer, TTLMax for a recovered one) plus the
\* duration of the call that brought the answer, however calls overlap.
ServedIsRecent ==
    \A r \in Request :
      /\ req[r].via = "lifecycle" => req[r].age <= Timeout
      /\ req[r].via = "cache" => req[r].age <= TTLMin + Timeout
      /\ req[r].via = "recovered" => req[r].age <= TTLMax + Timeout
=============================================================================
