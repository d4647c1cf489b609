# Racetrack in TLA+

Racetrack deploys user code ("jobs") to infrastructure targets and serves it through a
gateway.  This directory holds TLA+ models of the parts of Racetrack whose correctness
depends on the order in which concurrent steps happen, the TLC configurations that check
them on small instances, and machine-checked proofs of the properties that hold for every
number of replicas, clients, threads, calls and retries.  Paths below are relative to the
repository root.

## The system

| component | state | operations | talks to |
|---|---|---|---|
| **Pub**, gateway (`pub/`, Go, several replicas) | tasks of asynchronous calls in memory, cache of Lifecycle's answers, websockets of remote gateways | proxy a call, start / poll / check an asynchronous call, forward a call through a remote gateway | jobs, Lifecycle API, other Pub replicas, remote Pub gateways |
| **Lifecycle API** (`lifecycle/lifecycle`, Python, several threads) | database: families, jobs, trash, deployments, async calls, users, subjects, tokens, permissions | deploy, build, redeploy, reprovision, move, delete a job; authorise calls; manage plugins, users, ESCs, records; stream logs | Image Builder, infrastructure plugins, database |
| **Lifecycle Supervisor** (same code, own process) | a schedule, the clients of the event stream | synchronise the registry with the infrastructures every minute, reconcile lost jobs, clean up async calls, halt stale deployments at startup, stream events | infrastructure plugins, database |
| **Image Builder** (`image_builder/`) | workspaces, images, phases | build job images, report phase, warnings and a final result by server-sent events | Lifecycle, docker |
| **racetrack_commons** | loaded plugins, version of the plugin directory | upload, delete and reload plugins | file system |
| **racetrack_client** (CLI) | client configuration | validate, merge and submit manifests, wait for a deployment, bundle plugins, order versions | Lifecycle |
| **Dashboard** | browser state | views of the above | Lifecycle, Supervisor |
| **Wizards, maintainers' tools** (`utils/`) | saved setup, generated files, images of the registry | install, resume an installation, clean the registry, bump versions | docker, Kubernetes |
| Infrastructure deployers and monitors | clusters | external plugins, modelled by how Lifecycle uses them | |

What is hard in this system: a task, a deployment or a row is read, then something slow
happens (a call to a job, a build, a listing of a cluster), then it is written; several
replicas and threads do this to the same object without locks; processes are restarted at any
moment; and the evidence that "the other one is dead" is a time-out.  Calls to jobs, to
Lifecycle, to the Image Builder and to infrastructures fail, or fail after having done their
work; a deployment counts as forgotten after a minute and is halted after an hour; a task is
polled for 30 seconds at a time, its result deleted 30 seconds after it was sent, the task
itself after 125 minutes; an authorisation is cached for `LIFECYCLE_CACHE_TTL_MIN` and kept
for outages for `LIFECYCLE_CACHE_TTL_MAX`.

### What makes each part correct

- **Asynchronous calls.** Results are ones the job gave; no channel is closed twice; nobody
  waits on a channel nobody will close; the job is called twice at a time only after a
  failure; an accepted task is not forgotten before it is answered or too old; a client that
  keeps polling gets a final answer; an old task disappears for good.
- **Deployment and synchronisation.** Only a deployment whose own instance answered `/live` is
  reported as done (that this instance became ready, too, unless another request overlapped);
  registry and infrastructures agree once all requests are dealt with, but for the causes listed
  below; the protection against overwriting holds up to the write; stale copies do not bring
  deleted jobs back; every record gets a result; whatever was written meanwhile, the registry
  converges to what runs.
- **Database engine.** An answer tells what became of a statement; health turns bad for a cause
  and recovers with the database.
- **Authorisation cache.** A revoked permission is not used for longer than the times to live.
- **Remote gateway.** A call is decided by its own answer; the main Pub knows the connection
  that works, and what it knows is served; a call that waits does not wait for ever.
- **Event stream, log sessions.** Connected clients are watched, a settled page is current; the
  two dictionaries of sessions agree and nothing is left behind.
- **Plugin engine.** Processes that were told of a change, and whose load succeeded, end up with
  the plugins on disk; what is loaded is whole and of one version, but for the causes below.
- **Records, authorisation, accounts.** A request fails only for a cause; what several
  statements insert is there once and whole; whoever may access a job has a permission that the
  check takes for it, and what lists of jobs leave out is named; one registration of a username
  wins and its account is complete; only its owner changes a password.
- **Versions, portfolio, public endpoints.** Aliases nest; advice to remove has a cause; what is
  public is declared, unless the manifest of the record was replaced.
- **Client, manifests, packing.** A setting is kept unless an invocation that had loaded the file
  before writes it back; a command that reports success had its whole effect, and one that reports
  an error had none, unless the server failed halfway or an answer was lost; overlays keep the
  base; build variables stay hidden; the comparison with the repository is right in both
  directions; the ignore file decides which files are sent.
- **Image Builder.** A deployment runs its own images, unless another one had its second; secrets
  and workspaces are removed, unless the builder was killed.
- **Wizards and tools.** An installation is resumed with the secrets it was started with, unless
  they were lost; no entrypoint image that an environment used when it was asked is removed.

## Modules

| module | what it is | source |
|---|---|---|
| `AsyncTask` | one asynchronous task across all Pub replicas, its storage and its clients | `pub/async.go`, `async_store.go`, `replicas.go` |
| `TaskService` | what the asynchronous API promises its clients; `AsyncTask` implements it | `docs/user/async-job-calls.md`, `pub/async.go` |
| `Deployment` | one job: its requests, their threads, the Supervisor's passes | `lifecycle/deployer`, `job`, `supervisor` |
| `Database` | the pool, transactions and health of the database engine | `lifecycle/database` |
| `AuthCache` | one key of Pub's authorisation cache and the calls that use it | `pub/lifecycle_cache.go`, `proxy.go` |
| `RemoteGateway` | two Pubs and the websocket between them | `pub/remote_gateway.go` |
| `EventStream` | the watcher thread, its clients and the page of the dashboard | `lifecycle/event_stream`, `JobsListView.vue` |
| `LogSessions` | the Socket.IO server of logs | `lifecycle/server/socketio.py` |
| `PluginEngine` | plugin engines of several processes over one directory | `racetrack_commons/plugin` |
| `Registry` | records, subjects, tokens, permissions; requests as statements | `lifecycle/auth`, `database` |
| `Portfolio`, `Versions` | the versions of one family; order and patterns of versions | `job/portfolio.py`, `utils/semver.py` |
| `Accounts` | the account of one username and the editor of records | `lifecycle/auth/users.py`, `endpoints` |
| `Client`, `Manifests`, `Packing` | the command line, what it merges and what it sends | `racetrack_client` |
| `ImageBuild` | concurrent builds and what Lifecycle makes of them | `image_builder` |
| `Wizard`, `Maintenance` | the installers, the registry cleaner, the version bumper | `utils` |
| `AsyncTaskProofs`, `DeploymentProofs`, `DatabaseProofs`, `AccessProofs`, `LiveProofs`, `PluginEngineProofs`, `RegistryProofs`, `PartsProofs` | proofs | |
| `MCAsyncTask`, `MCAsyncScenarios`, `MCDeployment`, `MCLifecycle`, `MCLive`, `MCPluginEngine`, `MCRegistry`, `MCParts` | instances for TLC | |

`AsyncTask` composes Pub and Lifecycle's storage, `Deployment` composes Lifecycle's API, its
Supervisor and the infrastructures.  `MCLifecycle`, `MCLive`, `MCRegistry` and `MCParts` put
parts side by side that do not interact: a behaviour exercises one of them and the others stay
as they started.  `PROJECT.json` maps every definition to the lines it stands for.

### AsyncTask and the code

`local[r]` is `localTasks[id]` of replica `r`, `stored` the row of `AsyncJobCall`.  A *run* is
the chain of goroutines `handleBackgroundJobCall` → `retryJobCall` → … that shares one
`doneChannel`; `run[k].task` is the copy of the task it works on, `req[c]` the handler that
serves client `c` and the copy that handler holds.  The steps end where the code hands over to
somebody else: the HTTP call to the job, each storage request, each request to another
replica, a sleep, a wait on a channel.  A fault is a crash, a storage request or a status check
that fails, or a response that does not arrive; their number is bounded by `MaxFaults`.
Responses are abstracted to the run they came from, time to what has expired.  One task is
enough: every map is keyed by the task's id and no operation relates two ids.

### Deployment and the code

`row` is the job's record, with the deployment whose timestamp it carries (`gen`), the manifest (as
first deployed or as edited) and the primary key (`id`, the deployment that created it). `inst[i]`
is what infrastructure `i` runs under the job's name.  `dep[d]` is a deployment record together
with the thread that works on it; `seen` is the row the thread has read and will write back.
`Merge` is `RecordMapper.update`: it writes the columns that differ from what was read, to the row
with the same key, so two writers can leave a row that mixes both. `SyncStart`, `SyncList` (one per
infrastructure), `SyncRegistry`, `SyncRead`, `SyncWrite` are a pass of `sync_registry_jobs`.
`Slow` lets a phase last a minute or an hour.  The health check is two steps, with a phase saved in
between: `CheckAlive` compares the deployment timestamp in `/live`, `CheckReady` asks `/ready` of
whichever instance answers under the job's name by then. `verified`, `ready`, `overlap` and
`misled` are history the properties use.  The deployers and monitors are plugins outside the
repository.  From how Lifecycle uses them: deploying replaces what ran under the job's name,
deleting what is not there is no error, an error may come after the work was done, an instance may
disappear or stop answering.

### Database and the code

A thread of `Thread` executes one statement at a time: it takes a connection of the pool (or
makes one, or waits), runs the statement, has `check_affected_rows` compare the rows it
affected with what its caller expects, commits or rolls back, and returns the connection.  The
server goes away and comes back, which leaves connections broken wherever they are; a commit
may be executed and not be answered.  `Monitor` is the thread of `check_db_connection`, which
runs the same steps with `SELECT 1` and sets what the health endpoint reports.  SQLite has no
transaction to roll back.

### The long-lived connections and the code

`RemoteGateway`: `entry` is `remoteConnections[host]` of the main Pub, `current` is
`masterWsConnection` of the remote one; both are shared by all goroutines without a lock.  A
connection has two ends, two queues and the goroutine `handleGatewayWebsocketCalls`.  Messages
carry no identifier: the model keeps the call a message belongs to only to state what is right.
`EventStream`: `watcher` is the only watcher thread and the client list is shared with
`on_websocket`; a page of the dashboard reloads the jobs on every event, and answers overtake
each other.  `LogSessions`: handlers of Socket.IO events run in threads of their own, also
those of one client, and update two dictionaries and the streamer one after the other.

### PluginEngine, Registry, Accounts and the code

`PluginEngine`: `zip` and `extracted` are the files every process sees, `data` what each has
loaded, `flag` the content of `last-change.txt`; every file operation is a step.  `last[p]` is
`last_change_timestamp`, one attribute of the engine that its watcher and its requests share:
`Record` sets it, `WriteFlag` writes whatever it holds by then, and `CompareChanges` of the watcher
may have taken the old time back in between.  A load may fail in any plugin (its dependencies, its
constructor), and `on_reload` after the assignment; `failed`, `missed`, `broken` and `blind`
remember which process has not loaded, that nobody was told of an upload, that a load met half of a
change, and that an upload looked for what it replaces among plugins that were not loaded.
`Registry`: `rows` are the records of all tables, with foreign keys and unique columns; each thread
serves a request statement by statement and may die between two.  `Deploy` is `deploy_new_job`,
which names no previous job even where one is overwritten, so it always grants.  `Accounts`: one
username; `visit` are the requests (registrations, logins, changes of the password), `form` is what
the administrator's editor of records has read and will write back as a whole.

### The parts one by one

`AuthCache`: `entry` is the cached response of one key (job, version, path, token hash); time
is counted in ticks; `MapFault` is the fatal error of the Go runtime when the map is changed
under the read lock.  `Client`: every invocation is a process that loads the configuration,
sends its requests and may overwrite the file; the server may refuse a request, serve it and lose
the answer, or fail when part of the effect is there (`Leaves`, `halfway`).  `Portfolio`: `jobs` are
the records of one family, `deploying` the deployments that wait for their job to start, each with
what its manifest declares; a pass of synchronisation is one step here, `Deployment` has the stale
copies.  `replaced` remembers versions whose record got a manifest that declares something else,
by a deployment or by `update_job_manifest`.  `Manifests`: dictionaries, overlaid and compared;
`deploy` reads the files twice, and a reprovisioned job has no build secrets.  `Packing`: paths and
ignore lines.  `ImageBuild`: builds of one family in their workspaces; names of images come from
the second of the deployment.  `Wizard`: both installers with their saved setup; `cut` says that
`docker compose up` or `kubectl apply` failed with part of the services started, `remotePub` is
the token a remote Pub was started with, and what is waited for may be too slow.  `Maintenance`:
candidates collected from several sources; `later` are the jobs deployed in an environment after
the cleaner had asked it, `removed` keeps of every deletion who used the image.

## Runs

| run | instance | shows |
|---|---|---|
| `async_crash` | 2 replicas, 1 client, 2 attempts, 3 runs, 2 faults; or signals, status requests and late addresses with 2 runs and 1 fault | `AnswerIsGenuine`, `ChannelClosedOnce`, `WaiterIsServed`, `KeptUntilAnswered` |
| `async_clients` | 2 replicas, 2 clients, 2 runs, 1 fault | `AsyncTask` implements `TaskService` (`ImplementsService`); `DuplicateHasCause` |
| `async_liveness` | 2 replicas, 1 client, 3 runs, 1 fault; or a task that expires | `PollerIsAnswered`, `ExpiredIsRemoved` |
| `async_lost_result` | 2 replicas, 1 client, 1 fault | *violated*: a result that was lost on the way cannot be polled again |
| `deploy` | 2 targets, 2 deployments, 1 deletion; requests of every kind, some slow; or manifests edited between and during deployments; or deployments and moves with one fault and lost instances; or passes of the Supervisor over both targets | `DoneWasVerified`, `AtOddsHasCause`, `Keyed`, `ClaimProtected` |
| `deploy_build` | one build | *violated*: the record of a build never gets a result |
| `lifecycle` | 1 target, 2 deployments, passes, reconciliation, 1 fault; or 2 threads and the check over 2 rows, 2 connections, 1 outage | `SyncConverges`, `ResultStored`; `AnswerFitsEffect`, `UnhealthyHasCause`, `HealthRecovers` |
| `live` | 2 calls, 2 connections, 1 fault; or 2 pages, 2 versions, 2 changes, 1 error; or 2 clients, 2 jobs, 2 threads, 4 events, 1 error | `OwnAnswerUnlessShared`, `ConnectionIsKept`, `WaitEnds`; `UnwatchedHasCause`, `SettledPageIsCurrent`; `SessionsAreClosed` |
| `plugins` | 2 processes, 2 requests, 2 versions, 1 upload over what is there, 1 deletion, 1 restart | `LoadedIsUploaded`, `PluginsAreWhole` |
| `registry` | 2 threads, 3 requests (or 2 of which one dies or raises), 8 records; or 3 versions of a family over 31 days, their manifests deployed again and updated | `FailureHasCause`, `SubjectsAreWhole`, `AccessIsExplained`; `VersionsAreExplained` |
| `registry_access` | 2 requests | *violated*: a permission for one job is taken for another job of the same version |
| `parts` | one part at a time, see `MCParts` | `ServedIsRecent`; `AccountsAreConsistent`, `RecordIsKept`; `ConfigurationIsKept`, `CommandEndsCleanly`; `ManifestIsRespected`, `RepositoryIsVerified`; `FilesAreChosen`; `BuildIsClean`; `InstallationIsResumed`; `MaintenanceIsSafe` |

Why the bounds are enough for the cases that matter.  Two replicas make a task's owner and somebody
else; three runs let a task be found missing twice; two attempts make a retry and a last attempt;
two faults let a crash follow a lost write.  Two deployments make every pair of concurrent writers,
and a deletion and a pass of the Supervisor are further ones; two targets are what a move needs.
Two deployments of a family that wait for their jobs at the same time can be of one version with
two manifests, or of two; one version at a time has a replaced manifest.  Two calls on two
connections let one call find what another left and a handler outlive its connection; two pages
make one that connects while the watcher leaves the other; two threads make handlers of one client
overlap.  Three requests are an insertion that races and a deletion, and eight records hold two
families with a job, a subject, a token and a permission each.  In `AuthCache` a response can be
fresh, expired for use and expired for recovery.  Where a theorem states the property, the bounds
no longer matter.  The constraint `Unexcused` of `plugins` stops where files were changed under a
load, a request was cut off or a record hidden; failed loads and missed uploads go on; what holds
after a hidden record, too, is proved (`WholePlugins`); `Bounded` (requests of `registry`, replaced
manifests and waiting deployments), `Within` and `WithinFaults` cut off what a scenario cannot
afford; `InOrder` and `InTurn` of `parts` take each pair of interchangeable invocations and
deployments once.  No run checks deadlock: a task that was answered, a job whose requests are done
and a bounded clock have nothing left to do.

Fairness.  Goroutines and Python threads run on (`WF` of each thread's steps: no step waits for
another thread, and calls to jobs, storage and infrastructures have timeouts).  A handler that
waits is woken by its own timer.  Kubernetes restarts a process that ended, and the discovery
of addresses runs in a loop.  A client is assumed to poll again, which is what the client of
the documentation does.  The Supervisor's loop starts pass after pass, the check of the
database and the clean-up routines run in endless loops; a statement that waits for the pool
gets its turn or its timeout.  Both ends of a websocket read in loops.  Faults, requests,
delays, edits and outages are never fair.  For `ExpiredIsRemoved` the hourly clean-up in
Lifecycle is assumed to run, which a periodic task that fails every time would prevent
(`supervisor/scheduler.py:36`).

### Exceptions the properties name

Several properties hold only outside a list of causes; the list is the result.

- `DoneWasVerified`: a deployment that is done had its own instance alive; if another request
  overlapped with it, `/ready` may have been answered by the instance of the other one.
- `AtOddsHasCause`: after all requests are dealt with, row and instances agree unless there was
  a fault; two requests overlapped; a move failed (its rollback removes a row it did not
  create); a forced deployment replaced one that ran elsewhere, or failed; or a pass of
  `sync_registry_jobs` wrote a row that was no longer true.
- `DuplicateHasCause` (asynchronous calls): two executions of one task at a time come from a
  fault, from a task older than the clean-up timeout, or from a replica that did not know its
  address yet.  There is a fourth cause that three runs of one task show: a response with the
  result was sent, the record was deleted, and handlers that had read it before, or a storage
  write that was still on its way, start the task over; they never do so next to its first
  execution.
- `OwnAnswerUnlessShared`: a call may be decided by the answer to another one if both used the
  websocket at the same time.  `ConnectionIsKept`: a connection that works is forgotten if two
  calls dialled at the same time.
- `UnwatchedHasCause`: an exception ended the watcher, or a client came while it was leaving.
  `SettledPageIsCurrent`: loads failed or overlapped, or the jobs changed back between two
  reads of the watcher.
- `SessionsAreClosed`: two handlers of the client overlapped, or one raised.
- `LoadedIsUploaded`: files were changed while somebody else loaded or changed them (`stepped`), two
  requests were served at the same time (`raced`), a record hid another one (`clashed`: two changes in
  one second or in the wrong order, a watcher that took the time back before it was written, an
  engine that started and recorded its own time over a change), a request was cut off (`cut`), or
  an upload replaced what Lifecycle had failed to load (`blind`).  A process whose latest load failed
  keeps what it had, and an upload that ended with an error tells nobody.
  `PluginsAreWhole`: a half loaded plugin, and a load that meets half of a change
  (`BrokenLoadHasCause`), come from files changed under a load or a request cut off; a second
  version of an infrastructure plugin from two requests at the same time or `blind` as well.
- `AnswerFitsEffect`: a commit that was not answered, and SQLite.
- `ListedHasPermission`: a job that may be accessed is missing in the lists if the permission is for
  its family, or for another job of the same version.
- `UndeclaredHasCause`: the manifest in the record was replaced by one that declares something else;
  the request of the former one stays active.
- `ReportIsTruthful`: an answer was lost or the polling was given up (`unsure`), for a command that
  reports an error and had its whole effect; the server failed halfway, for one that had a part.
- `SettingIsKept`: an invocation that had loaded the file before wrote its copy back.
- `BuildIsClean`: builds of one second share a name; a builder that was killed leaves its workspace.
- `PasswordsAreKept` and `FailureIsExplained`: `setup.json` was lost; the user did not apply what was
  rendered, or gave no address.  Services that are too slow (`too_slow`) and starts that fail
  (`failed`) end an invocation, and the next one resumes.  `TokensFitKey`, `FilesAgree`: while the last
  start was `cut` short, some services run with the files of an earlier one; their tokens still
  fit, unless the secrets were lost and made anew.
- `RemovedIsUnused`: an image that is in use somewhere is removed only if this very job was deployed
  there with this tag after the cleaner had asked that environment (`later`).  Nothing is said of
  the further images of jobs with several, see `utils/registry_cleaner/images.py:104` below.
- `ContextFitsBundle`: a line takes back what is below a directory that another line excludes,
  or a line of several parts excludes the directory and does not match what is below it.

## What is proved

TLAPS checks the theorems for every value of the constants that the named assumptions allow.
Where an invariant is not inductive the module states the one that is.

*AsyncTaskProofs*, from `ConstantsAssumption` (the empty address is no replica, at least one
attempt, at least one run):

- `TypeCorrect`.  `TypeOK` is not inductive: handlers and goroutines address maps with the
  replica they run on, so `PlaceOK` adds that whoever is active is on a replica.
- `ClosedOnce` (`ChannelClosedOnce`).  The invariant `ClosedAtEnd` says that a chain has closed
  its channel exactly when it has ended, which a retry (that shares the channel) must respect.
- `GenuineAnswers` (`AnswerIsGenuine`).  The invariant `GenuineInv` covers every copy an answer
  can be taken from: local entries, storage, goroutines and handlers.
- `RecordIsKept` (`KeptUntilAnswered`).  `KeptInv` says that every deletion under way was due: a
  response was sent before the thirty seconds began, or the lifetime of the record was over.
- `WaitersAreServed` (`WaiterIsServed`).  `OngoingOK` says that a local entry that is ongoing has
  on its replica a chain that minds it and will close its channel, or belongs to a client whose
  `CreateTask` failed; `WaitOK` and `Served` follow a handler from its look into the map to the
  end of its wait.
- `DuplicatesAreCaused` (`DuplicateHasCause`).  `BaseOK` says that chains start in turn, and that
  a replica is asked only for a task that was accepted.  `HomeInv` says that, while nothing
  disturbs the task (`Untroubled`), it has one home: all copies name the replica of the first
  chain, whoever asks is told to ask there (`AsksAt`), and no second chain can start before a
  result was sent (`Finished`).  TLC refuted the first form of the property, which left out the
  fourth cause, on three clients and three runs, more than the runs here have; it
  was corrected before it was proved.
- `ServiceImplemented` (`ImplementsService`): the refinement of `TaskService`, action by action.
  A step leaves the view of the clients alone (`QuietStep`), gives a reply of an execution
  (`ReplyStep`), accepts the task or answers a client; that an answer is one `TaskService`
  allows is `GenuineInv` again.

*DeploymentProofs*, from `DeploymentAssumption` (at least one target and one deployment):

- `TypeCorrect` and `RowsAreKeyed` (`Keyed`).  The two are inductive only together: a deletion
  puts the key of the row it read into the trash, so that key has to be one.
- `VerifiedBeforeDone` (`DoneWasVerified`).  `VerifiedInv` says that a thread that is past the
  first answer is verified, and that a record is done only after that; a restart of the Supervisor
  that halts a running deployment does not disturb it.  `ReadyInv` says that, as long as nobody
  overlaps with a deployment, the only instance on its target is its own until it has answered that
  it is ready; this needs `ThreadsInv` below, which knows who works next to whom.
- `ClaimsAreProtected` (`ClaimProtected`, an action property).  `ThreadsInv` holds whatever
  overlaps or fails: deployments are numbered in turn (`DepsOK`), a row is there with all its
  columns or not at all (`RowOK`), a pass of `sync_registry_jobs` writes a job it found or a lost
  one (`SyncOK`), whoever works next to another one is on record (`OverlapOK`), and what
  `_protect_job_overwriting` has found stays so until the row is written (`ClaimOK`).
- `OddsAreCaused` (`AtOddsHasCause`).  `PlacesInv` says, while none of the causes is there
  (`Calm`), where the job runs at each step of a deployment (`Phase`: settled, its instance
  `Staged`, its row `Saved`) and of a deletion.  A pass of `sync_registry_jobs` cannot disturb
  this: as long as an instance can be told from the row (`Located`), what it would change is what
  `misled` records.

*AccessProofs*, from `CacheAssumption` (times are natural numbers) and `AccountsAssumption` (the
kinds of requests are disjoint, bounds are natural numbers):

- `CacheTypesKept` and `RecentAnswers` (`ServedIsRecent`).  The invariant relates three times: a
  cached response was created at most `Timeout` after Lifecycle would have allowed the call,
  because the call that brought it took no longer; a call in flight began at most `Timeout`
  ago; an answer that allows it was true since then.

- `TypeCorrect`, `Consistent` (`AccountsAreConsistent`) and `RecordKept` (`RecordIsKept`, an
  action property).  `OneWinner` says that at most one registration has inserted the account;
  `SubjectsFit` how far the subject of each request has come; `OthersComplete` that, as long as
  no login came early and no process ended, every subject is complete or a registration is
  still working on it; `FormFits` that the editor holds nothing older than the account, unless
  the password was changed meanwhile.

*DatabaseProofs*, from `DbAssumption` (a statement names finitely many rows, the check is no worker,
bounds are natural numbers):

- `AnswersFit` (`AnswerFitsEffect`).  `RanWasChecked` says that a transaction that reached its
  commit has written the number of rows its caller expects.
- `UnhealthyIsCaused` (`UnhealthyHasCause`, an action property).  `QuietCheck` says that while
  the test query is under way nothing in its reach is broken, and it will succeed, unless the
  check has seen the disturbance: connections that an outage left broken in the pool are
  replaced before the query.

*LiveProofs*, from `EventAssumption`, `LogAssumption` and `GatewayAssumption` (bounds are
natural numbers; calls are finitely many and not named like the states of a handler):

- `ClientsAreWatched` (`UnwatchedHasCause`) and `PagesAreCurrent` (`SettledPageIsCurrent`).
  `NothingIsMissed` says of a page that was told something that what it will load, is loading
  or shows is newer than all changes, or the watcher has still to tell it of one.
- `SessionsClosed` (`SessionsAreClosed`).  `InOrder` follows the one handler of a client through
  the two dictionaries and the streamer (`Stage`); `OneHandler` says that a client that is not
  on record as overlapped has no second one.
- `ConnectionKept` (`ConnectionIsKept`).  `OneAtATime` says that without a race one call dials
  at a time, only when there is no entry, and whatever connection works or is served is the one
  stored or about to be.
- `AnswerIsOwn` (`OwnAnswerUnlessShared`).  Messages carry no identifier, so the argument counts
  them: on a connection whose remote end is open there are at most as many messages that can
  still be answered as calls that read from it (`Counted`); hence a call that finds nobody on
  the connection finds no message either, and as long as it stays alone all messages are its
  own (`Alone`).  The reason is in `AuthorizeCaller`: a read ends with an answer, with the end
  of the connection or not at all, never with a timeout.

*PluginEngineProofs*, from `EngineAssumption` (the server is a process, requests are no
processes, there is a version, bounds are natural numbers):

- `PluginTypesKept`, and `WholePlugins` (`PluginsAreWhole`) from `HalfLoadedExplained`,
  `BrokenLoadExplained` and `OneIsPresent`.  `Intact` says that, as long as no file was changed
  under a load, whoever is half way through a change is alone (`Exclusive`), so what a load has
  still to read is there and every directory that is being filled has a thread that fills it.
  `InOrder` adds, for requests that are served one after the other, that directories are those
  of the files and that Lifecycle has loaded what is there, has failed to, or a request will load
  it: this is why an upload that replaces what is loaded replaces what is there unless it is `blind`.
- `UploadsAreLoaded` (`LoadedIsUploaded`).  `Follows` says of each process that it has loaded
  what is there, has failed to, is loading it, will find a flag that is not the one it remembers,
  or that nobody was told yet (`Untold`: an upload was missed, or a request has still to record what
  it changed); `Remembers` that a process remembers no later time than that of the flag, except
  between `Record` and `WriteFlag`.

*RegistryProofs*, from `RegistryAssumption` (there is a name, a version and a scope, full access is no
scope of its own, bounds are natural numbers) and `PortfolioAssumption` (the catalogue consists of
versions):

- `TablesAreSound`, `FailuresAreCaused` (`FailureHasCause`) and `SubjectsStayWhole`
  (`SubjectsAreWhole`).  They are inductive only together, in `RegInv`.  `RowsSound` says that
  references lead to rows of the right table and names are unique.  `Aware` and `Knows` follow a
  request: what it has found or inserted is still there, with the columns it saw, as long as
  nobody else wrote.  A deletion keeps a stack of records whose dependants it still has to
  remove; `Frames` says that what a frame has not removed yet is on its list, `Nested` that each
  record refers to the one below it.  The tables on the stack go down in rank, which is why the
  cascade ends and why the record that is deleted last has no row that refers to it.
  `TokensComing` says that a subject without a token has a request that will insert it
  (`Awaited`), unless one ended before.
- `AccessStaysExplained` (`AccessIsExplained`) needs of the tables only `RowsSound`: a permission that
  names a job names a row that is there, which is why a list of jobs never fails to map it.
- `VersionsStayExplained` (`VersionsAreExplained`).  That a set of versions has a highest one would
  need induction over sets; instead the invariant carries `Ordered` (every subset that is not
  empty has a highest version) from one deployment to the next.  `RequestsAreDeclared` says of every
  request for a public endpoint, active or not, that the manifest in the record declares it or
  was replaced, also while deployments of two manifests of one version wait.

*PartsProofs*, from `ClientAssumption` (versions are positive, the commands and configurations are
such as the command line can make), `PackingAssumption` (paths and lines are made of names),
`JobTypesHaveImages` (a job type has at least one image) and `MaintenanceAssumption` (finitely many
names, at least one repository per page, bounds are natural numbers):

- `ConfigurationStaysKept` (`ConfigurationIsKept`) and `CommandsEndCleanly` (`CommandEndsCleanly`).
  `Clocked` orders loads and saves of all invocations; `Informed` says of an invocation what the
  copy it has loaded `Knows`: every setting saved before, unless a later save `Superseded` it.
  `Honest` says of each step of a command that it had no effect yet, neither whole nor in part
  (`Untouched`), or that its deployment is on the server; each answer of a server is checked to change
  nothing, to change all that was asked for, or to be one that fails halfway.
- `FilesStayChosen` (`FilesAreChosen`).  The last line that matches a path decides; that there is a
  last one is again carried along (`Ordered`), line by line.
- `BuildsStayClean` (`BuildIsClean`).  `Progressing` and `Tidy` say what is in the workspace at each
  step of a build; `Delivered` that Lifecycle gets a result only of a build that completed;
  `Pushed` who pushed each image of the registry, and `Recorded` by which deployment a job was
  provisioned, so that a foreign image comes from a deployment of the same second.
- `InstallationsAreResumed` (`InstallationIsResumed`), from two invariants.  `WizardInv`:
  `SetupKnows` says that `setup.json` has every secret that something was started with (`Fits`),
  `Sealed` and `Launched` how far the files and services of an infrastructure are; `DockerRuns`,
  `KubernetesRuns` and `RemoteRuns` follow an invocation through its steps.  `KeysInv` follows the
  key through starts that are cut short: until the setup is lost, all files that run hold the one
  key that is saved (`OneKey`), which was saved before (`KeysSaved`), so mixing files of two starts
  mixes no keys.
- `MaintenanceStaysSafe` (`MaintenanceIsSafe`).  `CleanerKnows` says that what every environment
  ran when it was asked, or has deployed since (`later`), and every version that is spared is among
  what is kept or excused, however the pages moved, and what is to be deleted is not.  `BumperInv`
  says that the Makefile and the client's package name one version (`Alike`), or the Makefile names
  a merge request whose text the package cannot contain (`Apart`), so that an official version
  finds both or reports an error.

Two definitions were wrong, and their proofs showed it where the instances did not.
`ContextFitsBundle` had demanded that whenever the context misses a file of the bundle some line
takes the file back; a line of several parts may match the directory and not what is in it
(`- dir/keep` leaves `dir/keep` out, and `dir/keep/a` is not matched by it).  The property names
this case now, and the line is among those of the run.  `Kill` of `Client` could end a process
again that was killed before, which would have lost the cause of an unreadable configuration.

Only model-checked:

- the liveness properties (`PollerIsAnswered`, `ExpiredIsRemoved`, `SyncConverges`, `ResultStored`,
  `HealthRecovers`, `WaitEnds`), which are beyond this prover;
- the properties of `Manifests` (`ManifestIsRespected`, `RepositoryIsVerified`): dictionaries are
  merged and compared by recursive operators, and what these compute for every dictionary needs
  induction over data.

## Where code and documents disagree

Shown by a run:

- `pub/async.go:639`: the result is deleted 30 seconds after it was sent, received or not
  (`docs/user/async-job-calls.md:31`: the request can be resent "without any loss").
- `lifecycle/lifecycle/deployer/builder.py:103`: the thread of `POST /build` is started with an
  argument missing, so its record stays in progress (line 118 promises a stored result).
- `lifecycle/lifecycle/auth/authorize.py:164`: a permission for one job is taken for every job
  of the same version (line 39 promises permissions to access the resource).

Met while modelling, behaviours of the modules that are not runs of their own:

- `pub/async.go:640`: when a poll is answered from storage, the copy on the replica that made
  the call stays and can be retrieved again (`docs/user/async-job-calls.md:201`).
- `pub/async.go:226`: a call that ran into the 120 minutes timeout is retried
  (`docs/user/async-job-calls.md:208`: "a hard timeout").
- `lifecycle/lifecycle/job/deployment.py:21`: two requests can both pass the check for
  concurrent deployments (`docs/CHANGELOG.md:855`: "now disallowed").
- `lifecycle/lifecycle/deployer/provision.py:106`: a forced deployment that fails removes a job
  that existed before (`docs/CHANGELOG.md:113`: "no longer deleted").
- `lifecycle/lifecycle/supervisor/startup.py:14`: only deployments an hour old are halted at
  startup (`docs/CHANGELOG.md:856`).
- `lifecycle/lifecycle/job/registry.py:136`: a job left STARTING by a failed redeployment stays
  so (`racetrack_commons/racetrack_commons/entities/dto.py:10`: "still initializing").
- `lifecycle/lifecycle/job/registry.py:131`: a job deployed between the two listings is marked
  lost although it runs (`registry.py:126`).
- `lifecycle/lifecycle/job/models_registry.py:162`: a pass can write a former manifest back
  (`docs/CHANGELOG.md:520`).
- `pub/proxy.go:271`: a cached response is used when Lifecycle says 404, not only in an outage
  (`pub/config.go:27`).
- `lifecycle/lifecycle/monitor/health.py:47`: `/ready` is polled without the timestamp, so a
  deployment whose instance was replaced after `/live` ends done on the readiness of another one
  (line 22: "to verify if the running version is really the expected one").
- `lifecycle/lifecycle/auth/authorize.py:254`: a permission for a family is looked up by the id of
  the family in a dictionary of names, so none of its jobs is listed (line 220: "Expand
  permissions for all resources and whole job families").
- `racetrack_commons/racetrack_commons/plugin/engine.py:223`: an upload that replaces deletes the
  versions that are loaded, not those on disk that failed to load (line 196: "delete the existing
  versions with the same name").
- `racetrack_commons/racetrack_commons/plugin/engine.py:141`: an engine that starts, or reloads for an
  earlier change, does not wait for the flag and can load half of an upload ("to prevent from
  loading inconsistent files").
- `lifecycle/lifecycle/deployer/provision.py:70`: unused build variables are cleared "to hide secrets",
  but a reprovisioned or moved job has no build secrets to tell which (`redeploy.py:71-74`).
- `utils/registry_cleaner/images.py:104`: the further images of jobs are kept under the name
  `job-user-module`, while they are pushed as `job-1` (`racetrack_commons/deploy/image.py:14`), so the
  cleaner removes them while they are in use.  `RemovedIsUnused` exempts them for this reason.
- `racetrack_client/racetrack_client/plugin/bundler/filename_matcher.py:25-28`: the example takes back
  what is below an excluded directory, which the build context never enters; `ContextFitsBundle`
  excepts this case.
- `utils/standalone-wizard/wizard.py:277`: the old remote Pub is removed before the user is asked to
  confirm the command that starts the new one (line 298: "Do you confirm?").

## Not modelled, and why

The job graph and the audit log only read, or write what no other step depends on.  The rewriting
of headers and paths by the proxy keeps no state.  Of the record manager the text of the SQL
queries is left out, of the dashboard everything but the page that lists the jobs.  Of deployments
the secrets, manifest templates and resource estimates are left out; they are written once per
request and no other step depends on them.  Several jobs in one pass of the Supervisor, and the
schedule, are not modelled.  Two saves of one asynchronous call at once, which could mix their
columns, are one after the other in `AsyncTask`.  `Registry` has no redeployments (which name the
previous job and grant nothing), not the columns an `UPDATE` of an existing job writes nor its
error when the job is gone, and no tables of the subjects of users and of requests for public
endpoints; `Accounts` and `Portfolio` have the last two.  Commands of infrastructures share the
websocket of a remote gateway and are not told apart from calls.  Of plugins, their configuration
and the hooks they are called with are left out, as are a disk that is full and the moment in which
`last-change.txt` is empty.  Of authorisation, the permission per endpoint path and the expiry of
tokens.
