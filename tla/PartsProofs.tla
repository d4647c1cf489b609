----------------------------- MODULE PartsProofs -----------------------------
(***************************************************************************)
(* Proofs about the parts that work by themselves: the client's commands   *)
(* and configuration, the packing of files, the building of images, the    *)
(* installation wizards and the tools of the maintainers. Each has an      *)
(* inductive invariant of its own, which says what a process knows at each *)
(* of its steps of what it left behind.                                    *)
(***************************************************************************)
EXTENDS Client, Packing, ImageBuild, Wizard, Maintenance, FiniteSetTheorems, SequenceTheorems, TLAPS

-----------------------------------------------------------------------------
(***************************************************************************)
(* The client.                                                             *)
(***************************************************************************)
-----------------------------------------------------------------------------
(* The inductive invariant                                                 *)

\* The shapes of a process and of a server.
IsProc(r) ==
    r = [pc |-> r.pc, cmd |-> r.cmd, config |-> r.config, url |-> r.url, token |-> r.token, version |-> r.version,
         step |-> r.step, exit |-> r.exit, unsure |-> r.unsure, loaded |-> r.loaded, saved |-> r.saved]
IsServer(s) ==
    /\ s = [host |-> s.host, generation |-> s.generation, maintenance |-> s.maintenance,
            auth_required |-> s.auth_required, jobs |-> s.jobs, plugin |-> s.plugin, deployments |-> s.deployments]
    /\ s.generation \in Nat \ {0}
    /\ s.deployments = [q \in DOMAIN s.deployments |-> s.deployments[q]]
    /\ \A q \in DOMAIN s.deployments :
          LET d == s.deployments[q] IN
          d = [status |-> d.status, version |-> d.version, build |-> d.build] /\ d.build \in BOOLEAN

Full == [scheme : {"http", "https"}, host : STRING, path : {"lifecycle"}]
Pcs == {"idle", "auth", "send", "poll", "save", "write", "done", "killed"}
Local == {"set_credentials", "set_remote", "set_alias", "logout"}
Logins == {"login", "login_username"}

\* What a process knows at its steps.
ProcOK(r) ==
    /\ IsProc(r) /\ r.pc \in Pcs /\ r.cmd \in Command /\ r.loaded \in Nat /\ r.saved \in Nat /\ r.unsure \in BOOLEAN
    /\ r.saved > 0 => r.pc = "done" /\ r.cmd.op \in Settings
    /\ r.pc = "idle" => r.loaded = 0 /\ r.step = 1
    /\ r.pc = "auth" => r.step = 1
    /\ r.pc \in {"auth", "send"} => r.cmd.op \notin Local /\ r.step \in 1..Len(RequestsOf(r.cmd.op))
    /\ r.pc = "poll" => r.cmd.op \in {"deploy", "run-local"}
    /\ r.pc \in {"save", "write"} => r.cmd.op \in Settings
    /\ r.pc \notin {"idle", "done", "killed"} => ConfigOK(r.config) /\ r.url \in Full
    /\ r.pc \in {"save", "write"} /\ r.cmd.op \in Logins => r.token[1] = r.url.host /\ r.token # NoToken

ClientTyped ==
    /\ clock \in Nat
    /\ proc = [p \in Proc |-> proc[p]] /\ \A p \in Proc : ProcOK(proc[p])
    /\ server = [h \in Host |-> server[h]] /\ \A h \in Host : IsServer(server[h]) /\ server[h].host = h
    /\ file # <<>> => file = <<file[1]>> /\ ConfigOK(file[1])
    /\ tmp \subseteq Proc

\* Loads and saves are told apart by the clock.
Clocked ==
    \A p \in Proc :
        /\ proc[p].loaded <= clock /\ proc[p].saved <= clock
        /\ proc[p].saved > 0 => \A q \in Proc : /\ proc[p].saved # proc[q].loaded
                                                /\ q # p => proc[p].saved # proc[q].saved

\* What p has set was set again, or lost to one that had loaded the file before.
Superseded(p) ==
    \E q \in Proc : /\ proc[q].saved > proc[p].saved
                    /\ proc[q].loaded < proc[p].saved \/ Key(proc[q]) = Key(proc[p])

\* A configuration has what was set before some time.
Knows(config, time) ==
    \A p \in Proc : 0 < proc[p].saved /\ proc[p].saved < time => Kept(config, proc[p]) \/ Superseded(p)

Active(p) == proc[p].pc \notin {"idle", "done", "killed"}

Informed ==
    /\ file # <<>> => Knows(file[1], clock + 1)
    /\ \A p \in Proc : Active(p) => Knows(proc[p].config, proc[p].loaded)

\* What a command has done on the servers.
Untouched(p) == p \notin effects /\ p \notin halfway /\ \A h \in Host : p \notin DOMAIN server[h].deployments
Going(p, h) ==
    /\ p \in DOMAIN server[h].deployments
    /\ server[h].deployments[p].status = "in_progress" /\ ~server[h].deployments[p].build

Honest(p) ==
    LET r == proc[p] IN
    r.cmd.op \in Changing =>
        /\ r.pc \in {"idle", "auth", "send"} => Untouched(p)
        /\ r.pc = "poll" =>
              LET h == r.url.host IN
              /\ h \in Host /\ p \in DOMAIN server[h].deployments
              /\ \A g \in Host \ {h} : p \notin DOMAIN server[g].deployments
              /\ p \in effects <=> server[h].deployments[p].status = "done"
              /\ p \in halfway => server[h].deployments[p].status = "failed"
        /\ r.pc = "done" /\ r.exit = "ok" => p \in effects /\ p \notin halfway /\ \A h \in Host : ~Going(p, h)
        /\ r.pc = "done" /\ r.exit # "ok" /\ ~r.unsure => p \notin effects /\ \A h \in Host : ~Going(p, h)

ClientInv ==
    /\ ClientTyped /\ Clocked /\ Informed /\ UnreadableHasCause
    /\ \A p \in Proc : Honest(p)
    /\ TemporaryFileIsRemoved

-----------------------------------------------------------------------------
(* What the servers answer                                                 *)

\* The answer to a request of p: an error changes nothing, and no other
\* process' deployment is changed.
Fair(s, p, a) ==
    /\ IsServer(a.state) /\ a.state.host = s.host /\ a.state.generation = s.generation
    /\ a.status # 200 => a.state = s
    /\ \A q \in Proc \ {p} :
          /\ q \in DOMAIN a.state.deployments <=> q \in DOMAIN s.deployments
          /\ q \in DOMAIN s.deployments => a.state.deployments[q] = s.deployments[q]

\* Requests that create no deployment leave that of p as it is, too.
Plain(s, a) == a.state.deployments = s.deployments

LEMMA PlainAnswers ==
    ASSUME NEW s, IsServer(s), NEW p, NEW status, NEW version
    PROVE  Fair(s, p, Answer(status, s, version)) /\ Plain(s, Answer(status, s, version))
BY DEF Fair, Plain, Answer

LEMMA CheckedIsFair ==
    ASSUME NEW s, IsServer(s), NEW p, NEW token, NEW a, Fair(s, p, a)
    PROVE  /\ Fair(s, p, Checked(s, token, a)) /\ (Plain(s, a) => Plain(s, Checked(s, token, a)))
           /\ Checked(s, token, a).status = 200 => Authenticated(s, token) /\ Checked(s, token, a) = a
<1>1. Fair(s, p, Answer(401, s, 0)) /\ Plain(s, Answer(401, s, 0)) /\ Answer(401, s, 0).status # 200
  BY PlainAnswers DEF Answer
<1> QED BY <1>1 DEF Checked, Unauthorized

LEMMA MaintainedIsFair ==
    ASSUME NEW s, IsServer(s), NEW p, NEW token, NEW a, Fair(s, p, a)
    PROVE  /\ Fair(s, p, Maintained(s, token, a)) /\ (Plain(s, a) => Plain(s, Maintained(s, token, a)))
           /\ Maintained(s, token, a).status = 200 => Maintained(s, token, a) = a
<1>1. Fair(s, p, Answer(500, s, 0)) /\ Plain(s, Answer(500, s, 0)) /\ Answer(500, s, 0).status # 200
  BY PlainAnswers DEF Answer
<1> QED BY <1>1, CheckedIsFair DEF Maintained, Error

\* A server that changes its jobs or its plugins.
LEMMA ChangesOwn ==
    ASSUME NEW s, IsServer(s), NEW p, NEW jobs, NEW plugin, NEW version, NEW t,
           t = [host |-> s.host, generation |-> s.generation, maintenance |-> s.maintenance,
                auth_required |-> s.auth_required, jobs |-> jobs, plugin |-> plugin, deployments |-> s.deployments]
    PROVE  Fair(s, p, Answer(200, t, version)) /\ Plain(s, Answer(200, t, version))
<1>1. IsServer(t) /\ t.host = s.host /\ t.generation = s.generation /\ t.deployments = s.deployments
  BY DEF IsServer
<1> QED BY <1>1 DEF Fair, Plain, Answer

LEMMA ChangesJob ==
    ASSUME NEW s, IsServer(s), NEW v, NEW to, NEW p
    PROVE  /\ Fair(s, p, Answer(200, [s EXCEPT !.jobs[v] = to], v)) /\ Plain(s, Answer(200, [s EXCEPT !.jobs[v] = to], v))
<1> DEFINE t == [s EXCEPT !.jobs[v] = to]
<1>1. t = [host |-> s.host, generation |-> s.generation, maintenance |-> s.maintenance, auth_required |-> s.auth_required,
           jobs |-> t.jobs, plugin |-> s.plugin, deployments |-> s.deployments]
  BY DEF IsServer
<1> HIDE DEF t
<1>2. Fair(s, p, Answer(200, t, v)) /\ Plain(s, Answer(200, t, v))
  BY <1>1, ChangesOwn
<1> QED BY <1>2 DEF t

LEMMA ChangesPlugin ==
    ASSUME NEW s, IsServer(s), NEW to, NEW p
    PROVE  /\ Fair(s, p, Answer(200, [s EXCEPT !.plugin = to], 0)) /\ Plain(s, Answer(200, [s EXCEPT !.plugin = to], 0))
<1> DEFINE t == [s EXCEPT !.plugin = to]
<1>1. t = [host |-> s.host, generation |-> s.generation, maintenance |-> s.maintenance, auth_required |-> s.auth_required,
           jobs |-> s.jobs, plugin |-> to, deployments |-> s.deployments]
  BY DEF IsServer
<1> HIDE DEF t
<1>2. Fair(s, p, Answer(200, t, 0)) /\ Plain(s, Answer(200, t, 0))
  BY <1>1, ChangesOwn
<1> QED BY <1>2 DEF t

\* A deployment is created in progress.
LEMMA RequestedIsFair ==
    ASSUME NEW s, IsServer(s), NEW p, NEW v, NEW whole \in BOOLEAN
    PROVE  LET t == Requested(s, p, v, whole) IN
           /\ Fair(s, p, Answer(200, t, v)) /\ p \in DOMAIN t.deployments
           /\ t.deployments[p] = [status |-> "in_progress", version |-> v, build |-> whole]
<1> DEFINE new == [status |-> "in_progress", version |-> v, build |-> whole]
           all == [q \in DOMAIN s.deployments \cup {p} |-> IF q = p THEN new ELSE s.deployments[q]]
           t == Requested(s, p, v, whole)
<1>1. t = [host |-> s.host, generation |-> s.generation, maintenance |-> s.maintenance, auth_required |-> s.auth_required,
           jobs |-> s.jobs, plugin |-> s.plugin, deployments |-> all]
  BY DEF Requested, With, IsServer
<1>2. /\ DOMAIN all = DOMAIN s.deployments \cup {p} /\ all[p] = new
      /\ \A q \in DOMAIN s.deployments \ {p} : all[q] = s.deployments[q]
      /\ all = [q \in DOMAIN all |-> all[q]]
  OBVIOUS
<1>3. new = [status |-> new.status, version |-> new.version, build |-> new.build] /\ new.build \in BOOLEAN
  OBVIOUS
<1>4. t.host = s.host /\ t.generation = s.generation /\ t.deployments = all
  BY <1>1
<1> HIDE DEF t, all, new
<1>5. IsServer(t)
  <2>1. \A q \in DOMAIN all : all[q] = [status |-> all[q].status, version |-> all[q].version, build |-> all[q].build]
                              /\ all[q].build \in BOOLEAN
    BY <1>2, <1>3 DEF IsServer
  <2>2. /\ t.maintenance = s.maintenance /\ t.auth_required = s.auth_required /\ t.jobs = s.jobs /\ t.plugin = s.plugin
    BY <1>1
  <2>3. s.generation \in Nat \ {0}
    BY DEF IsServer
  <2> QED BY <1>1, <1>2, <1>4, <2>1, <2>2, <2>3 DEF IsServer
<1>6. Fair(s, p, Answer(200, t, v))
  BY <1>2, <1>4, <1>5 DEF Fair, Answer
<1>7. p \in DOMAIN t.deployments /\ t.deployments[p] = new
  BY <1>2, <1>4
<1> QED BY <1>6, <1>7 DEF t, new

Requests ==
    {"GET_info", "GET_job", "DELETE_job", "POST_move", "GET_job/version", "POST_call", "GET_logs", "POST_deploy",
     "POST_build", "GET_deploy", "POST_upload", "DELETE_plugin", "GET_plugin", "GET_validate_user_auth", "POST_login"}

LEMMA Reads ==
    ASSUME NEW s, IsServer(s), NEW p, NEW token, NEW v
    PROVE  /\ Fair(s, p, ServeInfo(s)) /\ Plain(s, ServeInfo(s)) /\ Fair(s, p, ServeList(s, token)) /\ Plain(s, ServeList(s, token))
           /\ Fair(s, p, ServePlugins(s)) /\ Plain(s, ServePlugins(s))
           /\ Fair(s, p, ServeDeployment(s, token)) /\ Plain(s, ServeDeployment(s, token))
           /\ Fair(s, p, ServeValidate(s, token)) /\ Plain(s, ServeValidate(s, token))
           /\ ServeValidate(s, token).status = 200 => Authenticated(s, token)
           /\ \A c \in BOOLEAN : Fair(s, p, ServeLogin(s, c)) /\ Plain(s, ServeLogin(s, c))
<1>1. \A status, version : Fair(s, p, Answer(status, s, version)) /\ Plain(s, Answer(status, s, version))
  BY PlainAnswers
<1>2. /\ Fair(s, p, Checked(s, token, Answer(200, s, 0))) /\ Plain(s, Checked(s, token, Answer(200, s, 0)))
      /\ Checked(s, token, Answer(200, s, 0)).status = 200 => Authenticated(s, token)
  <2> DEFINE a == Answer(200, s, 0)
  <2>1. Fair(s, p, a) /\ Plain(s, a)
    BY <1>1
  <2> HIDE DEF a
  <2>2. Fair(s, p, Checked(s, token, a)) /\ Plain(s, Checked(s, token, a))
        /\ (Checked(s, token, a).status = 200 => Authenticated(s, token))
    BY <2>1, CheckedIsFair
  <2> QED BY <2>2 DEF a
<1>3. Fair(s, p, ServeInfo(s)) /\ Plain(s, ServeInfo(s)) /\ Fair(s, p, ServePlugins(s)) /\ Plain(s, ServePlugins(s))
  BY <1>1 DEF ServeInfo, ServePlugins
<1>4. \A c \in BOOLEAN : Fair(s, p, ServeLogin(s, c)) /\ Plain(s, ServeLogin(s, c))
  BY <1>1 DEF ServeLogin, Unauthorized
<1> QED BY <1>2, <1>3, <1>4 DEF ServeList, ServeDeployment, ServeValidate

LEMMA ReadsJobs ==
    ASSUME NEW s, IsServer(s), NEW p, NEW token, NEW v
    PROVE  /\ Fair(s, p, ServeJob(s, token, v)) /\ Plain(s, ServeJob(s, token, v))
           /\ Fair(s, p, ServeLogs(s, token, v)) /\ Plain(s, ServeLogs(s, token, v))
           /\ Fair(s, p, ServeCall(s, token, v)) /\ Plain(s, ServeCall(s, token, v))
<1>1. \A status, version : Fair(s, p, Answer(status, s, version)) /\ Plain(s, Answer(status, s, version))
  BY PlainAnswers
<1> DEFINE a == OfJob(s, v, Answer(200, s, ResolveVersion(s, v)))
           b == IF v \in Deployed(s) /\ s.jobs[v] # Unserved THEN Answer(200, s, v) ELSE Answer(404, s, 0)
<1>2. Fair(s, p, a) /\ Plain(s, a)
  BY <1>1 DEF OfJob
<1>3. Fair(s, p, b) /\ Plain(s, b)
  BY <1>1
<1>4. ServeJob(s, token, v) = Checked(s, token, a) /\ ServeLogs(s, token, v) = Checked(s, token, a)
      /\ ServeCall(s, token, v) = Checked(s, token, b)
  BY DEF ServeJob, ServeLogs, ServeCall
<1> HIDE DEF a, b
<1>5. Fair(s, p, Checked(s, token, a)) /\ Plain(s, Checked(s, token, a))
  BY <1>2, CheckedIsFair
<1>6. Fair(s, p, Checked(s, token, b)) /\ Plain(s, Checked(s, token, b))
  BY <1>3, CheckedIsFair
<1> QED BY <1>4, <1>5, <1>6

LEMMA ChangesJobs ==
    ASSUME NEW s, IsServer(s), NEW p, NEW token, NEW v, NEW target
    PROVE  /\ Fair(s, p, ServeDelete(s, token, v)) /\ Plain(s, ServeDelete(s, token, v))
           /\ Fair(s, p, ServeMove(s, token, v, target)) /\ Plain(s, ServeMove(s, token, v, target))
           /\ Fair(s, p, ServeUpload(s, token)) /\ Plain(s, ServeUpload(s, token))
           /\ Fair(s, p, ServeUninstall(s, token)) /\ Plain(s, ServeUninstall(s, token))
<1>1. \A status, version : Fair(s, p, Answer(status, s, version)) /\ Plain(s, Answer(status, s, version))
  BY PlainAnswers
<1>2. Fair(s, p, Error(s)) /\ Plain(s, Error(s))
  BY <1>1 DEF Error
<1> DEFINE cleared == Answer(200, [s EXCEPT !.jobs[v] = Absent], v)
           moved == Answer(200, [s EXCEPT !.jobs[v] = target], v)
           c == Answer(200, [s EXCEPT !.plugin = TRUE], 0)
           without == Answer(200, [s EXCEPT !.plugin = FALSE], 0)
           a == IF v \in Deployed(s) THEN cleared ELSE Answer(404, s, 0)
           b == IF v \in Deployed(s) /\ s.jobs[v] # target /\ ~Running(s, v) THEN moved ELSE Error(s)
           d == IF s.plugin THEN without ELSE Error(s)
<1>r. Fair(s, p, cleared) /\ Plain(s, cleared)
  BY ChangesJob
<1>m. Fair(s, p, moved) /\ Plain(s, moved)
  BY ChangesJob
<1>w. Fair(s, p, without) /\ Plain(s, without)
  BY ChangesPlugin
<1>c. Fair(s, p, c) /\ Plain(s, c)
  BY ChangesPlugin
<1> HIDE DEF cleared, moved, without
<1>3. Fair(s, p, a) /\ Plain(s, a) /\ Fair(s, p, b) /\ Plain(s, b)
  BY <1>1, <1>2, <1>r, <1>m
<1>4. Fair(s, p, c) /\ Plain(s, c) /\ Fair(s, p, d) /\ Plain(s, d)
  BY <1>2, <1>w, <1>c
<1> USE DEF cleared, moved, without
<1>5. /\ ServeDelete(s, token, v) = Maintained(s, token, a) /\ ServeMove(s, token, v, target) = Maintained(s, token, b)
      /\ ServeUpload(s, token) = Checked(s, token, c) /\ ServeUninstall(s, token) = Checked(s, token, d)
  BY DEF ServeDelete, ServeMove, ServeUpload, ServeUninstall
<1> HIDE DEF a, b, c, d, cleared, moved, without
<1>6. Fair(s, p, Maintained(s, token, a)) /\ Plain(s, Maintained(s, token, a))
  BY <1>3, MaintainedIsFair
<1>7. Fair(s, p, Maintained(s, token, b)) /\ Plain(s, Maintained(s, token, b))
  BY <1>3, MaintainedIsFair
<1>8. Fair(s, p, Checked(s, token, c)) /\ Plain(s, Checked(s, token, c))
  BY <1>4, CheckedIsFair
<1>9. Fair(s, p, Checked(s, token, d)) /\ Plain(s, Checked(s, token, d))
  BY <1>4, CheckedIsFair
<1> QED BY <1>5, <1>6, <1>7, <1>8, <1>9

\* A request for a deployment that is accepted.
Accepted(a, p, whole) ==
    a.status = 200 => /\ p \in DOMAIN a.state.deployments
                      /\ a.state.deployments[p].status = "in_progress" /\ a.state.deployments[p].build = whole

LEMMA RequestsDeployments ==
    ASSUME NEW s, IsServer(s), NEW p, NEW token, NEW v
    PROVE  /\ Fair(s, p, ServeDeploy(s, token, p, v)) /\ Accepted(ServeDeploy(s, token, p, v), p, FALSE)
           /\ Fair(s, p, ServeBuild(s, token, p, v)) /\ Accepted(ServeBuild(s, token, p, v), p, TRUE)
<1>1. Fair(s, p, Answer(500, s, 0))
  BY PlainAnswers
<1> DEFINE a == IF Running(s, v) THEN Error(s) ELSE Answer(200, Requested(s, p, v, FALSE), v)
           b == IF Running(s, v) THEN Error(s) ELSE Answer(200, Requested(s, p, v, TRUE), v)
<1>2. Fair(s, p, a) /\ Accepted(a, p, FALSE)
  <2>1. CASE Running(s, v)
    BY <1>1, <2>1 DEF Error, Accepted, Answer
  <2>2. CASE ~Running(s, v)
    <3> DEFINE t == Requested(s, p, v, FALSE)
    <3>1. /\ Fair(s, p, Answer(200, t, v)) /\ p \in DOMAIN t.deployments
          /\ t.deployments[p] = [status |-> "in_progress", version |-> v, build |-> FALSE]
      BY RequestedIsFair
    <3>2. a = Answer(200, t, v)
      BY <2>2
    <3> HIDE DEF t, a
    <3> QED BY <3>1, <3>2 DEF Accepted, Answer
  <2> QED BY <2>1, <2>2
<1>3. Fair(s, p, b) /\ Accepted(b, p, TRUE)
  <2>1. CASE Running(s, v)
    BY <1>1, <2>1 DEF Error, Accepted, Answer
  <2>2. CASE ~Running(s, v)
    <3> DEFINE t == Requested(s, p, v, TRUE)
    <3>1. /\ Fair(s, p, Answer(200, t, v)) /\ p \in DOMAIN t.deployments
          /\ t.deployments[p] = [status |-> "in_progress", version |-> v, build |-> TRUE]
      BY RequestedIsFair
    <3>2. b = Answer(200, t, v)
      BY <2>2
    <3> HIDE DEF t, b
    <3> QED BY <3>1, <3>2 DEF Accepted, Answer
  <2> QED BY <2>1, <2>2
<1>4. ServeDeploy(s, token, p, v) = Maintained(s, token, a) /\ ServeBuild(s, token, p, v) = Checked(s, token, b)
  BY DEF ServeDeploy, ServeBuild
<1> HIDE DEF a, b
<1>5. Fair(s, p, Maintained(s, token, a)) /\ (Maintained(s, token, a).status = 200 => Maintained(s, token, a) = a)
  BY <1>2, MaintainedIsFair
<1>6. Fair(s, p, Checked(s, token, b)) /\ (Checked(s, token, b).status = 200 => Checked(s, token, b) = b)
  BY <1>3, CheckedIsFair
<1> QED BY <1>2, <1>3, <1>4, <1>5, <1>6 DEF Accepted

\* A token that was validated is the one of the server.
Validated(s, r, request, a) == request = "GET_validate_user_auth" /\ a.status = 200 => Authenticated(s, r.token)

LEMMA ServesFairly ==
    ASSUME NEW s, IsServer(s), NEW p, NEW r, NEW request \in Requests, NEW a, a = Serve(s, p, r, request)
    PROVE  /\ Fair(s, p, a)
           /\ request \notin {"POST_deploy", "POST_build"} => Plain(s, a)
           /\ request = "POST_deploy" => Accepted(a, p, FALSE)
           /\ request = "POST_build" => Accepted(a, p, TRUE)
           /\ Validated(s, r, request, a)
<1>1. /\ request = "GET_info" => a = ServeInfo(s)
      /\ request = "GET_job" => a = ServeList(s, r.token)
      /\ request = "DELETE_job" => a = ServeDelete(s, r.token, r.version)
      /\ request = "POST_move" => a = ServeMove(s, r.token, r.version, r.cmd.arg)
      /\ request = "GET_job/version" => a = ServeJob(s, r.token, r.version)
      /\ request = "POST_call" => a = ServeCall(s, r.token, r.version)
      /\ request = "GET_logs" => a = ServeLogs(s, r.token, r.version)
      /\ request = "POST_deploy" => a = ServeDeploy(s, r.token, p, r.version)
      /\ request = "POST_build" => a = ServeBuild(s, r.token, p, r.version)
      /\ request = "GET_deploy" => a = ServeDeployment(s, r.token)
      /\ request = "POST_upload" => a = ServeUpload(s, r.token)
      /\ request = "DELETE_plugin" => a = ServeUninstall(s, r.token)
      /\ request = "GET_plugin" => a = ServePlugins(s)
      /\ request = "GET_validate_user_auth" => a = ServeValidate(s, r.token)
      /\ request = "POST_login" => a = ServeLogin(s, r.cmd.flag)
  BY DEF Serve
<1>2. CASE request \in {"GET_info", "GET_job", "GET_deploy", "GET_plugin"}
  BY <1>1, <1>2, Reads DEF Validated
<1>3. CASE request = "GET_validate_user_auth"
  BY <1>1, <1>3, Reads DEF Validated
<1>4. CASE request = "POST_login"
  <2>1. a = ServeLogin(s, TRUE) \/ a = ServeLogin(s, FALSE)
    BY <1>1, <1>4 DEF ServeLogin
  <2> QED BY <1>4, <2>1, Reads DEF Validated
<1>5. CASE request \in {"GET_job/version", "POST_call", "GET_logs"}
  BY <1>1, <1>5, ReadsJobs DEF Validated
<1>6. CASE request \in {"DELETE_job", "POST_move", "POST_upload", "DELETE_plugin"}
  BY <1>1, <1>6, ChangesJobs DEF Validated
<1>7. CASE request \in {"POST_deploy", "POST_build"}
  BY <1>1, <1>7, RequestsDeployments DEF Validated
<1> QED BY <1>2, <1>3, <1>4, <1>5, <1>6, <1>7 DEF Requests, Validated

-----------------------------------------------------------------------------
(* What a step changes on the servers, and what stays known                *)

\* Another command's traces are left alone.
Same(q) ==
    /\ q \in effects' <=> q \in effects
    /\ q \in halfway' <=> q \in halfway
    /\ \A h \in Host :
          /\ q \in DOMAIN server'[h].deployments <=> q \in DOMAIN server[h].deployments
          /\ q \in DOMAIN server[h].deployments => server'[h].deployments[q] = server[h].deployments[q]

ServersTyped == server = [h \in Host |-> server[h]] /\ \A h \in Host : IsServer(server[h]) /\ server[h].host = h

LEMMA SameIsHonest ==
    ASSUME NEW q \in Proc, Honest(q), Same(q), proc'[q] = proc[q]
    PROVE  Honest(q)'
<1> DEFINE r == proc[q]
<1>1. Untouched(q) => Untouched(q)'
  BY DEF Untouched, Same
<1>2. \A h \in Host : Going(q, h)' => Going(q, h)
  BY DEF Going, Same
<1> SUFFICES ASSUME r.cmd.op \in Changing PROVE Honest(q)'
  BY DEF Honest
<1>3. r.pc = "poll" => LET h == r.url.host IN
              /\ h \in Host /\ q \in DOMAIN server'[h].deployments
              /\ \A g \in Host \ {h} : q \notin DOMAIN server'[g].deployments
              /\ q \in effects' <=> server'[h].deployments[q].status = "done"
              /\ q \in halfway' => server'[h].deployments[q].status = "failed"
  BY DEF Honest, Same
<1> QED BY <1>1, <1>2, <1>3 DEF Honest, Same

\* What a request of p, sent with the record r, did on its host h.
Effect(p, r, request, h, a) ==
    /\ server'[h] = a.state /\ \A g \in Host \ {h} : server'[g] = server[g]
    /\ Fair(server[h], p, a)
    /\ halfway' = halfway
    /\ a.status # 200 => server' = server /\ effects' = effects
    /\ request \notin {"POST_deploy", "POST_build"} => a.state.deployments = server[h].deployments
    /\ request = "POST_deploy" => Accepted(a, p, FALSE)
    /\ request = "POST_build" => Accepted(a, p, TRUE)
    /\ Validated(server[h], r, request, a)
    /\ request \notin Changes => effects' = effects
    /\ request \in Changes /\ a.status = 200 => effects' = effects \cup {p}

LEMMA ServedFairly ==
    ASSUME ServersTyped, NEW p \in Proc, NEW r, NEW request \in Requests, NEW h \in Host, h = r.url.host,
           NEW a, a = Serve(server[h], p, r, request), Served(p, r, request, a)
    PROVE  ServersTyped' /\ (\A q \in Proc \ {p} : Same(q)) /\ Effect(p, r, request, h, a)
<1>1. /\ Fair(server[h], p, a)
      /\ request \notin {"POST_deploy", "POST_build"} => Plain(server[h], a)
      /\ request = "POST_deploy" => Accepted(a, p, FALSE)
      /\ request = "POST_build" => Accepted(a, p, TRUE)
      /\ Validated(server[h], r, request, a)
  <2>s. PICK s : s = server[h]
    OBVIOUS
  <2>1. IsServer(s)
    BY <2>s DEF ServersTyped
  <2>a. PICK b : b = Serve(s, p, r, request)
    OBVIOUS
  <2>2. /\ Fair(s, p, b) /\ (request \notin {"POST_deploy", "POST_build"} => Plain(s, b))
        /\ (request = "POST_deploy" => Accepted(b, p, FALSE)) /\ (request = "POST_build" => Accepted(b, p, TRUE))
        /\ Validated(s, r, request, b)
    <3>1. Fair(s, p, b)
      BY <2>1, <2>a, ServesFairly
    <3>2. request \notin {"POST_deploy", "POST_build"} => Plain(s, b)
      BY <2>1, <2>a, ServesFairly
    <3>3. (request = "POST_deploy" => Accepted(b, p, FALSE)) /\ (request = "POST_build" => Accepted(b, p, TRUE))
      BY <2>1, <2>a, ServesFairly
    <3>4. Validated(s, r, request, b)
      BY <2>1, <2>a, ServesFairly
    <3> QED BY <3>1, <3>2, <3>3, <3>4
  <2> QED BY <2>s, <2>a, <2>2
<1>2. /\ server' = [server EXCEPT ![h] = a.state]
      /\ effects' = IF request \in Changes /\ a.status = 200 THEN effects \cup {p} ELSE effects
      /\ halfway' = halfway
  BY DEF Served
<1>3. h \in Host
  OBVIOUS
<1>4. server'[h] = a.state /\ (\A g \in Host \ {h} : server'[g] = server[g]) /\ server' = [g \in Host |-> server'[g]]
  BY <1>2, <1>3 DEF ServersTyped
<1>5. a.status # 200 => server' = server /\ effects' = effects
  BY <1>1, <1>2, <1>3 DEF ServersTyped, Fair
<1>6. ServersTyped'
  BY <1>1, <1>3, <1>4 DEF ServersTyped, Fair
<1>7. \A q \in Proc \ {p} : Same(q)
  <2>1. \A q \in Proc \ {p} : (q \in effects' <=> q \in effects) /\ (q \in halfway' <=> q \in halfway)
    BY <1>2
  <2> QED BY <1>1, <1>3, <1>4, <2>1 DEF Same, Fair
<1>8. server[h].host = h
  BY <1>3 DEF ServersTyped
<1> QED BY <1>1, <1>2, <1>4, <1>5, <1>6, <1>7, <1>8 DEF Plain, Effect

\* A step of p changes what no process that is done knows.
LEMMA Remembers ==
    ASSUME NEW p \in Proc, ClientTyped, proc[p].saved = 0,
           NEW y, proc' = [proc EXCEPT ![p] = y], NEW time \in Nat, y.saved \in Nat, y.saved = 0 \/ y.saved >= time,
           NEW config, Knows(config, time)
    PROVE  /\ \A q \in Proc \ {p} : Superseded(q) => Superseded(q)'
           /\ Knows(config, time)'
<1>1. /\ \A q \in Proc \ {p} : proc'[q] = proc[q]
      /\ proc'[p] = y
  BY DEF ClientTyped
<1>2. \A q \in Proc : proc[q].saved \in Nat
  BY DEF ClientTyped, ProcOK
<1>3. \A q \in Proc \ {p} : Superseded(q) => Superseded(q)'
  <2> SUFFICES ASSUME NEW q \in Proc \ {p}, Superseded(q) PROVE Superseded(q)'
    OBVIOUS
  <2>1. PICK w \in Proc : proc[w].saved > proc[q].saved /\ (proc[w].loaded < proc[q].saved \/ Key(proc[w]) = Key(proc[q]))
    BY DEF Superseded
  <2>2. w # p
    BY <1>2, <2>1
  <2>3. proc'[w] = proc[w] /\ proc'[q] = proc[q]
    BY <1>1, <2>2
  <2> QED BY <2>1, <2>3 DEF Superseded, Key
<1>4. \A q \in Proc : 0 < proc'[q].saved /\ proc'[q].saved < time => Kept(config, proc'[q]) \/ Superseded(q)'
  <2> SUFFICES ASSUME NEW q \in Proc, 0 < proc'[q].saved, proc'[q].saved < time
               PROVE  Kept(config, proc'[q]) \/ Superseded(q)'
    OBVIOUS
  <2>1. q # p
    BY <1>1
  <2>2. proc'[q] = proc[q]
    BY <1>1, <2>1
  <2>3. Kept(config, proc[q]) \/ Superseded(q)
    BY <2>2 DEF Knows
  <2> QED BY <1>3, <2>1, <2>2, <2>3
<1> QED BY <1>3, <1>4 DEF Knows, Kept

-----------------------------------------------------------------------------
(* The steps of a command between the loading and the saving               *)

\* The record of a command after such a step.
Along(r, y) ==
    /\ IsProc(y) /\ y.unsure \in BOOLEAN
    /\ y.cmd = r.cmd /\ y.config = r.config /\ y.url = r.url /\ y.loaded = r.loaded /\ y.saved = r.saved

Ends(p, y) == Along(proc[p], y) /\ y.pc = "done" /\ proc' = [proc EXCEPT ![p] = y] /\ tmp' = tmp \ {p}
Onto(p, y) == Along(proc[p], y) /\ y.pc # "done" /\ proc' = [proc EXCEPT ![p] = y] /\ tmp' = tmp

LEMMA FieldsOfGoto ==
    ASSUME NEW r, IsProc(r), NEW pc, NEW y, y = [r EXCEPT !.pc = pc]
    PROVE  /\ IsProc(y) /\ y.pc = pc /\ y.unsure = r.unsure /\ y.cmd = r.cmd /\ y.config = r.config
           /\ y.url = r.url /\ y.loaded = r.loaded /\ y.saved = r.saved /\ y.step = r.step /\ y.token = r.token
<1>1. y = [pc |-> pc, cmd |-> r.cmd, config |-> r.config, url |-> r.url, token |-> r.token, version |-> r.version,
           step |-> r.step, exit |-> r.exit, unsure |-> r.unsure, loaded |-> r.loaded, saved |-> r.saved]
  BY DEF IsProc
<1> QED BY <1>1 DEF IsProc

LEMMA FieldsOfUnsure ==
    ASSUME NEW r, IsProc(r), NEW unsure, NEW y, y = [r EXCEPT !.unsure = unsure]
    PROVE  /\ IsProc(y) /\ y.pc = r.pc /\ y.unsure = unsure /\ y.cmd = r.cmd /\ y.config = r.config
           /\ y.url = r.url /\ y.loaded = r.loaded /\ y.saved = r.saved
<1>1. y = [pc |-> r.pc, cmd |-> r.cmd, config |-> r.config, url |-> r.url, token |-> r.token, version |-> r.version,
           step |-> r.step, exit |-> r.exit, unsure |-> unsure, loaded |-> r.loaded, saved |-> r.saved]
  BY DEF IsProc
<1> QED BY <1>1 DEF IsProc

LEMMA Exits ==
    ASSUME NEW p \in Proc, NEW x, Along(proc[p], x), NEW result, Exit(p, x, result)
    PROVE  \E y : Ends(p, y) /\ y.exit = result /\ y.unsure = x.unsure
<1>y. PICK y : y = [x EXCEPT !.pc = "done", !.exit = result]
  OBVIOUS
<1>1. /\ IsProc(y) /\ y.pc = "done" /\ y.exit = result /\ y.unsure = x.unsure /\ y.cmd = x.cmd /\ y.config = x.config
      /\ y.url = x.url /\ y.loaded = x.loaded /\ y.saved = x.saved
  <2>1. y = [pc |-> "done", cmd |-> x.cmd, config |-> x.config, url |-> x.url, token |-> x.token, version |-> x.version,
             step |-> x.step, exit |-> result, unsure |-> x.unsure, loaded |-> x.loaded, saved |-> x.saved]
    BY <1>y DEF Along, IsProc
  <2> QED BY <2>1 DEF IsProc
<1>2. proc' = [proc EXCEPT ![p] = y] /\ tmp' = tmp \ {p}
  BY <1>y DEF Exit
<1>3. Ends(p, y)
  BY <1>1, <1>2 DEF Ends, Along
<1> QED BY <1>1, <1>3

LEMMA GoesOn ==
    ASSUME NEW p \in Proc, NEW x, Along(proc[p], x), NEW pc, pc # "done", Goto(p, x, pc)
    PROVE  \E y : Onto(p, y) /\ y.pc = pc /\ y.unsure = x.unsure /\ y.step = x.step /\ y.token = x.token
<1>y. PICK y : y = [x EXCEPT !.pc = pc]
  OBVIOUS
<1>1. /\ IsProc(y) /\ y.pc = pc /\ y.unsure = x.unsure /\ y.cmd = x.cmd /\ y.config = x.config
      /\ y.url = x.url /\ y.loaded = x.loaded /\ y.saved = x.saved /\ y.step = x.step /\ y.token = x.token
  BY <1>y, FieldsOfGoto DEF Along
<1>2. proc' = [proc EXCEPT ![p] = y] /\ tmp' = tmp
  BY <1>y DEF Goto
<1>3. Onto(p, y)
  BY <1>1, <1>2 DEF Onto, Along
<1> QED BY <1>1, <1>3

LEMMA Unsaved ==
    ASSUME ClientTyped, NEW p \in Proc
    PROVE  /\ ProcOK(proc[p]) /\ Along(proc[p], proc[p])
           /\ proc[p].pc # "done" => proc[p].saved = 0
<1>1. ProcOK(proc[p])
  BY DEF ClientTyped
<1> QED BY <1>1 DEF ProcOK, Along

\* A command that is done keeps what the invariant says of its record.
LEMMA EndsWell ==
    ASSUME ClientTyped, NEW p \in Proc, proc[p].pc # "done", NEW y, Along(proc[p], y), y.pc \in {"done", "killed"}
    PROVE  ProcOK(y)
<1>1. ProcOK(proc[p]) /\ proc[p].saved = 0
  BY Unsaved
<1> QED BY <1>1 DEF ProcOK, Along, Pcs

LEMMA Moves ==
    ASSUME ClientTyped, Clocked, Informed, TemporaryFileIsRemoved, NEW p \in Proc, Active(p),
           NEW y, Ends(p, y) \/ Onto(p, y), ProcOK(y), ServersTyped', clock' = clock, file' = file \/ file' = <<>>
    PROVE  /\ ClientTyped' /\ Clocked' /\ Informed' /\ TemporaryFileIsRemoved'
           /\ \A q \in Proc \ {p} : proc'[q] = proc[q]
           /\ proc'[p] = y
<1>1. /\ proc' = [proc EXCEPT ![p] = y] /\ Along(proc[p], y)
      /\ (tmp' = tmp /\ y.pc # "done") \/ tmp' = tmp \ {p}
  BY DEF Ends, Onto
<1>2. (\A q \in Proc \ {p} : proc'[q] = proc[q]) /\ proc'[p] = y /\ proc' = [q \in Proc |-> proc'[q]]
  BY <1>1 DEF ClientTyped
<1>3. proc[p].saved = 0 /\ y.saved = 0 /\ clock \in Nat
  BY <1>1, Unsaved DEF Active, Along, ClientTyped
<1>4. ClientTyped'
  BY <1>1, <1>2 DEF ClientTyped, ServersTyped
<1>5. TemporaryFileIsRemoved'
  BY <1>1, <1>2 DEF TemporaryFileIsRemoved, ClientTyped
<1>6. Clocked'
  <2>1. \A q \in Proc : proc'[q].loaded = proc[q].loaded /\ proc'[q].saved = proc[q].saved
    BY <1>1, <1>2 DEF Along
  <2> QED BY <2>1 DEF Clocked
<1>7. ASSUME NEW config, NEW time \in Nat, Knows(config, time) PROVE Knows(config, time)'
  <2>1. proc' = [proc EXCEPT ![p] = y] /\ proc[p].saved = 0 /\ y.saved = 0 /\ y.saved \in Nat
    BY <1>1, <1>3
  <2> QED BY ONLY ClientTyped, <2>1, <1>7, Remembers
<1>8. Informed'
  <2>1. ASSUME file' # <<>> PROVE Knows(file[1], clock + 1)'
    <3>1. PICK config : config = file[1]
      OBVIOUS
    <3>2. file' = file /\ Knows(config, clock + 1)
      BY <2>1, <3>1 DEF Informed
    <3>3. PICK time \in Nat : time = clock + 1
      BY <1>3
    <3>4. Knows(config, time)
      BY <3>2, <3>3
    <3>5. Knows(config, time)'
      BY <1>7, <3>4
    <3>6. file'[1] = config /\ clock' + 1 = time
      BY <3>1, <3>2, <3>3
    <3> QED BY <3>5, <3>6 DEF Knows
  <2>2. ASSUME NEW q \in Proc, Active(q)' PROVE Knows(proc[q].config, proc[q].loaded)'
    <3>1. Active(q)
      BY <1>2, <2>2 DEF Active
    <3>2. PICK config : config = proc[q].config
      OBVIOUS
    <3>3. PICK time \in Nat : time = proc[q].loaded
      BY DEF ClientTyped, ProcOK
    <3>4. Knows(config, time)
      BY <3>1, <3>2, <3>3 DEF Informed
    <3>5. Knows(config, time)'
      BY <1>7, <3>4
    <3>6. proc'[q].config = config /\ proc'[q].loaded = time
      BY <1>1, <1>2, <3>2, <3>3 DEF Along
    <3> QED BY <3>5, <3>6 DEF Knows
  <2> QED BY <2>1, <2>2 DEF Informed
<1> QED BY <1>2, <1>4, <1>5, <1>6, <1>8

\* A step that only uses the network leaves the rest as it was.
LEMMA Settled ==
    ASSUME ClientInv, NEW p \in Proc, proc[p].pc \in {"auth", "send", "poll", "save"},
           NEW y, Ends(p, y) \/ Onto(p, y), ProcOK(y), ServersTyped', \A q \in Proc \ {p} : Same(q),
           file' = file, clock' = clock, proc'[p] = y => Honest(p)'
    PROVE  ClientInv'
<1>1. Active(p)
  BY DEF Active
<1>2. ClientTyped' /\ Clocked' /\ Informed' /\ TemporaryFileIsRemoved' /\ (\A q \in Proc \ {p} : proc'[q] = proc[q]) /\ proc'[p] = y
  BY <1>1, Moves DEF ClientInv
<1>3. UnreadableHasCause'
  BY <1>2 DEF ClientInv, UnreadableHasCause
<1>4. \A q \in Proc : Honest(q)'
  BY <1>2, SameIsHonest DEF ClientInv
<1> QED BY <1>2, <1>3, <1>4 DEF ClientInv

LEMMA Idle ==
    ASSUME UNCHANGED <<server, effects, halfway>>, ClientTyped
    PROVE  ServersTyped' /\ \A q \in Proc : Same(q)
BY DEF ServersTyped, Same, ClientTyped

\* The record of a command that does not know what its request did.
LEMMA Unsure ==
    ASSUME ClientTyped, NEW p \in Proc, NEW unsure \in BOOLEAN
    PROVE  Along(proc[p], [proc[p] EXCEPT !.unsure = unsure])
<1>r. PICK r : r = proc[p]
  OBVIOUS
<1>y. PICK y : y = [r EXCEPT !.unsure = unsure]
  OBVIOUS
<1>1. IsProc(r)
  BY <1>r, Unsaved DEF Along
<1>2. Along(r, y)
  BY <1>1, <1>y, FieldsOfUnsure DEF Along
<1> QED BY <1>2, <1>r, <1>y

LEMMA RefusedStep ==
    ASSUME ClientInv, NEW p \in Proc, proc[p].pc \in {"auth", "send", "poll"}, Refused(p, proc[p]), file' = file, clock' = clock
    PROVE  ClientInv'
<1>1. ClientTyped /\ Honest(p)
  BY DEF ClientInv
<1>2. proc[p].unsure \in BOOLEAN
  BY <1>1, Unsaved DEF ProcOK
<1>u. PICK unsure \in BOOLEAN : unsure = (proc[p].unsure \/ proc[p].pc = "poll")
  BY <1>2
<1>x. PICK x : x = [proc[p] EXCEPT !.unsure = unsure]
  OBVIOUS
<1>3. Along(proc[p], x) /\ x.unsure = unsure
  <2>1. Along(proc[p], x)
    BY <1>1, <1>x, Unsure
  <2> QED BY <2>1, <1>x, <1>1, Unsaved DEF Along, IsProc
<1>4. Exit(p, x, "request_error") /\ UNCHANGED <<server, effects, halfway>>
  BY <1>u, <1>x DEF Refused
<1>5. PICK y : Ends(p, y) /\ y.exit = "request_error" /\ y.unsure = unsure
  BY <1>3, <1>4, Exits
<1>6. ProcOK(y)
  BY <1>1, <1>5, EndsWell DEF Ends
<1>7. ASSUME proc'[p] = y PROVE Honest(p)'
  <2> SUFFICES ASSUME proc[p].cmd.op \in Changing, ~unsure PROVE p \notin effects' /\ \A h \in Host : ~Going(p, h)'
    BY <1>5, <1>7 DEF Honest, Ends, Along
  <2>1. Untouched(p)
    BY <1>1, <1>u DEF Honest
  <2> QED BY <1>4, <2>1 DEF Untouched, Going
<1> QED BY <1>1, <1>4, <1>5, <1>6, <1>7, Idle, Settled

LEMMA LostStep ==
    ASSUME ClientInv, NEW p \in Proc, proc[p].pc \in {"auth", "send", "poll"}, NEW request \in Requests,
           Lost(p, proc[p], request), file' = file, clock' = clock
    PROVE  ClientInv'
<1>1. ClientTyped /\ ServersTyped
  BY DEF ClientInv, ClientTyped, ServersTyped
<1>x. PICK x : x = [proc[p] EXCEPT !.unsure = TRUE]
  OBVIOUS
<1>3. Along(proc[p], x) /\ x.unsure = TRUE
  <2>1. Along(proc[p], x)
    BY <1>1, <1>x, Unsure
  <2> QED BY <2>1, <1>x, <1>1, Unsaved DEF Along, IsProc
<1>r. PICK r : r = proc[p]
  OBVIOUS
<1>h. PICK h \in Host : h = r.url.host
  BY <1>r DEF Lost
<1>a. PICK a : a = Serve(server[h], p, r, request)
  OBVIOUS
<1>4. Exit(p, x, "request_error") /\ Served(p, r, request, a)
  BY <1>x, <1>r, <1>h, <1>a DEF Lost
<1>5. PICK y : Ends(p, y) /\ y.exit = "request_error" /\ y.unsure = TRUE
  BY <1>3, <1>4, Exits
<1>6. ProcOK(y)
  BY <1>1, <1>5, EndsWell DEF Ends
<1>7. ASSUME proc'[p] = y PROVE Honest(p)'
  BY <1>5, <1>7 DEF Honest, Ends
<1>8. ServersTyped' /\ \A q \in Proc \ {p} : Same(q)
  BY <1>1, <1>4, <1>h, <1>a, ServedFairly
<1> QED BY <1>5, <1>6, <1>7, <1>8, Settled

\* What a request leaves that the server began and then failed.
LEMMA LeavesServer ==
    ASSUME NEW s, IsServer(s), NEW r, NEW request \in Changes, NEW t \in Leaves(s, r, request)
    PROVE  IsServer(t) /\ t.host = s.host /\ t.deployments = s.deployments
<1>1. ASSUME NEW v, NEW to, t = [s EXCEPT !.jobs[v] = to]
      PROVE  IsServer(t) /\ t.host = s.host /\ t.deployments = s.deployments
  <2>j. PICK jobs : jobs = [s.jobs EXCEPT ![v] = to]
    OBVIOUS
  <2>1. t = [host |-> s.host, generation |-> s.generation, maintenance |-> s.maintenance,
             auth_required |-> s.auth_required, jobs |-> jobs, plugin |-> s.plugin, deployments |-> s.deployments]
    BY <1>1, <2>j DEF IsServer
  <2> QED BY <2>1 DEF IsServer
<1>2. ASSUME NEW to, t = [s EXCEPT !.plugin = to]
      PROVE  IsServer(t) /\ t.host = s.host /\ t.deployments = s.deployments
  <2>1. t = [host |-> s.host, generation |-> s.generation, maintenance |-> s.maintenance,
             auth_required |-> s.auth_required, jobs |-> s.jobs, plugin |-> to, deployments |-> s.deployments]
    BY <1>2 DEF IsServer
  <2> QED BY <2>1 DEF IsServer
<1>3. (\E v, to : t = [s EXCEPT !.jobs[v] = to]) \/ (\E to : t = [s EXCEPT !.plugin = to])
  BY DEF Leaves, DeleteLeaves, MoveLeaves, JobLeft, Changes
<1> QED BY <1>1, <1>2, <1>3

LEMMA HalfwayStep ==
    ASSUME ClientInv, NEW p \in Proc, proc[p].pc = "send", NEW request,
           FailsHalfway(p, proc[p], request), file' = file, clock' = clock
    PROVE  ClientInv'
<1>1. ClientTyped /\ ServersTyped /\ Honest(p) /\ Along(proc[p], proc[p])
  BY Unsaved DEF ClientInv, ClientTyped, ServersTyped
<1>r. PICK r : r = proc[p]
  OBVIOUS
<1>h. PICK h \in Host : h = r.url.host
  BY <1>r DEF FailsHalfway
<1>s. PICK s : s = server[h]
  OBVIOUS
<1>2. /\ request \in Changes /\ effects' = effects /\ halfway' = halfway \cup {p}
      /\ Exit(p, proc[p], "response_error")
  BY DEF FailsHalfway
<1>3. PICK t \in Leaves(s, r, request) : server' = [server EXCEPT ![h] = t]
  BY <1>r, <1>h, <1>s DEF FailsHalfway
<1>4. IsServer(t) /\ t.host = h /\ t.deployments = s.deployments
  <2>1. IsServer(s) /\ s.host = h
    BY <1>1, <1>s DEF ServersTyped
  <2> QED BY <1>2, <2>1, LeavesServer
<1>5. server'[h] = t /\ (\A g \in Host \ {h} : server'[g] = server[g]) /\ server' = [g \in Host |-> server'[g]]
  BY <1>1, <1>3 DEF ServersTyped
<1>6. ServersTyped' /\ (\A q \in Proc \ {p} : Same(q)) /\ \A g \in Host : server'[g].deployments = server[g].deployments
  <2>1. ServersTyped'
    BY <1>1, <1>4, <1>5 DEF ServersTyped
  <2>2. \A g \in Host : server'[g].deployments = server[g].deployments
    BY <1>4, <1>5, <1>s
  <2>3. \A q \in Proc \ {p} : (q \in effects' <=> q \in effects) /\ (q \in halfway' <=> q \in halfway)
    BY <1>2
  <2> QED BY <2>1, <2>2, <2>3 DEF Same
<1>7. PICK y : Ends(p, y) /\ y.exit = "response_error"
  BY <1>1, <1>2, Exits
<1>8. ProcOK(y)
  BY <1>1, <1>7, EndsWell DEF Ends
<1>9. ASSUME proc'[p] = y PROVE Honest(p)'
  <2> SUFFICES ASSUME proc[p].cmd.op \in Changing PROVE p \notin effects' /\ \A g \in Host : ~Going(p, g)'
    BY <1>7, <1>9 DEF Honest, Ends, Along
  <2>1. Untouched(p)
    BY <1>1 DEF Honest
  <2> QED BY <1>2, <1>6, <2>1 DEF Untouched, Going
<1> QED BY <1>6, <1>7, <1>8, <1>9, Settled

LEMMA ExpireStep ==
    ASSUME ClientInv, NEW p \in Proc, Expire(p)
    PROVE  ClientInv'
<1>1. ClientTyped
  BY DEF ClientInv
<1>x. PICK x : x = [proc[p] EXCEPT !.unsure = TRUE]
  OBVIOUS
<1>3. Along(proc[p], x) /\ x.unsure = TRUE
  <2>1. Along(proc[p], x)
    BY <1>1, <1>x, Unsure
  <2> QED BY <2>1, <1>x, <1>1, Unsaved DEF Along, IsProc
<1>4. Exit(p, x, "deployment_error") /\ UNCHANGED <<server, effects, halfway, file, clock>> /\ proc[p].pc = "poll"
  BY <1>x DEF Expire
<1>5. PICK y : Ends(p, y) /\ y.exit = "deployment_error" /\ y.unsure = TRUE
  BY <1>3, <1>4, Exits
<1>6. ProcOK(y)
  BY <1>1, <1>4, <1>5, EndsWell DEF Ends
<1>7. ASSUME proc'[p] = y PROVE Honest(p)'
  BY <1>5, <1>7 DEF Honest, Ends
<1> QED BY <1>1, <1>4, <1>5, <1>6, <1>7, Idle, Settled

LEMMA AuthStep ==
    ASSUME ClientInv, NEW p \in Proc, Auth(p)
    PROVE  ClientInv'
<1>1. ClientTyped /\ ServersTyped /\ Honest(p) /\ ProcOK(proc[p]) /\ Along(proc[p], proc[p])
  BY Unsaved DEF ClientInv, ClientTyped, ServersTyped
<1>2. proc[p].pc = "auth" /\ file' = file /\ clock' = clock
  BY DEF Auth
<1>3. CASE Refused(p, proc[p])
  BY <1>2, <1>3, RefusedStep
<1>4. CASE Lost(p, proc[p], "GET_info")
  BY <1>2, <1>4, LostStep DEF Requests
<1>5. CASE /\ GotAnswer(p, proc[p], "GET_info")
           /\ Exit(p, proc[p], "auth_error") \/ Goto(p, proc[p], "send")
  <2>q. PICK request \in Requests : request = "GET_info"
    BY DEF Requests
  <2>r. PICK r : r = proc[p]
    OBVIOUS
  <2>h. PICK h \in Host : h = r.url.host
    BY <1>5, <2>r DEF GotAnswer
  <2>a. PICK a : a = Serve(server[h], p, r, request)
    OBVIOUS
  <2>1. Served(p, r, request, a)
    BY <1>5, <2>q, <2>r, <2>h, <2>a DEF GotAnswer
  <2>2. /\ ServersTyped' /\ \A q \in Proc \ {p} : Same(q)
        /\ server'[h] = a.state /\ \A g \in Host \ {h} : server'[g] = server[g]
        /\ a.state.deployments = server[h].deployments
        /\ effects' = effects /\ halfway' = halfway
    <3>1. request \notin {"POST_deploy", "POST_build"} /\ request \notin Changes
      BY <2>q DEF Changes
    <3>2. ServersTyped' /\ (\A q \in Proc \ {p} : Same(q)) /\ Effect(p, r, request, h, a)
      BY <1>1, <2>h, <2>a, <2>1, ServedFairly
    <3> QED BY <3>1, <3>2 DEF Effect
  <2>3. Untouched(p) => Untouched(p)'
    BY <2>2 DEF Untouched
  <2>4. proc[p].cmd.op \in Changing => Untouched(p)'
    BY <1>1, <1>2, <2>3 DEF Honest
  <2>5. \E y : (Ends(p, y) /\ y.exit = "auth_error") \/ (Onto(p, y) /\ y.pc = "send" /\ y.step = proc[p].step)
    <3>1. CASE Exit(p, proc[p], "auth_error")
      BY <1>1, <3>1, Exits
    <3>s. PICK pc : pc = "send"
      OBVIOUS
    <3>2. CASE Goto(p, proc[p], "send")
      BY <1>1, <3>s, <3>2, GoesOn
    <3> QED BY <1>5, <3>1, <3>2
  <2>6. PICK y : (Ends(p, y) /\ y.exit = "auth_error") \/ (Onto(p, y) /\ y.pc = "send" /\ y.step = proc[p].step)
    BY <2>5
  <2>7. ProcOK(y)
    BY <1>1, <1>2, <2>6 DEF ProcOK, Ends, Onto, Along, Pcs
  <2>8. ASSUME proc'[p] = y PROVE Honest(p)'
    BY <1>1, <2>4, <2>6, <2>8 DEF Honest, Ends, Onto, Along, Untouched, Going
  <2> QED BY <1>2, <2>2, <2>6, <2>7, <2>8, Settled
<1> QED BY <1>3, <1>4, <1>5 DEF Auth

-----------------------------------------------------------------------------
(* The requests of a command                                               *)
LEMMA KnownRequests ==
    ASSUME NEW op \in Ops \ Local
    PROVE  /\ Len(RequestsOf(op)) \in Nat /\ Len(RequestsOf(op)) >= 1 /\ \A n \in 1..Len(RequestsOf(op)) : RequestsOf(op)[n] \in Requests
           /\ op \in Changing \cup Logins \cup {"run-local"} => Len(RequestsOf(op)) = 1
           /\ op = "deploy" => RequestsOf(op)[1] = "POST_deploy"
           /\ op \in Changing \ {"deploy"} => RequestsOf(op)[1] \in Changes
           /\ op = "login" => RequestsOf(op)[1] = "GET_validate_user_auth"
<1>1. op \in {"list", "delete", "move", "logs", "build-logs", "deploy", "run-local", "plugin_install", "plugin_uninstall",
              "plugin_list", "get_pub", "call", "login", "login_username"}
  BY DEF Ops, Settings, Changing, Local
<1>2. CASE op = "list"
  <2>1. RequestsOf(op) = <<"GET_job">>
    BY <1>2 DEF RequestsOf, ListJobs
  <2> QED BY <1>2, <2>1 DEF Requests, Changing, Logins
<1>3. CASE op = "delete"
  <2>1. RequestsOf(op) = <<"DELETE_job">>
    BY <1>3 DEF RequestsOf, DeleteJob
  <2> QED BY <1>3, <2>1 DEF Requests, Changing, Logins, Changes
<1>4. CASE op = "move"
  <2>1. RequestsOf(op) = <<"POST_move">>
    BY <1>4 DEF RequestsOf, MoveJob
  <2> QED BY <1>4, <2>1 DEF Requests, Changing, Logins, Changes
<1>5. CASE op = "logs"
  <2>1. RequestsOf(op) = <<"GET_job/version", "GET_logs">>
    BY <1>5 DEF RequestsOf, ShowRuntimeLogs
  <2> QED BY <1>5, <2>1 DEF Requests, Changing, Logins
<1>6. CASE op = "build-logs"
  <2>1. RequestsOf(op) = <<"GET_logs">>
    BY <1>6 DEF RequestsOf, ShowBuildLogs
  <2> QED BY <1>6, <2>1 DEF Requests, Changing, Logins
<1>7. CASE op = "deploy"
  <2>1. RequestsOf(op) = <<"POST_deploy">>
    BY <1>7 DEF RequestsOf, SendDeployRequest
  <2> QED BY <1>7, <2>1 DEF Requests
<1>8. CASE op = "run-local"
  <2>1. RequestsOf(op) = <<"POST_build">>
    BY <1>8 DEF RequestsOf, RunJobLocally
  <2> QED BY <1>8, <2>1 DEF Requests, Changing
<1>9. CASE op = "plugin_install"
  <2>1. RequestsOf(op) = <<"POST_upload">>
    BY <1>9 DEF RequestsOf, PluginRequests, InstallPlugin
  <2> QED BY <1>9, <2>1 DEF Requests, Changes
<1>10. CASE op = "plugin_uninstall"
  <2>1. RequestsOf(op) = <<"DELETE_plugin">>
    BY <1>10 DEF RequestsOf, PluginRequests, UninstallPlugin
  <2> QED BY <1>10, <2>1 DEF Requests, Changes
<1>11. CASE op = "plugin_list"
  <2>1. RequestsOf(op) = <<"GET_plugin">>
    BY <1>11 DEF RequestsOf, PluginRequests, ListInstalledPlugins
  <2> QED BY <1>11, <2>1 DEF Requests, Changing, Logins
<1>12. CASE op = "get_pub"
  <2>1. RequestsOf(op) = <<"GET_info">>
    BY <1>12 DEF RequestsOf, PluginRequests, GetCurrentPubAddress
  <2> QED BY <1>12, <2>1 DEF Requests, Changing, Logins
<1>13. CASE op = "call"
  <2>1. RequestsOf(op) = <<"GET_job/version", "POST_call">>
    BY <1>13 DEF RequestsOf, PluginRequests, CallJob
  <2> QED BY <1>13, <2>1 DEF Requests, Changing, Logins
<1>14. CASE op = "login"
  <2>1. RequestsOf(op) = <<"GET_validate_user_auth">>
    BY <1>14 DEF RequestsOf, PluginRequests, LoginUserAuth
  <2> QED BY <1>14, <2>1 DEF Requests, Changing
<1>15. CASE op = "login_username"
  <2>1. RequestsOf(op) = <<"POST_login">>
    BY <1>15 DEF RequestsOf, PluginRequests, LoginWithUsername
  <2> QED BY <1>15, <2>1 DEF Requests, Changing
<1> QED BY <1>1, <1>2, <1>3, <1>4, <1>5, <1>6, <1>7, <1>8, <1>9, <1>10, <1>11, <1>12, <1>13, <1>14, <1>15

\* Where an answer leads.
LEMMA AnswerLeads ==
    ASSUME NEW p \in Proc, NEW r, r = proc[p], Along(r, r), NEW a, AfterAnswer(p, r, a)
    PROVE  \/ \E y : Ends(p, y) /\ y.exit # "ok" /\ a.status # 200
           \/ \E y : /\ a.status = 200 /\ r.step < Len(RequestsOf(r.cmd.op))
                     /\ Onto(p, y) /\ y.pc = "send" /\ y.step = r.step + 1
           \/ \E y : /\ a.status = 200 /\ ~(r.step < Len(RequestsOf(r.cmd.op)))
                     /\ r.cmd.op \in {"deploy", "run-local"} /\ Onto(p, y) /\ y.pc = "poll"
           \/ \E y : /\ a.status = 200 /\ r.cmd.op \in Settings /\ Onto(p, y) /\ y.pc = "save"
                     /\ y.token = IF r.cmd.op = "login_username" THEN <<r.url.host, a.state.generation>> ELSE r.token
           \/ \E y : a.status = 200 /\ r.cmd.op \notin Settings \cup {"deploy", "run-local"} /\ Ends(p, y) /\ y.exit = "ok"
<1>t. PICK token : token = IF r.cmd.op = "login_username" THEN <<r.url.host, a.state.generation>> ELSE r.token
  OBVIOUS
<1>v. PICK version : version = IF a.version = 0 THEN r.version ELSE a.version
  OBVIOUS
<1>k. PICK ok : ok = [r EXCEPT !.step = @ + 1, !.version = version, !.token = token]
  OBVIOUS
<1>1. Along(r, ok) /\ ok.step = r.step + 1 /\ ok.token = token
  <2>1. ok = [pc |-> r.pc, cmd |-> r.cmd, config |-> r.config, url |-> r.url, token |-> token, version |-> version,
              step |-> r.step + 1, exit |-> r.exit, unsure |-> r.unsure, loaded |-> r.loaded, saved |-> r.saved]
    BY <1>k DEF Along, IsProc
  <2>2. IsProc(ok)
    BY <2>1 DEF IsProc
  <2> QED BY <2>1, <2>2 DEF Along
<1>2. Along(proc[p], ok) /\ Along(proc[p], r)
  BY <1>1
<1>3. \/ a.status # 200 /\ (Exit(p, r, "auth_error") \/ Exit(p, r, "response_error"))
      \/ a.status = 200 /\ r.step < Len(RequestsOf(r.cmd.op)) /\ Goto(p, ok, "send")
      \/ /\ a.status = 200 /\ ~(r.step < Len(RequestsOf(r.cmd.op)))
         /\ r.cmd.op \in {"deploy", "run-local"} /\ Goto(p, ok, "poll")
      \/ a.status = 200 /\ r.cmd.op \in Settings /\ Goto(p, ok, "save")
      \/ a.status = 200 /\ r.cmd.op \notin Settings \cup {"deploy", "run-local"} /\ Exit(p, ok, "ok")
  BY <1>t, <1>v, <1>k DEF AfterAnswer
<1>4. CASE a.status # 200 /\ (Exit(p, r, "auth_error") \/ Exit(p, r, "response_error"))
  <2>1. PICK result : result \in {"auth_error", "response_error"} /\ Exit(p, r, result)
    BY <1>4
  <2>2. PICK y : Ends(p, y) /\ y.exit = result
    BY <1>2, <2>1, Exits
  <2> QED BY <1>4, <2>1, <2>2
<1>5. ASSUME NEW pc, pc # "done", Goto(p, ok, pc)
      PROVE  \E y : Onto(p, y) /\ y.pc = pc /\ y.step = r.step + 1 /\ y.token = token
  <2>1. PICK y : Onto(p, y) /\ y.pc = pc /\ y.unsure = ok.unsure /\ y.step = ok.step /\ y.token = ok.token
    BY <1>2, <1>5, GoesOn
  <2> QED BY <1>1, <2>1
<1>6. CASE a.status = 200 /\ r.step < Len(RequestsOf(r.cmd.op)) /\ Goto(p, ok, "send")
  <2>1. PICK y : Onto(p, y) /\ y.pc = "send" /\ y.step = r.step + 1
    <3>1. PICK pc : pc = "send"
      OBVIOUS
    <3> QED BY <1>5, <1>6, <3>1
  <2> QED BY <1>6, <2>1
<1>7. CASE /\ a.status = 200 /\ ~(r.step < Len(RequestsOf(r.cmd.op)))
           /\ r.cmd.op \in {"deploy", "run-local"} /\ Goto(p, ok, "poll")
  <2>1. PICK y : Onto(p, y) /\ y.pc = "poll"
    <3>1. PICK pc : pc = "poll"
      OBVIOUS
    <3> QED BY <1>5, <1>7, <3>1
  <2> QED BY <1>7, <2>1
<1>8. CASE a.status = 200 /\ r.cmd.op \in Settings /\ Goto(p, ok, "save")
  <2>1. PICK y : Onto(p, y) /\ y.pc = "save" /\ y.token = token
    <3>1. PICK pc : pc = "save"
      OBVIOUS
    <3> QED BY <1>5, <1>8, <3>1
  <2> QED BY <1>8, <1>t, <2>1
<1>9. CASE a.status = 200 /\ r.cmd.op \notin Settings \cup {"deploy", "run-local"} /\ Exit(p, ok, "ok")
  <2>1. PICK result : result = "ok"
    OBVIOUS
  <2>2. PICK y : Ends(p, y) /\ y.exit = result
    BY <1>2, <1>9, <2>1, Exits
  <2> QED BY <1>9, <2>1, <2>2
<1> QED BY <1>3, <1>4, <1>6, <1>7, <1>8, <1>9

LEMMA SendStep ==
    ASSUME ClientInv, NEW p \in Proc, Send(p)
    PROVE  ClientInv'
<1>1. ClientTyped /\ ServersTyped /\ Honest(p) /\ ProcOK(proc[p]) /\ Along(proc[p], proc[p])
  BY Unsaved DEF ClientInv, ClientTyped, ServersTyped
<1>2. proc[p].pc = "send" /\ file' = file /\ clock' = clock
  BY DEF Send
<1>r. PICK r : r = proc[p]
  OBVIOUS
<1>o. PICK op : op = r.cmd.op
  OBVIOUS
<1>3. op \in Ops \ Local /\ r.step \in 1..Len(RequestsOf(op)) /\ r.cmd \in Command
  BY <1>1, <1>2, <1>r, <1>o, ClientAssumption DEF ProcOK, CommandOK
<1>q. PICK request : request = RequestsOf(op)[r.step]
  OBVIOUS
<1>4. /\ request \in Requests
      /\ op \in Changing \cup Logins \cup {"run-local"} => Len(RequestsOf(op)) = 1 /\ r.step = 1
      /\ op = "deploy" => request = "POST_deploy"
      /\ op \in Changing \ {"deploy"} => request \in Changes
      /\ op = "login" => request = "GET_validate_user_auth"
  BY <1>3, <1>q, KnownRequests DEF Changing, Logins
<1>5. CASE Refused(p, proc[p])
  BY <1>2, <1>5, RefusedStep
<1>6. CASE Lost(p, proc[p], request)
  BY <1>2, <1>4, <1>6, LostStep
<1>7. CASE GotAnswer(p, r, request) /\ AfterAnswer(p, r, Serve(server[r.url.host], p, r, request))
  <2>h. PICK h \in Host : h = r.url.host
    BY <1>7 DEF GotAnswer
  <2>a. PICK a : a = Serve(server[h], p, r, request)
    OBVIOUS
  <2>1. Served(p, r, request, a) /\ AfterAnswer(p, r, a)
    BY <1>7, <2>h, <2>a DEF GotAnswer
  <2>2. ServersTyped' /\ (\A q \in Proc \ {p} : Same(q)) /\ Effect(p, r, request, h, a)
    BY <1>1, <1>4, <2>h, <2>a, <2>1, ServedFairly
  <2>3. op \in Changing => Untouched(p)
    BY <1>1, <1>2, <1>r, <1>o DEF Honest
  <2>4. ASSUME NEW y, Ends(p, y) \/ Onto(p, y), ProcOK(y), proc'[p] = y => Honest(p)'
        PROVE  ClientInv'
    BY <1>2, <2>2, <2>4, Settled
  <2>5. ASSUME NEW y, Along(proc[p], y), op \notin Changing, proc'[p] = y PROVE Honest(p)'
    BY <1>r, <1>o, <2>5 DEF Honest, Along
  <2>6. ASSUME NEW y, Ends(p, y), y.exit # "ok", a.status # 200 PROVE ClientInv'
    <3>1. ProcOK(y)
      BY <1>1, <1>2, <2>6, EndsWell DEF Ends
    <3>2. ASSUME proc'[p] = y PROVE Honest(p)'
      <4>1. server' = server /\ effects' = effects
        BY <2>2, <2>6 DEF Effect
      <4>2. op \in Changing => p \notin effects' /\ \A g \in Host : ~Going(p, g)'
        BY <2>3, <4>1 DEF Untouched, Going
      <4> QED BY <1>r, <1>o, <2>6, <3>2, <4>2 DEF Honest, Ends, Along
    <3> QED BY <2>4, <2>6, <3>1, <3>2
  <2>7. ASSUME NEW y, r.step < Len(RequestsOf(op)), Onto(p, y), y.pc = "send", y.step = r.step + 1 PROVE ClientInv'
    <3>1. op \notin Changing
      <4> SUFFICES ASSUME op \in Changing PROVE FALSE
        OBVIOUS
      <4>1. Len(RequestsOf(op)) = 1 /\ r.step = 1
        BY <1>4
      <4> QED BY <2>7, <4>1
    <3>l. PICK len \in Nat : len = Len(RequestsOf(op))
      BY <1>3, KnownRequests
    <3>2. y.step \in 1..Len(RequestsOf(op))
      BY <1>3, <2>7, <3>l
    <3>3. y.cmd.op = op
      BY <1>r, <1>o, <2>7 DEF Onto, Along
    <3>4. ProcOK(y)
      BY <1>1, <1>2, <1>3, <1>r, <1>o, <2>7, <3>2, <3>3 DEF ProcOK, Onto, Along, Pcs
    <3> QED BY <2>4, <2>5, <2>7, <3>1, <3>4 DEF Onto
  <2>8. ASSUME NEW y, a.status = 200, op \in {"deploy", "run-local"}, Onto(p, y), y.pc = "poll" PROVE ClientInv'
    <3>1. ProcOK(y)
      BY <1>1, <1>2, <1>r, <1>o, <2>8 DEF ProcOK, Onto, Along, Pcs
    <3>2. ASSUME proc'[p] = y, op \in Changing PROVE Honest(p)'
      <4>1. op = "deploy" /\ request = "POST_deploy" /\ Untouched(p)
        BY <1>4, <2>3, <2>8, <3>2 DEF Changing
      <4>2. Accepted(a, p, FALSE) /\ server'[h] = a.state /\ effects' = effects /\ halfway' = halfway /\ \A g \in Host \ {h} : server'[g] = server[g]
        BY <2>2, <4>1 DEF Effect, Changes
      <4>3. p \in DOMAIN server'[h].deployments /\ server'[h].deployments[p].status = "in_progress" /\ p \notin effects'
            /\ p \notin halfway'
        BY <2>8, <4>1, <4>2 DEF Accepted, Untouched
      <4>4. \A g \in Host \ {h} : p \notin DOMAIN server'[g].deployments
        BY <4>1, <4>2 DEF Untouched
      <4>5. y.url.host = h
        BY <1>r, <2>h, <2>8 DEF Onto, Along
      <4> QED BY <2>8, <3>2, <4>3, <4>4, <4>5 DEF Honest
    <3> QED BY <2>4, <2>5, <2>8, <3>1, <3>2 DEF Onto
  <2>9. ASSUME NEW y, a.status = 200, op \in Settings, Onto(p, y), y.pc = "save",
               y.token = IF op = "login_username" THEN <<h, a.state.generation>> ELSE r.token
        PROVE  ClientInv'
    <3>1. op \in Logins /\ op \notin Changing
      BY <1>3, <2>9 DEF Settings, Local, Logins, Changing
    <3>2. \E n \in Nat \ {0} : y.token = <<h, n>>
      <4>1. CASE op = "login_username"
        <5>1. a.state.generation \in Nat \ {0}
          BY <2>2 DEF Effect, Fair, IsServer
        <5> QED BY <2>9, <4>1, <5>1
      <4>2. CASE op = "login"
        <5>1. server[h].host = h /\ server[h].generation \in Nat \ {0}
          BY <1>1 DEF ServersTyped, IsServer
        <5>2. Authenticated(server[h], r.token)
          BY <1>4, <2>2, <2>9, <4>2 DEF Effect, Validated
        <5> QED BY <2>9, <4>2, <5>1, <5>2 DEF Authenticated
      <4> QED BY <3>1, <4>1, <4>2 DEF Logins
    <3>3. y.token[1] = h /\ y.token # NoToken
      BY <3>2 DEF NoToken
    <3>4. ProcOK(y)
      BY <1>1, <1>2, <1>r, <1>o, <2>h, <2>9, <3>3 DEF ProcOK, Onto, Along, Pcs
    <3> QED BY <2>4, <2>5, <2>9, <3>1, <3>4 DEF Onto
  <2>10. ASSUME NEW y, a.status = 200, op \notin Settings \cup {"deploy", "run-local"}, Ends(p, y), y.exit = "ok"
         PROVE  ClientInv'
    <3>1. ProcOK(y)
      BY <1>1, <1>2, <2>10, EndsWell DEF Ends
    <3>2. ASSUME proc'[p] = y, op \in Changing PROVE Honest(p)'
      <4>1. p \in effects' /\ p \notin halfway'
        BY <1>4, <2>2, <2>3, <2>10, <3>2 DEF Effect, Untouched
      <4>2. \A g \in Host : ~Going(p, g)'
        <5>1. request \notin {"POST_deploy", "POST_build"}
          BY <1>4, <2>10, <3>2 DEF Changes, Changing
        <5>2. a.state.deployments = server[h].deployments /\ server'[h] = a.state /\ \A g \in Host \ {h} : server'[g] = server[g]
          BY <2>2, <5>1 DEF Effect
        <5> QED BY <2>3, <3>2, <5>2 DEF Going, Untouched
      <4> QED BY <2>10, <3>2, <4>1, <4>2 DEF Honest, Ends
    <3> QED BY <2>4, <2>5, <2>10, <3>1, <3>2 DEF Ends
  <2> QED BY <1>1, <1>r, <1>o, <2>h, <2>1, <2>6, <2>7, <2>8, <2>9, <2>10, AnswerLeads
<1>8. CASE FailsHalfway(p, proc[p], request)
  BY <1>2, <1>8, HalfwayStep
<1> QED BY <1>r, <1>o, <1>q, <1>5, <1>6, <1>7, <1>8 DEF Send

LEMMA PollStep ==
    ASSUME ClientInv, NEW p \in Proc, WaitForDeploymentResult(p)
    PROVE  ClientInv'
<1>1. ClientTyped /\ ServersTyped /\ Honest(p) /\ ProcOK(proc[p]) /\ Along(proc[p], proc[p])
  BY Unsaved DEF ClientInv, ClientTyped, ServersTyped
<1>2. proc[p].pc = "poll" /\ file' = file /\ clock' = clock
  BY DEF WaitForDeploymentResult
<1>r. PICK r : r = proc[p]
  OBVIOUS
<1>q. PICK request \in Requests : request = "GET_deploy"
  BY DEF Requests
<1>3. CASE Refused(p, proc[p])
  BY <1>2, <1>3, RefusedStep
<1>4. CASE Lost(p, proc[p], request)
  BY <1>2, <1>4, LostStep
<1>5. CASE /\ GotAnswer(p, r, request)
           /\ AfterPoll(p, r, Serve(server[r.url.host], p, r, request), server[r.url.host].deployments[p].status)
  <2>h. PICK h \in Host : h = r.url.host
    BY <1>5 DEF GotAnswer
  <2>a. PICK a : a = Serve(server[h], p, r, request)
    OBVIOUS
  <2>s. PICK status : status = server[h].deployments[p].status
    OBVIOUS
  <2>1. Served(p, r, request, a) /\ AfterPoll(p, r, a, status)
    BY <1>5, <2>h, <2>a, <2>s DEF GotAnswer
  <2>2. ServersTyped' /\ (\A q \in Proc \ {p} : Same(q)) /\ Effect(p, r, request, h, a)
    BY <1>1, <2>h, <2>a, <2>1, ServedFairly
  <2>3. /\ server'[h].deployments = server[h].deployments /\ \A g \in Host \ {h} : server'[g] = server[g]
        /\ effects' = effects /\ halfway' = halfway
    BY <1>q, <2>2 DEF Effect, Changes
  <2>4. ASSUME NEW y, Ends(p, y) \/ Onto(p, y), ProcOK(y), proc'[p] = y => Honest(p)'
        PROVE  ClientInv'
    BY <1>2, <2>2, <2>4, Settled
  <2>5. r.cmd.op \in Changing =>
              /\ p \in DOMAIN server'[h].deployments
              /\ \A g \in Host \ {h} : p \notin DOMAIN server'[g].deployments
              /\ p \in effects' <=> server'[h].deployments[p].status = "done"
              /\ p \in halfway' => server'[h].deployments[p].status = "failed"
              /\ server'[h].deployments[p].status = status
    BY <1>1, <1>2, <1>r, <2>h, <2>s, <2>3 DEF Honest
  <2>6. ASSUME NEW y, Ends(p, y), y.exit # "ok", y.unsure \/ status = "failed" PROVE ClientInv'
    <3>1. ProcOK(y)
      BY <1>1, <1>2, <2>6, EndsWell DEF Ends
    <3>2. ASSUME proc'[p] = y PROVE Honest(p)'
      <4>1. r.cmd.op \in Changing /\ status = "failed" => p \notin effects' /\ \A g \in Host : ~Going(p, g)'
        BY <2>5 DEF Going
      <4> QED BY <1>r, <2>6, <3>2, <4>1 DEF Honest, Ends, Along
    <3> QED BY <2>4, <2>6, <3>1, <3>2
  <2>7. ASSUME NEW y, Ends(p, y), y.exit = "ok", status = "done" PROVE ClientInv'
    <3>1. ProcOK(y)
      BY <1>1, <1>2, <2>7, EndsWell DEF Ends
    <3>2. ASSUME proc'[p] = y PROVE Honest(p)'
      <4>1. r.cmd.op \in Changing => p \in effects' /\ p \notin halfway' /\ \A g \in Host : ~Going(p, g)'
        BY <2>5, <2>7 DEF Going
      <4> QED BY <1>r, <2>7, <3>2, <4>1 DEF Honest, Ends, Along
    <3> QED BY <2>4, <2>7, <3>1, <3>2
  <2>8. ASSUME NEW y, Onto(p, y), y.pc = "poll" PROVE ClientInv'
    <3>1. ProcOK(y)
      BY <1>1, <1>2, <2>8 DEF ProcOK, Onto, Along
    <3>2. ASSUME proc'[p] = y PROVE Honest(p)'
      <4>1. y.url.host = h /\ y.cmd.op = r.cmd.op
        BY <1>r, <2>h, <2>8 DEF Onto, Along
      <4> QED BY <2>5, <2>8, <3>2, <4>1 DEF Honest
    <3> QED BY <2>4, <2>8, <3>1, <3>2
  <2>9. CASE a.status # 200
    <3>x. PICK x : x = [proc[p] EXCEPT !.unsure = TRUE]
      OBVIOUS
    <3>1. Along(proc[p], x) /\ x.unsure = TRUE
      <4>1. Along(proc[p], x)
        BY <1>1, <3>x, Unsure
      <4> QED BY <3>x, <4>1, <1>1 DEF Along, IsProc
    <3>2. Exit(p, x, "deployment_error")
      BY <1>r, <2>1, <2>9, <3>x DEF AfterPoll
    <3>3. PICK y : Ends(p, y) /\ y.exit = "deployment_error" /\ y.unsure = TRUE
      BY <3>1, <3>2, Exits
    <3> QED BY <2>6, <3>3
  <2>10. CASE a.status = 200 /\ status = "failed"
    <3>1. Exit(p, r, "deployment_error") /\ Along(proc[p], r)
      BY <1>1, <1>r, <2>1, <2>10 DEF AfterPoll
    <3>2. PICK y : Ends(p, y) /\ y.exit = "deployment_error"
      BY <3>1, Exits
    <3> QED BY <2>6, <2>10, <3>2
  <2>11. CASE a.status = 200 /\ status = "done"
    <3>0. PICK result : result = "ok"
      OBVIOUS
    <3>1. Exit(p, r, result) /\ Along(proc[p], r)
      BY <1>1, <1>r, <2>1, <2>11, <3>0 DEF AfterPoll
    <3>2. PICK y : Ends(p, y) /\ y.exit = result
      BY <3>1, Exits
    <3> QED BY <2>7, <2>11, <3>0, <3>2
  <2>12. CASE a.status = 200 /\ status \notin {"failed", "done"}
    <3>0. PICK pc : pc = "poll"
      OBVIOUS
    <3>1. Goto(p, r, pc) /\ Along(proc[p], r) /\ pc # "done"
      BY <1>1, <1>r, <2>1, <2>12, <3>0 DEF AfterPoll
    <3>2. PICK y : Onto(p, y) /\ y.pc = pc
      BY <3>1, GoesOn
    <3> QED BY <2>8, <3>0, <3>2
  <2> QED BY <2>9, <2>10, <2>11, <2>12
<1> QED BY <1>r, <1>q, <1>3, <1>4, <1>5 DEF WaitForDeploymentResult

LEMMA TruncateStep ==
    ASSUME ClientInv, NEW p \in Proc, Truncate(p)
    PROVE  ClientInv'
<1>1. ClientTyped /\ ServersTyped /\ ProcOK(proc[p]) /\ Along(proc[p], proc[p])
  BY Unsaved DEF ClientInv, ClientTyped, ServersTyped
<1>2. proc[p].pc = "save" /\ file' = <<>> /\ clock' = clock /\ UNCHANGED <<server, effects, halfway>>
  BY DEF Truncate
<1>3. PICK y : Onto(p, y) /\ y.pc = "write" /\ y.token = proc[p].token
  <2>1. PICK pc : pc = "write"
    OBVIOUS
  <2>2. Goto(p, proc[p], pc) /\ pc # "done"
    BY <2>1 DEF Truncate
  <2> QED BY <1>1, <2>1, <2>2, GoesOn
<1>4. ProcOK(y)
  BY <1>1, <1>2, <1>3 DEF ProcOK, Onto, Along, Pcs
<1>5. Active(p) /\ ServersTyped' /\ \A q \in Proc : Same(q)
  BY <1>1, <1>2, Idle DEF Active
<1>6. ClientTyped' /\ Clocked' /\ Informed' /\ TemporaryFileIsRemoved' /\ (\A q \in Proc \ {p} : proc'[q] = proc[q]) /\ proc'[p] = y
  BY <1>2, <1>3, <1>4, <1>5, Moves DEF ClientInv
<1>7. UnreadableHasCause'
  BY <1>3, <1>6 DEF UnreadableHasCause
<1>8. Honest(p)'
  <2>1. y.cmd.op \notin Changing
    BY <1>1, <1>2, <1>3 DEF ProcOK, Onto, Along, Settings, Changing
  <2> QED BY <1>6, <2>1 DEF Honest
<1>9. \A q \in Proc : Honest(q)'
  BY <1>5, <1>6, <1>8, SameIsHonest DEF ClientInv
<1> QED BY <1>6, <1>7, <1>9 DEF ClientInv

LEMMA KillStep ==
    ASSUME ClientInv, NEW p \in Proc, Kill(p)
    PROVE  ClientInv'
<1>1. ClientTyped /\ ServersTyped /\ ProcOK(proc[p]) /\ Along(proc[p], proc[p])
  BY Unsaved DEF ClientInv, ClientTyped, ServersTyped
<1>2. proc[p].pc \notin {"idle", "done", "killed"} /\ UNCHANGED <<file, clock, tmp, server, effects, halfway>>
  BY DEF Kill
<1>y. PICK y : y = [proc[p] EXCEPT !.pc = "killed", !.exit = proc[p].pc]
  OBVIOUS
<1>3. Onto(p, y) /\ y.pc = "killed" /\ y.exit = proc[p].pc
  <2>r. PICK r : r = proc[p]
    OBVIOUS
  <2>1. y = [pc |-> "killed", cmd |-> r.cmd, config |-> r.config, url |-> r.url, token |-> r.token, version |-> r.version,
             step |-> r.step, exit |-> r.pc, unsure |-> r.unsure, loaded |-> r.loaded, saved |-> r.saved]
    BY <1>1, <1>y, <2>r DEF Along, IsProc
  <2>2. IsProc(y)
    BY <2>1 DEF IsProc
  <2>3. proc' = [proc EXCEPT ![p] = y]
    BY <1>y DEF Kill
  <2> QED BY <1>1, <1>2, <2>r, <2>1, <2>2, <2>3 DEF Onto, Along
<1>4. ProcOK(y)
  BY <1>1, <1>2, <1>3, EndsWell DEF Onto
<1>5. Active(p) /\ ServersTyped' /\ \A q \in Proc : Same(q)
  BY <1>1, <1>2, Idle DEF Active
<1>6. ClientTyped' /\ Clocked' /\ Informed' /\ TemporaryFileIsRemoved' /\ (\A q \in Proc \ {p} : proc'[q] = proc[q]) /\ proc'[p] = y
  BY <1>2, <1>3, <1>4, <1>5, Moves DEF ClientInv
<1>7. UnreadableHasCause'
  BY <1>2, <1>3, <1>6 DEF UnreadableHasCause, ClientInv
<1>8. Honest(p)'
  BY <1>3, <1>6 DEF Honest
<1>9. \A q \in Proc : Honest(q)'
  BY <1>5, <1>6, <1>8, SameIsHonest DEF ClientInv
<1> QED BY <1>6, <1>7, <1>9 DEF ClientInv

-----------------------------------------------------------------------------
(* The configuration                                                       *)
LEMMA ResolvedIsFull ==
    ASSUME NEW c, ConfigOK(c), NEW name \in Remote
    PROVE  ResolveLifecycleUrl(c, name) \in Full
<1>1. ResolveShort(c, name) \in Remote
  BY DEF ResolveShort, ConfigOK
<1>2. PICK short \in Remote : short = ResolveShort(c, name)
  BY <1>1
<1>3. Infer(short) \in Full
  BY DEF Infer, Url, Remote, Full, Absent
<1> QED BY <1>2, <1>3 DEF ResolveLifecycleUrl

LEMMA FullIsFixed ==
    ASSUME NEW c, ConfigOK(c), NEW url \in Full
    PROVE  ResolveLifecycleUrl(c, url) = url
<1>1. url.scheme # Absent /\ url.path # Absent /\ url # Unnamed /\ url = Url(url.scheme, url.host, url.path)
  BY DEF Full, Absent, Unnamed, Url
<1>2. url \notin DOMAIN c.lifecycle_url_aliases
  BY <1>1 DEF ConfigOK
<1>3. ResolveShort(c, url) = url
  BY <1>1, <1>2 DEF ResolveShort
<1> QED BY <1>1, <1>3 DEF ResolveLifecycleUrl, Infer

\* A command that is about to save.
Saves(r) ==
    /\ ConfigOK(r.config) /\ r.url \in Full /\ r.cmd \in Command /\ r.cmd.op \in Settings
    /\ r.cmd.op \in Logins => r.token[1] = r.url.host /\ r.token # NoToken

\* What it saves, field by field.
Becomes(r, c) ==
    /\ c = [lifecycle_url |-> c.lifecycle_url, git_credentials |-> c.git_credentials,
            lifecycle_url_aliases |-> c.lifecycle_url_aliases, user_auths |-> c.user_auths]
    /\ c.git_credentials = IF r.cmd.op = "set_credentials" THEN With(r.config.git_credentials, r.cmd.arg, "password")
                           ELSE r.config.git_credentials
    /\ c.lifecycle_url = IF r.cmd.op = "set_remote" THEN r.cmd.arg ELSE r.config.lifecycle_url
    /\ c.lifecycle_url_aliases = IF r.cmd.op = "set_alias"
                                 THEN With(r.config.lifecycle_url_aliases, r.cmd.remote, r.cmd.arg)
                                 ELSE r.config.lifecycle_url_aliases
    /\ c.user_auths = IF r.cmd.op = "logout" THEN Without(r.config.user_auths, r.url)
                      ELSE IF r.cmd.op \in Logins THEN With(r.config.user_auths, r.url, r.token)
                      ELSE r.config.user_auths

LEMMA ChangedFields ==
    ASSUME NEW r, Saves(r), NEW c, c = Changed(r)
    PROVE  Becomes(r, c)
<1> DEFINE old == r.config
<1> SUFFICES /\ c.git_credentials = IF r.cmd.op = "set_credentials" THEN With(old.git_credentials, r.cmd.arg, "password")
                                    ELSE old.git_credentials
             /\ c.lifecycle_url = IF r.cmd.op = "set_remote" THEN r.cmd.arg ELSE old.lifecycle_url
             /\ c.lifecycle_url_aliases = IF r.cmd.op = "set_alias"
                                          THEN With(old.lifecycle_url_aliases, r.cmd.remote, r.cmd.arg)
                                          ELSE old.lifecycle_url_aliases
             /\ c.user_auths = IF r.cmd.op = "logout" THEN Without(old.user_auths, r.url)
                               ELSE IF r.cmd.op \in Logins THEN With(old.user_auths, r.url, r.token)
                               ELSE old.user_auths
             /\ c = [lifecycle_url |-> c.lifecycle_url, git_credentials |-> c.git_credentials,
                     lifecycle_url_aliases |-> c.lifecycle_url_aliases, user_auths |-> c.user_auths]
  BY DEF Becomes
<1>1. old = [lifecycle_url |-> old.lifecycle_url, git_credentials |-> old.git_credentials,
             lifecycle_url_aliases |-> old.lifecycle_url_aliases, user_auths |-> old.user_auths]
  BY DEF Saves, ConfigOK
<1>2. ResolveLifecycleUrl(old, r.url) = r.url
  <2>1. PICK config : config = r.config
    OBVIOUS
  <2>2. PICK url \in Full : url = r.url
    BY DEF Saves
  <2> QED BY <2>1, <2>2, FullIsFixed DEF Saves
<1>3. CASE r.cmd.op = "set_credentials"
  <2>1. c = [lifecycle_url |-> old.lifecycle_url, git_credentials |-> With(old.git_credentials, r.cmd.arg, "password"),
             lifecycle_url_aliases |-> old.lifecycle_url_aliases, user_auths |-> old.user_auths]
    BY <1>1, <1>3 DEF Changed, SetCredentials
  <2> QED BY <1>3, <2>1 DEF Logins
<1>4. CASE r.cmd.op = "set_remote"
  <2>1. c = [lifecycle_url |-> r.cmd.arg, git_credentials |-> old.git_credentials,
             lifecycle_url_aliases |-> old.lifecycle_url_aliases, user_auths |-> old.user_auths]
    BY <1>1, <1>4 DEF Changed, SetCurrentRemote
  <2> QED BY <1>4, <2>1 DEF Logins
<1>5. CASE r.cmd.op = "set_alias"
  <2>1. c = [lifecycle_url |-> old.lifecycle_url, git_credentials |-> old.git_credentials,
             lifecycle_url_aliases |-> With(old.lifecycle_url_aliases, r.cmd.remote, r.cmd.arg),
             user_auths |-> old.user_auths]
    BY <1>1, <1>5 DEF Changed, SetUrlAlias
  <2> QED BY <1>5, <2>1 DEF Logins
<1>6. CASE r.cmd.op = "logout"
  <2>1. c = [lifecycle_url |-> old.lifecycle_url, git_credentials |-> old.git_credentials,
             lifecycle_url_aliases |-> old.lifecycle_url_aliases, user_auths |-> Without(old.user_auths, r.url)]
    BY <1>1, <1>2, <1>6 DEF Changed, SetUserAuth
  <2> QED BY <1>6, <2>1 DEF Logins
<1>7. CASE r.cmd.op \in Logins
  <2>1. c = SetUserAuth(old, r.url, r.token) /\ r.token # NoToken
    BY <1>7 DEF Changed, Logins, Saves
  <2>2. c = [lifecycle_url |-> old.lifecycle_url, git_credentials |-> old.git_credentials,
             lifecycle_url_aliases |-> old.lifecycle_url_aliases, user_auths |-> With(old.user_auths, r.url, r.token)]
    BY <1>1, <1>2, <2>1 DEF SetUserAuth
  <2> QED BY <1>7, <2>2 DEF Logins
<1> QED BY <1>3, <1>4, <1>5, <1>6, <1>7 DEF Saves, Settings, Logins

LEMMA ChangedIsOK ==
    ASSUME NEW r, Saves(r), NEW c, c = Changed(r)
    PROVE  ConfigOK(c)
<1>b. Becomes(r, c) /\ ConfigOK(r.config) /\ CommandOK(r.cmd)
  BY ChangedFields, ClientAssumption DEF Saves
<1>1. c = [lifecycle_url |-> c.lifecycle_url, git_credentials |-> c.git_credentials,
           lifecycle_url_aliases |-> c.lifecycle_url_aliases, user_auths |-> c.user_auths]
  BY <1>b DEF Becomes
<1>2. c.lifecycle_url \in Remote
  BY <1>b DEF Becomes, ConfigOK, CommandOK
<1>3. \A name \in DOMAIN c.lifecycle_url_aliases : name.scheme = Absent /\ c.lifecycle_url_aliases[name] \in Remote
  <2>f. PICK f : f = r.config.lifecycle_url_aliases
    OBVIOUS
  <2>1. \A name \in DOMAIN f : name.scheme = Absent /\ f[name] \in Remote
    BY <1>b, <2>f DEF ConfigOK
  <2>2. CASE r.cmd.op = "set_alias"
    <3>1. PICK name : name = r.cmd.remote
      OBVIOUS
    <3>2. PICK url \in Remote : url = r.cmd.arg
      BY <1>b, <2>2 DEF CommandOK
    <3>3. name.scheme = Absent
      BY <1>b, <2>2, <3>1 DEF CommandOK
    <3>4. c.lifecycle_url_aliases = With(f, name, url)
      BY <1>b, <2>f, <2>2, <3>1, <3>2 DEF Becomes
    <3> QED BY <2>1, <3>3, <3>4 DEF With, Without
  <2>3. CASE r.cmd.op # "set_alias"
    BY <1>b, <2>f, <2>1, <2>3 DEF Becomes
  <2> QED BY <2>2, <2>3
<1>4. \A url \in DOMAIN c.user_auths : c.user_auths[url][1] = url.host
  <2>f. PICK f : f = r.config.user_auths
    OBVIOUS
  <2>x. PICK x : x = r.url
    OBVIOUS
  <2>v. PICK v : v = r.token
    OBVIOUS
  <2>1. \A url \in DOMAIN f : f[url][1] = url.host
    BY <1>b, <2>f DEF ConfigOK
  <2>2. CASE r.cmd.op = "logout"
    <3>1. c.user_auths = Without(f, x)
      BY <1>b, <2>f, <2>x, <2>2 DEF Becomes
    <3> QED BY <2>1, <3>1 DEF With, Without
  <2>3. CASE r.cmd.op \in Logins
    <3>1. c.user_auths = With(f, x, v) /\ v[1] = x.host
      BY <1>b, <2>f, <2>x, <2>v, <2>3 DEF Becomes, Saves, Logins
    <3> QED BY <2>1, <3>1 DEF With, Without
  <2>4. CASE r.cmd.op \notin Logins \cup {"logout"}
    BY <1>b, <2>f, <2>1, <2>4 DEF Becomes
  <2> QED BY <2>2, <2>3, <2>4
<1> QED BY <1>1, <1>2, <1>3, <1>4 DEF ConfigOK

\* What is saved has the option that was set, and keeps the options with other keys.
LEMMA ChangedIsKept ==
    ASSUME NEW r, Saves(r), NEW c, c = Changed(r), NEW y, y.cmd = r.cmd, y.url = r.url, y.token = r.token
    PROVE  Kept(c, y)
<1>b. Becomes(r, c)
  BY ChangedFields
<1>1. CASE r.cmd.op = "set_credentials"
  <2>1. PICK f : f = r.config.git_credentials
    OBVIOUS
  <2>2. PICK x : x = r.cmd.arg
    OBVIOUS
  <2>3. c.git_credentials = With(f, x, "password")
    BY <1>b, <1>1, <2>1, <2>2 DEF Becomes
  <2> QED BY <1>1, <2>2, <2>3 DEF Kept, With
<1>2. CASE r.cmd.op = "set_remote"
  BY <1>2, <1>b DEF Kept, Becomes
<1>3. CASE r.cmd.op = "set_alias"
  <2>1. PICK f : f = r.config.lifecycle_url_aliases
    OBVIOUS
  <2>2. PICK x : x = r.cmd.remote
    OBVIOUS
  <2>3. PICK v : v = r.cmd.arg
    OBVIOUS
  <2>4. c.lifecycle_url_aliases = With(f, x, v)
    BY <1>b, <1>3, <2>1, <2>2, <2>3 DEF Becomes
  <2>5. x \in DOMAIN c.lifecycle_url_aliases /\ c.lifecycle_url_aliases[x] = v
    BY <2>4 DEF With, Without
  <2> QED BY <1>3, <2>2, <2>3, <2>5 DEF Kept
<1>4. CASE r.cmd.op \in Logins \cup {"logout"}
  <2>1. PICK f : f = r.config.user_auths
    OBVIOUS
  <2>2. PICK x : x = r.url
    OBVIOUS
  <2>3. PICK v : v = r.token
    OBVIOUS
  <2>4. CASE r.cmd.op = "logout"
    <3>1. c.user_auths = Without(f, x)
      BY <1>b, <2>1, <2>2, <2>4 DEF Becomes
    <3>2. x \notin DOMAIN c.user_auths
      BY <3>1 DEF With, Without
    <3> QED BY <2>2, <2>4, <3>2 DEF Kept
  <2>5. CASE r.cmd.op \in Logins
    <3>1. c.user_auths = With(f, x, v)
      BY <1>b, <2>1, <2>2, <2>3, <2>5 DEF Becomes, Logins
    <3>2. x \in DOMAIN c.user_auths /\ c.user_auths[x] = v
      BY <3>1 DEF With, Without
    <3> QED BY <2>2, <2>3, <2>5, <3>2 DEF Kept, Logins
  <2> QED BY <1>4, <2>4, <2>5
<1> QED BY <1>1, <1>2, <1>3, <1>4 DEF Saves, Settings, Logins

LEMMA OthersAreKept ==
    ASSUME NEW r, Saves(r), NEW c, c = Changed(r), NEW q, q.cmd.op \in Settings, Kept(r.config, q), Key(q) # Key(r)
    PROVE  Kept(c, q)
<1>b. Becomes(r, c)
  BY ChangedFields
<1>1. CASE q.cmd.op = "set_credentials"
  <2>f. PICK f : f = r.config.git_credentials
    OBVIOUS
  <2>x. PICK x : x = r.cmd.arg
    OBVIOUS
  <2>1. c.git_credentials = f \/ c.git_credentials = With(f, x, "password")
    BY <1>b, <2>f, <2>x DEF Becomes
  <2>2. q.cmd.arg \in DOMAIN f
    BY <1>1, <2>f DEF Kept
  <2>3. q.cmd.arg \in DOMAIN c.git_credentials
    BY <2>1, <2>2 DEF With
  <2> QED BY <1>1, <2>3 DEF Kept
<1>2. CASE q.cmd.op = "set_remote"
  <2>1. r.cmd.op # "set_remote"
    BY <1>2 DEF Key
  <2> QED BY <1>2, <2>1, <1>b DEF Kept, Becomes
<1>3. CASE q.cmd.op = "set_alias"
  <2>f. PICK f : f = r.config.lifecycle_url_aliases
    OBVIOUS
  <2>x. PICK x : x = r.cmd.remote
    OBVIOUS
  <2>v. PICK v : v = r.cmd.arg
    OBVIOUS
  <2>y. PICK y : y = q.cmd.remote
    OBVIOUS
  <2>1. c.lifecycle_url_aliases = f \/ (c.lifecycle_url_aliases = With(f, x, v) /\ x # y)
    <3>1. r.cmd.op = "set_alias" => x # y
      BY <1>3, <2>x, <2>y DEF Key
    <3> QED BY <1>b, <2>f, <2>x, <2>v, <3>1 DEF Becomes
  <2>2. y \in DOMAIN f /\ f[y] = q.cmd.arg
    BY <1>3, <2>f, <2>y DEF Kept
  <2>3. y \in DOMAIN c.lifecycle_url_aliases /\ c.lifecycle_url_aliases[y] = q.cmd.arg
    BY <2>1, <2>2 DEF With, Without
  <2> QED BY <1>3, <2>y, <2>3 DEF Kept
<1>4. CASE q.cmd.op \in Logins \cup {"logout"}
  <2>f. PICK f : f = r.config.user_auths
    OBVIOUS
  <2>x. PICK x : x = r.url
    OBVIOUS
  <2>v. PICK v : v = r.token
    OBVIOUS
  <2>y. PICK y : y = q.url
    OBVIOUS
  <2>1. c.user_auths = f \/ (x # y /\ (c.user_auths = With(f, x, v) \/ c.user_auths = Without(f, x)))
    <3>1. r.cmd.op \in Logins \cup {"logout"} => x # y
      BY <1>4, <2>x, <2>y DEF Key, Logins
    <3> QED BY <1>b, <2>f, <2>x, <2>v, <3>1 DEF Becomes, Logins
  <2>2. CASE q.cmd.op = "logout"
    <3>1. y \notin DOMAIN f
      BY <2>2, <2>f, <2>y DEF Kept
    <3>2. y \notin DOMAIN c.user_auths
      BY <2>1, <3>1 DEF With, Without
    <3> QED BY <2>2, <2>y, <3>2 DEF Kept
  <2>3. CASE q.cmd.op \in Logins
    <3>1. y \in DOMAIN f /\ f[y] = q.token
      BY <2>3, <2>f, <2>y DEF Kept, Logins
    <3>2. y \in DOMAIN c.user_auths /\ c.user_auths[y] = q.token
      BY <2>1, <3>1 DEF With, Without
    <3> QED BY <2>3, <2>y, <3>2 DEF Kept, Logins
  <2> QED BY <1>4, <2>2, <2>3
<1> QED BY <1>1, <1>2, <1>3, <1>4 DEF Settings, Logins

-----------------------------------------------------------------------------
(* Loading and saving                                                      *)
LEMMA Later ==
    ASSUME Clocked, ClientTyped, NEW config, Knows(config, clock + 1)
    PROVE  Knows(config, clock + 2)
<1>1. \A p \in Proc : proc[p].saved \in Nat /\ proc[p].saved <= clock /\ clock \in Nat
  BY DEF Clocked, ClientTyped, ProcOK
<1>2. \A p \in Proc : proc[p].saved < clock + 1
  BY <1>1
<1> QED BY <1>2 DEF Knows

LEMMA LoadMoves ==
    ASSUME ClientInv, NEW p \in Proc, proc[p].pc = "idle",
           NEW y, proc' = [proc EXCEPT ![p] = y], ProcOK(y), y.cmd = proc[p].cmd, y.saved = 0, y.loaded \in {0, clock + 1},
           UNCHANGED <<file, server, effects, halfway>>, clock' = clock + 1, tmp' \subseteq tmp \cup {p},
           \/ y.pc = "done" /\ y.exit # "ok" /\ tmp' = tmp \ {p}
           \/ y.pc \in {"auth", "send", "save"} /\ file # <<>> /\ y.config = file[1] /\ y.loaded = clock + 1
    PROVE  ClientInv'
<1>1. ClientTyped /\ Clocked /\ Informed /\ ServersTyped /\ Honest(p) /\ ProcOK(proc[p]) /\ proc[p].saved = 0 /\ clock \in Nat
  BY Unsaved DEF ClientInv, ClientTyped, ServersTyped
<1>2. (\A q \in Proc \ {p} : proc'[q] = proc[q]) /\ proc'[p] = y /\ proc' = [q \in Proc |-> proc'[q]]
  BY <1>1 DEF ClientTyped
<1>3. ServersTyped' /\ \A q \in Proc : Same(q)
  BY <1>1, Idle
<1>4. ClientTyped'
  <2>1. \A q \in Proc : ProcOK(proc'[q])
    BY <1>1, <1>2 DEF ClientTyped
  <2> QED BY <1>1, <1>2, <1>3, <2>1 DEF ClientTyped, ServersTyped
<1>5. TemporaryFileIsRemoved'
  BY <1>1, <1>2 DEF ClientInv, TemporaryFileIsRemoved, ClientTyped
<1>6. \A q \in Proc : /\ proc[q].saved \in Nat /\ proc[q].loaded \in Nat /\ proc[q].saved <= clock /\ proc[q].loaded <= clock
                      /\ proc'[q].saved = proc[q].saved /\ (proc'[q].loaded = proc[q].loaded \/ proc'[q].loaded \in {0, clock + 1})
  <2>1. \A q \in Proc : proc[q].saved \in Nat /\ proc[q].loaded \in Nat /\ proc[q].saved <= clock /\ proc[q].loaded <= clock
    BY <1>1 DEF Clocked, ClientTyped, ProcOK
  <2>2. \A q \in Proc : proc'[q].saved = proc[q].saved /\ (proc'[q].loaded = proc[q].loaded \/ proc'[q].loaded \in {0, clock + 1})
    BY <1>1, <1>2
  <2> QED BY <2>1, <2>2
<1>7. Clocked'
  <2> SUFFICES ASSUME NEW q \in Proc
               PROVE  /\ proc'[q].loaded <= clock + 1 /\ proc'[q].saved <= clock + 1
                      /\ proc'[q].saved > 0 => \A s \in Proc : /\ proc'[q].saved # proc'[s].loaded
                                                               /\ s # q => proc'[q].saved # proc'[s].saved
    BY DEF Clocked
  <2>1. proc'[q].loaded <= clock + 1 /\ proc'[q].saved <= clock + 1
    BY <1>1, <1>6
  <2>2. ASSUME proc'[q].saved > 0, NEW s \in Proc
        PROVE  proc'[q].saved # proc'[s].loaded /\ (s # q => proc'[q].saved # proc'[s].saved)
    <3>1. proc[q].saved > 0 /\ proc[q].saved # proc[s].loaded /\ (s # q => proc[q].saved # proc[s].saved)
      BY <1>1, <1>6, <2>2 DEF Clocked
    <3>2. proc[q].saved # 0 /\ proc[q].saved # clock + 1
      BY <1>1, <1>6, <3>1
    <3> QED BY <1>6, <3>1, <3>2
  <2> QED BY <2>1, <2>2
<1>8. ASSUME NEW config, NEW time \in Nat, Knows(config, time) PROVE Knows(config, time)'
  <2>1. y.saved \in Nat
    OBVIOUS
  <2> QED BY ONLY <1>1, <2>1, <1>8, proc' = [proc EXCEPT ![p] = y], y.saved = 0, p \in Proc, Remembers
<1>9. Informed'
  <2>1. ASSUME file # <<>> PROVE Knows(file[1], clock + 1)' /\ Knows(file[1], clock + 1)
    <3>1. PICK config : config = file[1]
      OBVIOUS
    <3>2. PICK time \in Nat : time = clock + 1
      BY <1>1
    <3>3. Knows(config, time)
      BY <1>1, <2>1, <3>1, <3>2 DEF Informed
    <3>4. PICK beyond \in Nat : beyond = clock + 2
      BY <1>1
    <3>5. Knows(config, beyond)
      <4>1. Knows(config, clock + 1)
        BY <3>2, <3>3
      <4> QED BY <1>1, <3>4, <4>1, Later
    <3>6. Knows(config, beyond)'
      BY <1>8, <3>5
    <3>7. file'[1] = config /\ clock' + 1 = beyond
      BY <1>1, <3>1, <3>4
    <3> QED BY <3>1, <3>2, <3>3, <3>6, <3>7 DEF Knows
  <2>2. ASSUME NEW q \in Proc, Active(q)' PROVE Knows(proc[q].config, proc[q].loaded)'
    <3>1. PICK config : config = proc'[q].config
      OBVIOUS
    <3>2. PICK time \in Nat : time = proc'[q].loaded
      BY <1>4 DEF ClientTyped, ProcOK
    <3>3. Knows(config, time)
      <4>1. CASE q # p
        <5>1. Active(q)
          BY <1>2, <2>2, <4>1 DEF Active
        <5> QED BY <1>1, <1>2, <3>1, <3>2, <4>1, <5>1 DEF Informed
      <4>2. CASE q = p
        <5>1. file # <<>> /\ y.config = file[1] /\ y.loaded = clock + 1
          BY <1>2, <2>2, <4>2 DEF Active
        <5> QED BY <1>2, <2>1, <3>1, <3>2, <4>2, <5>1
      <4> QED BY <4>1, <4>2
    <3>4. Knows(config, time)'
      BY <1>8, <3>3
    <3> QED BY <3>1, <3>2, <3>4 DEF Knows
  <2>3. file' # <<>> => Knows(file[1], clock + 1)'
    BY <2>1
  <2> QED BY <2>2, <2>3 DEF Informed
<1>10. UnreadableHasCause'
  BY <1>2 DEF ClientInv, UnreadableHasCause
<1>11. Honest(p)'
  <2>1. proc[p].cmd.op \in Changing => Untouched(p)
    BY <1>1 DEF Honest
  <2>2. proc[p].cmd.op \in Changing => Untouched(p)' /\ \A h \in Host : ~Going(p, h)'
    BY <2>1 DEF Untouched, Going
  <2> QED BY <1>2, <2>2 DEF Honest, Untouched
<1>12. \A q \in Proc : Honest(q)'
  BY <1>2, <1>3, <1>11, SameIsHonest DEF ClientInv
<1> QED BY <1>4, <1>5, <1>7, <1>9, <1>10, <1>12 DEF ClientInv

LEMMA LoadStep ==
    ASSUME ClientInv, NEW p \in Proc, Load(p)
    PROVE  ClientInv'
<1>1. ClientTyped /\ ProcOK(proc[p]) /\ proc[p].saved = 0 /\ clock \in Nat /\ proc[p].pc = "idle"
  BY Unsaved DEF ClientInv, ClientTyped, Load
<1>2. clock' = clock + 1 /\ UNCHANGED <<file, server, effects, halfway>>
  BY DEF Load
<1>r. PICK r : r = proc[p]
  OBVIOUS
<1>3. IsProc(r) /\ r.pc = "idle" /\ r.cmd \in Command /\ r.loaded = 0 /\ r.saved = 0 /\ r.step = 1 /\ r.unsure \in BOOLEAN
      /\ CommandOK(r.cmd)
  BY <1>1, <1>r, ClientAssumption DEF ProcOK
<1>4. ASSUME NEW y, IsProc(y), proc' = [proc EXCEPT ![p] = y], y.cmd = r.cmd, y.saved = 0, y.step = 1, y.unsure \in BOOLEAN,
             y.loaded \in {0, clock + 1}, y.pc = "done", y.exit # "ok", tmp' = tmp \ {p}
      PROVE  ClientInv'
  <2>1. ProcOK(y)
    BY <1>1, <1>3, <1>4 DEF ProcOK, Pcs
  <2>2. tmp' \subseteq tmp \cup {p}
    BY <1>4
  <2> QED BY <1>1, <1>2, <1>r, <1>4, <2>1, <2>2, LoadMoves
<1>c. PICK config : config = file[1]
  OBVIOUS
<1>u. PICK url : url = ResolveLifecycleUrl(config, r.cmd.remote)
  OBVIOUS
<1>t. PICK token : token = IF r.cmd.op = "login" THEN r.cmd.arg
                           ELSE IF url \in DOMAIN config.user_auths THEN config.user_auths[url] ELSE NoToken
  OBVIOUS
<1>l. PICK now : now = clock + 1
  OBVIOUS
<1>d. PICK read : read = [r EXCEPT !.config = config, !.url = url, !.version = r.cmd.version, !.loaded = now, !.token = token]
  OBVIOUS
<1>5. \/ Exit(p, r, "config_error")
      \/ Exit(p, read, "invalid_manifest") \/ Exit(p, read, "not_logged_in")
      \/ /\ file # <<>> /\ NextOfLoad(read) # Absent
         /\ proc' = [proc EXCEPT ![p] = [read EXCEPT !.pc = NextOfLoad(read)]]
         /\ tmp' = Piped(p, r)
  BY <1>r, <1>c, <1>u, <1>t, <1>l, <1>d DEF Load
<1>6. /\ IsProc(read) /\ read.cmd = r.cmd /\ read.saved = 0 /\ read.step = 1 /\ read.unsure \in BOOLEAN /\ read.loaded = now
      /\ read.config = config /\ read.url = url
  <2>1. read = [pc |-> r.pc, cmd |-> r.cmd, config |-> config, url |-> url, token |-> token, version |-> r.cmd.version,
                step |-> r.step, exit |-> r.exit, unsure |-> r.unsure, loaded |-> now, saved |-> r.saved]
    BY <1>3, <1>d DEF IsProc
  <2>2. IsProc(read)
    BY <2>1 DEF IsProc
  <2> QED BY <1>3, <2>1, <2>2
<1>7. ASSUME NEW x, IsProc(x), x.cmd = r.cmd, x.saved = 0, x.step = 1, x.unsure \in BOOLEAN, x.loaded \in {0, clock + 1},
             NEW result, result # "ok", Exit(p, x, result)
      PROVE  ClientInv'
  <2>y. PICK y : y = [x EXCEPT !.pc = "done", !.exit = result]
    OBVIOUS
  <2>1. y = [pc |-> "done", cmd |-> x.cmd, config |-> x.config, url |-> x.url, token |-> x.token, version |-> x.version,
             step |-> x.step, exit |-> result, unsure |-> x.unsure, loaded |-> x.loaded, saved |-> x.saved]
    BY <1>7, <2>y DEF IsProc
  <2>2. IsProc(y)
    BY <2>1 DEF IsProc
  <2>3. proc' = [proc EXCEPT ![p] = y] /\ tmp' = tmp \ {p}
    BY <1>7, <2>y DEF Exit
  <2> QED BY <1>4, <1>7, <2>1, <2>2, <2>3
<1>8. CASE Exit(p, r, "config_error")
  BY <1>3, <1>7, <1>8
<1>9. CASE Exit(p, read, "invalid_manifest") \/ Exit(p, read, "not_logged_in")
  <2>1. PICK result : result \in {"invalid_manifest", "not_logged_in"} /\ Exit(p, read, result)
    BY <1>9
  <2>2. result # "ok"
    BY <2>1
  <2> QED BY <1>6, <1>7, <1>l, <2>1, <2>2
<1>10. CASE /\ file # <<>> /\ NextOfLoad(read) # Absent
            /\ proc' = [proc EXCEPT ![p] = [read EXCEPT !.pc = NextOfLoad(read)]]
            /\ tmp' = Piped(p, r)
  <2>n. PICK next : next = NextOfLoad(read)
    OBVIOUS
  <2>y. PICK y : y = [read EXCEPT !.pc = next]
    OBVIOUS
  <2>o. PICK op : op = r.cmd.op
    OBVIOUS
  <2>1. y = [pc |-> next, cmd |-> read.cmd, config |-> read.config, url |-> read.url, token |-> read.token, version |-> read.version,
             step |-> read.step, exit |-> read.exit, unsure |-> read.unsure, loaded |-> read.loaded, saved |-> read.saved]
    BY <1>6, <2>y DEF IsProc
  <2>2. IsProc(y)
    BY <2>1 DEF IsProc
  <2>3. proc' = [proc EXCEPT ![p] = y] /\ tmp' \subseteq tmp \cup {p}
    BY <1>10, <2>n, <2>y DEF Piped
  <2>4. /\ next \in {"auth", "send", "save"} /\ (next = "save" <=> op \in Local) /\ op \in Ops
    BY <1>3, <1>6, <1>10, <2>n, <2>o DEF NextOfLoad, Local, CommandOK
  <2>5. ConfigOK(config) /\ url \in Full
    <3>1. ConfigOK(config)
      BY <1>1, <1>c, <1>10 DEF ClientTyped
    <3>2. PICK name \in Remote : name = r.cmd.remote
      BY <1>3 DEF CommandOK
    <3> QED BY <1>u, <3>1, <3>2, ResolvedIsFull
  <2>6. op \notin Local => 1 \in 1..Len(RequestsOf(op))
    BY <2>4, KnownRequests
  <2>7. /\ y.pc = next /\ y.cmd = r.cmd /\ y.cmd.op = op /\ y.config = config /\ y.url = url /\ y.step = 1 /\ y.unsure \in BOOLEAN
        /\ y.loaded = now /\ y.saved = 0
    BY <1>6, <2>o, <2>1
  <2>8. ProcOK(y)
    BY <1>1, <1>3, <1>l, <2>2, <2>4, <2>5, <2>6, <2>7 DEF ProcOK, Pcs, Local, Logins, Settings
  <2> QED BY <1>1, <1>2, <1>r, <1>c, <1>l, <1>10, <2>3, <2>4, <2>7, <2>8, LoadMoves
<1> QED BY <1>5, <1>8, <1>9, <1>10

LEMMA WriteStep ==
    ASSUME ClientInv, NEW p \in Proc, Write(p)
    PROVE  ClientInv'
<1>1. /\ ClientTyped /\ Clocked /\ Informed /\ ServersTyped /\ ProcOK(proc[p]) /\ proc[p].saved = 0 /\ clock \in Nat
      /\ proc[p].pc = "write"
  BY Unsaved DEF ClientInv, ClientTyped, ServersTyped, Write
<1>2. clock' = clock + 1 /\ UNCHANGED <<server, effects, halfway>>
  BY DEF Write
<1>r. PICK r : r = proc[p]
  OBVIOUS
<1>c. PICK c : c = Changed(r)
  OBVIOUS
<1>l. PICK now \in Nat : now = clock + 1
  BY <1>1
<1>y. PICK y : y = [[r EXCEPT !.saved = now] EXCEPT !.pc = "done", !.exit = "ok"]
  OBVIOUS
<1>3. file' = <<c>> /\ proc' = [proc EXCEPT ![p] = y] /\ tmp' = tmp \ {p}
  BY <1>r, <1>c, <1>l, <1>y DEF Write, Exit
<1>4. /\ IsProc(y) /\ y.pc = "done" /\ y.exit = "ok" /\ y.cmd = r.cmd /\ y.config = r.config /\ y.url = r.url /\ y.token = r.token
      /\ y.unsure = r.unsure /\ y.loaded = r.loaded /\ y.saved = now
  <2>1. IsProc(r)
    BY <1>1, <1>r DEF ProcOK
  <2>2. y = [pc |-> "done", cmd |-> r.cmd, config |-> r.config, url |-> r.url, token |-> r.token, version |-> r.version,
             step |-> r.step, exit |-> "ok", unsure |-> r.unsure, loaded |-> r.loaded, saved |-> now]
    BY <1>y, <2>1 DEF IsProc
  <2>3. IsProc(y)
    BY <2>2 DEF IsProc
  <2> QED BY <2>2, <2>3
<1>5. Saves(r)
  BY <1>1, <1>r DEF ProcOK, Saves
<1>6. ConfigOK(c)
  BY <1>5, <1>c, ChangedIsOK
<1>7. ProcOK(y)
  BY <1>1, <1>r, <1>4 DEF ProcOK, Pcs
<1>8. (\A q \in Proc \ {p} : proc'[q] = proc[q]) /\ proc'[p] = y /\ proc' = [q \in Proc |-> proc'[q]]
  BY <1>1, <1>3 DEF ClientTyped
<1>9. ServersTyped' /\ \A q \in Proc : Same(q)
  BY <1>1, <1>2, Idle
<1>10. ClientTyped'
  <2>1. file'[1] = c
    BY <1>3
  <2> QED BY <1>1, <1>2, <1>3, <1>6, <1>7, <1>8, <1>9, <2>1 DEF ClientTyped, ServersTyped
<1>11. TemporaryFileIsRemoved' /\ UnreadableHasCause'
  BY <1>1, <1>3, <1>8 DEF ClientInv, TemporaryFileIsRemoved, UnreadableHasCause, ClientTyped
<1>12. \A q \in Proc : /\ proc[q].saved \in Nat /\ proc[q].loaded \in Nat /\ proc[q].saved <= clock /\ proc[q].loaded <= clock
                       /\ proc'[q].loaded = proc[q].loaded
  BY <1>1, <1>r, <1>4, <1>8 DEF Clocked, ClientTyped, ProcOK
<1>13. Clocked'
  <2>1. \A q \in Proc : proc'[q].saved = IF q = p THEN clock + 1 ELSE proc[q].saved
    BY <1>4, <1>8, <1>l
  <2> SUFFICES ASSUME NEW q \in Proc
               PROVE  /\ proc'[q].loaded <= clock + 1 /\ proc'[q].saved <= clock + 1
                      /\ proc'[q].saved > 0 => \A s \in Proc : /\ proc'[q].saved # proc'[s].loaded
                                                               /\ s # q => proc'[q].saved # proc'[s].saved
    BY <1>2 DEF Clocked
  <2>2. proc'[q].loaded <= clock + 1 /\ proc'[q].saved <= clock + 1
    BY <1>1, <1>12, <2>1
  <2>3. ASSUME proc'[q].saved > 0, NEW s \in Proc
        PROVE  proc'[q].saved # proc'[s].loaded /\ (s # q => proc'[q].saved # proc'[s].saved)
    <3>1. q # p => proc[q].saved # proc[s].loaded /\ (s # q => proc[q].saved # proc[s].saved)
      BY <1>1, <2>1, <2>3 DEF Clocked
    <3> QED BY <1>1, <1>12, <2>1, <3>1
  <2> QED BY <2>2, <2>3
<1>14. \A q \in Proc \ {p} : Superseded(q) => Superseded(q)'
  <2> SUFFICES ASSUME NEW q \in Proc \ {p}, Superseded(q) PROVE Superseded(q)'
    OBVIOUS
  <2>1. PICK w \in Proc : proc[w].saved > proc[q].saved /\ (proc[w].loaded < proc[q].saved \/ Key(proc[w]) = Key(proc[q]))
    BY DEF Superseded
  <2>2. w # p
    BY <1>1, <1>12, <2>1
  <2>3. proc'[w] = proc[w] /\ proc'[q] = proc[q]
    BY <1>8, <2>2
  <2> QED BY <2>1, <2>3 DEF Superseded, Key
<1>15. ASSUME NEW q \in Proc \ {p}, proc[q].saved > 0, ~Superseded(q)'
       PROVE  proc[q].saved < proc[p].loaded /\ Key(proc[q]) # Key(r) /\ ~Superseded(q)
  <2>1. proc'[p].saved > proc'[q].saved
    BY <1>1, <1>4, <1>8, <1>12, <1>l
  <2>2. ~(proc'[p].loaded < proc'[q].saved) /\ Key(proc'[p]) # Key(proc'[q])
    BY <1>15, <2>1 DEF Superseded, Key
  <2>3. proc[q].saved # proc[p].loaded
    BY <1>1, <1>15 DEF Clocked
  <2>4. Key(proc'[p]) = Key(r)
    BY <1>4, <1>8 DEF Key
  <2> QED BY <1>8, <1>12, <1>14, <1>15, <2>2, <2>3, <2>4
<1>16. Knows(file[1], clock + 1)'
  <2> SUFFICES ASSUME NEW q \in Proc, 0 < proc'[q].saved PROVE Kept(c, proc'[q]) \/ Superseded(q)'
    BY <1>3 DEF Knows, Kept
  <2>1. CASE q = p
    BY <1>4, <1>5, <1>8, <1>c, <2>1, ChangedIsKept
  <2>2. CASE q # p /\ ~Superseded(q)'
    <3>1. proc'[q] = proc[q] /\ proc[q].saved > 0
      BY <1>8, <2>2
    <3>2. proc[q].saved < proc[p].loaded /\ Key(proc[q]) # Key(r) /\ ~Superseded(q)
      BY <1>15, <2>2, <3>1
    <3>3. Kept(r.config, proc[q])
      <4>1. Active(p)
        BY <1>1 DEF Active
      <4> QED BY <1>1, <1>r, <3>1, <3>2, <4>1 DEF Informed, Knows
    <3>s. PICK s : s = proc[q]
      OBVIOUS
    <3>4. s.cmd.op \in Settings
      BY <1>1, <3>1, <3>s DEF ClientTyped, ProcOK
    <3>5. Kept(c, s)
      BY <1>5, <1>c, <3>2, <3>3, <3>4, <3>s, OthersAreKept
    <3> QED BY <3>1, <3>5, <3>s
  <2> QED BY <2>1, <2>2
<1>17. Informed'
  <2>1. ASSUME NEW q \in Proc, Active(q)' PROVE Knows(proc[q].config, proc[q].loaded)'
    <3>1. q # p /\ proc'[q] = proc[q] /\ Active(q)
      BY <1>4, <1>8, <2>1 DEF Active
    <3>2. PICK config : config = proc[q].config
      OBVIOUS
    <3>3. PICK time \in Nat : time = proc[q].loaded
      BY <1>12
    <3>4. Knows(config, time) /\ y.saved >= time /\ y.saved \in Nat
      BY <1>1, <1>4, <1>12, <1>l, <3>1, <3>2, <3>3 DEF Informed
    <3>5. Knows(config, time)'
      BY <1>1, <1>3, <3>4, Remembers
    <3> QED BY <3>1, <3>2, <3>3, <3>5 DEF Knows
  <2> QED BY <1>16, <2>1 DEF Informed
<1>18. \A q \in Proc : Honest(q)'
  <2>1. Honest(p)'
    <3>1. y.cmd.op \notin Changing
      BY <1>4, <1>5 DEF Saves, Settings, Changing
    <3> QED BY <1>8, <3>1 DEF Honest
  <2> QED BY <1>8, <1>9, <2>1, SameIsHonest DEF ClientInv
<1> QED BY <1>10, <1>11, <1>13, <1>17, <1>18 DEF ClientInv

-----------------------------------------------------------------------------
(* The servers by themselves, the initial states, and the theorem          *)
LEMMA ServersMove ==
    ASSUME ClientInv, ServersTyped', UNCHANGED <<file, proc, tmp, clock>>, \A q \in Proc : Honest(q)'
    PROVE  ClientInv'
<1>1. ClientTyped'
  BY DEF ClientInv, ClientTyped, ServersTyped
<1>2. Clocked' /\ UnreadableHasCause' /\ TemporaryFileIsRemoved'
  BY DEF ClientInv, Clocked, UnreadableHasCause, TemporaryFileIsRemoved
<1>3. Informed'
  <2>1. \A q \in Proc : Superseded(q) => Superseded(q)'
    BY DEF Superseded, Key
  <2>2. ASSUME NEW config, NEW time, Knows(config, time) PROVE Knows(config, time)'
    BY <2>1, <2>2 DEF Knows, Kept
  <2>3. ASSUME file' # <<>> PROVE Knows(file[1], clock + 1)'
    <3>1. PICK config : config = file[1]
      OBVIOUS
    <3>2. PICK time : time = clock + 1
      OBVIOUS
    <3>3. Knows(config, time)'
      BY <2>2, <2>3, <3>1, <3>2 DEF ClientInv, Informed
    <3>4. file'[1] = config /\ clock' + 1 = time
      BY <3>1, <3>2
    <3> QED BY <3>3, <3>4 DEF Knows
  <2>4. ASSUME NEW q \in Proc, Active(q)' PROVE Knows(proc[q].config, proc[q].loaded)'
    <3>1. PICK config : config = proc[q].config
      OBVIOUS
    <3>2. PICK time : time = proc[q].loaded
      OBVIOUS
    <3>3. Active(q)
      BY <2>4 DEF Active
    <3>4. Knows(config, time)'
      BY <2>2, <3>1, <3>2, <3>3 DEF ClientInv, Informed
    <3>5. proc'[q].config = config /\ proc'[q].loaded = time
      BY <3>1, <3>2
    <3> QED BY <3>4, <3>5 DEF Knows
  <2> QED BY <2>3, <2>4 DEF Informed
<1> QED BY <1>1, <1>2, <1>3 DEF ClientInv

LEMMA AdministerStep ==
    ASSUME ClientInv, NEW h \in Host, Administer(h)
    PROVE  ClientInv'
<1>1. ServersTyped /\ UNCHANGED <<file, proc, tmp, clock, effects, halfway>>
  BY DEF Administer, ClientInv, ClientTyped, ServersTyped
<1>s. PICK s : s = server[h]
  OBVIOUS
<1>2. IsServer(s) /\ s.host = h
  BY <1>1, <1>s DEF ServersTyped
<1>3. PICK t : /\ server' = [server EXCEPT ![h] = t] /\ IsServer(t) /\ t.host = h /\ t.deployments = s.deployments
  <2>1. CASE server' = [server EXCEPT ![h].generation = @ + 1]
    <3>t. PICK t : t = [host |-> s.host, generation |-> s.generation + 1, maintenance |-> s.maintenance,
                        auth_required |-> s.auth_required, jobs |-> s.jobs, plugin |-> s.plugin, deployments |-> s.deployments]
      OBVIOUS
    <3>1. [s EXCEPT !.generation = @ + 1] = t
      BY <1>2, <3>t DEF IsServer
    <3>2. server' = [server EXCEPT ![h] = t]
      BY <1>s, <2>1, <3>1
    <3>3. IsServer(t)
      BY <1>2, <3>t DEF IsServer
    <3>4. t.host = h /\ t.deployments = s.deployments
      BY <1>2, <3>t
    <3> QED BY <3>2, <3>3, <3>4
  <2>2. CASE server' = [server EXCEPT ![h].maintenance = ~@]
    <3>t. PICK t : t = [host |-> s.host, generation |-> s.generation, maintenance |-> ~s.maintenance,
                        auth_required |-> s.auth_required, jobs |-> s.jobs, plugin |-> s.plugin, deployments |-> s.deployments]
      OBVIOUS
    <3>1. [s EXCEPT !.maintenance = ~@] = t
      BY <1>2, <3>t DEF IsServer
    <3>2. server' = [server EXCEPT ![h] = t]
      BY <1>s, <2>2, <3>1
    <3>3. IsServer(t)
      BY <1>2, <3>t DEF IsServer
    <3>4. t.host = h /\ t.deployments = s.deployments
      BY <1>2, <3>t
    <3> QED BY <3>2, <3>3, <3>4
  <2>3. CASE server' = [server EXCEPT ![h].auth_required = ~@]
    <3>t. PICK t : t = [host |-> s.host, generation |-> s.generation, maintenance |-> s.maintenance,
                        auth_required |-> ~s.auth_required, jobs |-> s.jobs, plugin |-> s.plugin, deployments |-> s.deployments]
      OBVIOUS
    <3>1. [s EXCEPT !.auth_required = ~@] = t
      BY <1>2, <3>t DEF IsServer
    <3>2. server' = [server EXCEPT ![h] = t]
      BY <1>s, <2>3, <3>1
    <3>3. IsServer(t)
      BY <1>2, <3>t DEF IsServer
    <3>4. t.host = h /\ t.deployments = s.deployments
      BY <1>2, <3>t
    <3> QED BY <3>2, <3>3, <3>4
  <2> QED BY <2>1, <2>2, <2>3 DEF Administer
<1>4. server'[h] = t /\ (\A g \in Host \ {h} : server'[g] = server[g]) /\ server' = [g \in Host |-> server'[g]]
  BY <1>1, <1>3 DEF ServersTyped
<1>5. ServersTyped'
  BY <1>1, <1>3, <1>4 DEF ServersTyped
<1>6. \A q \in Proc : Same(q)
  BY <1>1, <1>s, <1>3, <1>4 DEF Same
<1>7. \A q \in Proc : Honest(q)'
  BY <1>1, <1>6, SameIsHonest DEF ClientInv
<1> QED BY <1>1, <1>5, <1>7, ServersMove

LEMMA DeployJobStep ==
    ASSUME ClientInv, NEW h \in Host, NEW p \in Proc, DeployJob(h, p)
    PROVE  ClientInv'
<1>1. ServersTyped /\ UNCHANGED <<file, proc, tmp, clock>> /\ Honest(p) /\ Going(p, h)
  BY DEF DeployJob, ClientInv, ClientTyped, ServersTyped, Going
<1>s. PICK s : s = server[h]
  OBVIOUS
<1>d. PICK d : d = s.deployments[p]
  OBVIOUS
<1>2. IsServer(s) /\ s.host = h /\ p \in DOMAIN s.deployments /\ d.status = "in_progress"
      /\ d = [status |-> d.status, version |-> d.version, build |-> d.build] /\ d.build \in BOOLEAN
  BY <1>1, <1>s, <1>d DEF ServersTyped, IsServer, Going
<1>3. \E status \in {"done", "failed"} : \E jobs :
          /\ effects' = IF status = "done" THEN effects \cup {p} ELSE effects
          /\ halfway' \subseteq halfway \cup {p} /\ halfway \subseteq halfway' /\ (status = "done" => halfway' = halfway)
          /\ server' = [server EXCEPT ![h] =
                [host |-> s.host, generation |-> s.generation, maintenance |-> s.maintenance,
                 auth_required |-> s.auth_required, jobs |-> jobs, plugin |-> s.plugin,
                 deployments |-> [s.deployments EXCEPT ![p] = [d EXCEPT !.status = status]]]]
  <2>1. ASSUME NEW status \in {"done", "failed"}, Placed(h, p, status)
        PROVE  \E jobs : server' = [server EXCEPT ![h] =
                  [host |-> s.host, generation |-> s.generation, maintenance |-> s.maintenance,
                   auth_required |-> s.auth_required, jobs |-> jobs, plugin |-> s.plugin,
                   deployments |-> [s.deployments EXCEPT ![p] = [d EXCEPT !.status = status]]]]
    <3>1. PICK i \in Infrastructure :
              server' = [server EXCEPT ![h] = [@ EXCEPT !.deployments[p].status = status, !.jobs[d.version] = i]]
      BY <1>s, <1>d, <2>1 DEF Placed
    <3>2. server' = [server EXCEPT ![h] = [s EXCEPT !.deployments[p].status = status, !.jobs[d.version] = i]]
      BY <1>s, <3>1
    <3>j. PICK jobs : jobs = [s.jobs EXCEPT ![d.version] = i]
      OBVIOUS
    <3>v. PICK v : v = d.version
      OBVIOUS
    <3>n. PICK all : all = [s.deployments EXCEPT ![p] = [d EXCEPT !.status = status]]
      OBVIOUS
    <3>3. [s EXCEPT !.deployments[p].status = status, !.jobs[v] = i] =
              [host |-> s.host, generation |-> s.generation, maintenance |-> s.maintenance,
               auth_required |-> s.auth_required, jobs |-> jobs, plugin |-> s.plugin, deployments |-> all]
      <4>1. [s EXCEPT !.deployments[p].status = status] =
                [host |-> s.host, generation |-> s.generation, maintenance |-> s.maintenance,
                 auth_required |-> s.auth_required, jobs |-> s.jobs, plugin |-> s.plugin, deployments |-> all]
        BY <1>2, <1>d, <3>n DEF IsServer
      <4>m. PICK m : m = [host |-> s.host, generation |-> s.generation, maintenance |-> s.maintenance,
                          auth_required |-> s.auth_required, jobs |-> s.jobs, plugin |-> s.plugin, deployments |-> all]
        OBVIOUS
      <4>2. [s EXCEPT !.deployments[p].status = status, !.jobs[v] = i] = [m EXCEPT !.jobs[v] = i]
        BY <4>1, <4>m
      <4>3. [m EXCEPT !.jobs[v] = i] = [host |-> s.host, generation |-> s.generation, maintenance |-> s.maintenance,
                                        auth_required |-> s.auth_required, jobs |-> jobs, plugin |-> s.plugin, deployments |-> all]
        BY <3>j, <3>v, <4>m
      <4> QED BY <4>2, <4>3
    <3> QED BY <2>1, <3>2, <3>3, <3>v, <3>n
  <2>2. CASE server' = [server EXCEPT ![h].deployments[p].status = "failed"] /\ UNCHANGED <<effects, halfway>>
    <3>1. server' = [server EXCEPT ![h] = [s EXCEPT !.deployments[p].status = "failed"]]
      BY <1>s, <2>2
    <3>n. PICK all : all = [s.deployments EXCEPT ![p] = [d EXCEPT !.status = "failed"]]
      OBVIOUS
    <3>2. [s EXCEPT !.deployments[p].status = "failed"] =
              [host |-> s.host, generation |-> s.generation, maintenance |-> s.maintenance,
               auth_required |-> s.auth_required, jobs |-> s.jobs, plugin |-> s.plugin, deployments |-> all]
      BY <1>2, <1>d, <3>n DEF IsServer
    <3> QED BY <2>2, <3>1, <3>2, <3>n
  <2>3. CASE Placed(h, p, "done") /\ effects' = effects \cup {p} /\ halfway' = halfway
    BY <2>1, <2>3
  <2>4. CASE Placed(h, p, "failed") /\ effects' = effects /\ halfway' = halfway \cup {p}
    BY <2>1, <2>4
  <2> QED BY <1>s, <1>d, <2>2, <2>3, <2>4 DEF DeployJob
<1>p. PICK status \in {"done", "failed"} : \E jobs :
          /\ effects' = IF status = "done" THEN effects \cup {p} ELSE effects
          /\ halfway' \subseteq halfway \cup {p} /\ halfway \subseteq halfway' /\ (status = "done" => halfway' = halfway)
          /\ server' = [server EXCEPT ![h] =
                [host |-> s.host, generation |-> s.generation, maintenance |-> s.maintenance,
                 auth_required |-> s.auth_required, jobs |-> jobs, plugin |-> s.plugin,
                 deployments |-> [s.deployments EXCEPT ![p] = [d EXCEPT !.status = status]]]]
  BY <1>3
<1>4. PICK jobs :
          /\ effects' = IF status = "done" THEN effects \cup {p} ELSE effects
          /\ halfway' \subseteq halfway \cup {p} /\ halfway \subseteq halfway' /\ (status = "done" => halfway' = halfway)
          /\ server' = [server EXCEPT ![h] =
                [host |-> s.host, generation |-> s.generation, maintenance |-> s.maintenance,
                 auth_required |-> s.auth_required, jobs |-> jobs, plugin |-> s.plugin,
                 deployments |-> [s.deployments EXCEPT ![p] = [d EXCEPT !.status = status]]]]
  BY <1>p
<1>e. PICK e : e = [status |-> status, version |-> d.version, build |-> d.build]
  OBVIOUS
<1>a. PICK all : all = [q \in DOMAIN s.deployments |-> IF q = p THEN e ELSE s.deployments[q]]
  OBVIOUS
<1>t. PICK t : t = [host |-> s.host, generation |-> s.generation, maintenance |-> s.maintenance,
                    auth_required |-> s.auth_required, jobs |-> jobs, plugin |-> s.plugin, deployments |-> all]
  OBVIOUS
<1>5. server' = [server EXCEPT ![h] = t]
  <2>1. [d EXCEPT !.status = status] = e
    BY <1>2, <1>e
  <2>2. [s.deployments EXCEPT ![p] = e] = all
    BY <1>2, <1>a DEF IsServer
  <2> QED BY <1>4, <1>t, <2>1, <2>2
<1>6. /\ DOMAIN all = DOMAIN s.deployments /\ all[p] = e /\ all = [q \in DOMAIN all |-> all[q]]
      /\ \A q \in DOMAIN s.deployments \ {p} : all[q] = s.deployments[q]
  BY <1>2, <1>a
<1>7. IsServer(t) /\ t.host = h /\ t.deployments = all
  <2>1. \A q \in DOMAIN all : all[q] = [status |-> all[q].status, version |-> all[q].version, build |-> all[q].build]
                              /\ all[q].build \in BOOLEAN
    <3>1. e = [status |-> e.status, version |-> e.version, build |-> e.build] /\ e.build \in BOOLEAN
      BY <1>2, <1>e
    <3> QED BY <1>2, <1>6, <3>1 DEF IsServer
  <2>2. /\ t.host = s.host /\ t.generation = s.generation /\ t.maintenance = s.maintenance /\ t.auth_required = s.auth_required
        /\ t.jobs = jobs /\ t.plugin = s.plugin /\ t.deployments = all
    BY <1>t
  <2>3. s.generation \in Nat \ {0}
    BY <1>2 DEF IsServer
  <2> QED BY <1>2, <1>6, <1>t, <2>1, <2>2, <2>3 DEF IsServer
<1>8. server'[h] = t /\ (\A g \in Host \ {h} : server'[g] = server[g]) /\ server' = [g \in Host |-> server'[g]]
  BY <1>1, <1>5 DEF ServersTyped
<1>9. ServersTyped'
  BY <1>1, <1>7, <1>8 DEF ServersTyped
<1>10. \A q \in Proc \ {p} : Same(q)
  <2>1. \A q \in Proc \ {p} : (q \in effects' <=> q \in effects) /\ (q \in halfway' <=> q \in halfway)
    BY <1>4
  <2> QED BY <1>s, <1>6, <1>7, <1>8, <2>1 DEF Same
<1>11. Honest(p)'
  <2>r. PICK r : r = proc[p]
    OBVIOUS
  <2>1. proc'[p] = r
    BY <1>1, <2>r
  <2> SUFFICES ASSUME r.cmd.op \in Changing PROVE Honest(p)'
    BY <2>1 DEF Honest
  <2>2. r.pc \notin {"idle", "auth", "send"}
    BY <1>1, <2>r DEF Honest, Untouched, Going
  <2>3. CASE r.pc = "poll"
    <3>g. PICK g \in Host : g = r.url.host
      BY <1>1, <2>r, <2>3 DEF Honest
    <3>1. /\ p \in DOMAIN server[g].deployments /\ \A f \in Host \ {g} : p \notin DOMAIN server[f].deployments
          /\ p \in effects <=> server[g].deployments[p].status = "done"
          /\ p \in halfway => server[g].deployments[p].status = "failed"
      BY <1>1, <2>r, <2>3, <3>g DEF Honest
    <3>2. g = h
      BY <1>1, <3>1 DEF Going
    <3>3. p \notin effects /\ p \notin halfway
      BY <1>2, <1>s, <1>d, <3>1, <3>2
    <3>4. (p \in effects' <=> status = "done") /\ (p \in halfway' => status = "failed")
      BY <1>4, <3>3
    <3>5. server'[g].deployments[p].status = status /\ p \in DOMAIN server'[g].deployments
      BY <1>2, <1>e, <1>6, <1>7, <1>8, <3>2
    <3>6. \A f \in Host \ {g} : p \notin DOMAIN server'[f].deployments
      BY <1>8, <3>1, <3>2
    <3> QED BY <2>1, <2>3, <3>g, <3>4, <3>5, <3>6 DEF Honest
  <2>4. CASE r.pc = "done"
    <3>1. r.exit # "ok" /\ r.unsure
      BY <1>1, <2>r, <2>4 DEF Honest
    <3> QED BY <2>1, <2>4, <3>1 DEF Honest
  <2> QED BY <2>1, <2>2, <2>3, <2>4 DEF Honest
<1>12. \A q \in Proc : Honest(q)'
  BY <1>1, <1>10, <1>11, SameIsHonest DEF ClientInv
<1> QED BY <1>1, <1>9, <1>12, ServersMove

LEMMA ClientStarts ==
    ASSUME ClientInit
    PROVE  ClientInv
<1>1. PICK config \in Config : file = <<config>>
  BY DEF ClientInit
<1>2. /\ proc \in [Proc -> {NotStarted(cmd) : cmd \in Command}] /\ tmp = {} /\ clock = 0 /\ effects = {} /\ halfway = {}
      /\ server = [h \in Host |-> [Lifecycle(h) EXCEPT !.jobs[Min(JobVersion)] = CHOOSE i \in Infrastructure : TRUE]]
  BY DEF ClientInit
<1>3. ASSUME NEW p \in Proc
      PROVE  /\ ProcOK(proc[p]) /\ proc[p].pc = "idle" /\ proc[p].saved = 0 /\ proc[p].loaded = 0
  <2>1. PICK cmd \in Command : proc[p] = NotStarted(cmd)
    BY <1>2
  <2>2. proc[p] = [pc |-> "idle", cmd |-> cmd, config |-> ClientConfig, url |-> Unnamed, token |-> NoToken,
                   version |-> 0, step |-> 1, exit |-> Absent, unsure |-> FALSE, loaded |-> 0, saved |-> 0]
    BY <2>1 DEF NotStarted
  <2>3. PICK r : r = proc[p]
    OBVIOUS
  <2>4. IsProc(r) /\ r.pc = "idle" /\ r.cmd \in Command /\ r.saved = 0 /\ r.loaded = 0 /\ r.step = 1 /\ r.unsure \in BOOLEAN
    BY <2>2, <2>3 DEF IsProc
  <2>5. ProcOK(r)
    BY <2>4 DEF ProcOK, Pcs
  <2> QED BY <2>3, <2>4, <2>5
<1>4. ASSUME NEW h \in Host PROVE IsServer(server[h]) /\ server[h].host = h /\ DOMAIN server[h].deployments = {}
  <2>i. PICK i : i = CHOOSE j \in Infrastructure : TRUE
    OBVIOUS
  <2>m. PICK m : m = Min(JobVersion)
    OBVIOUS
  <2>j. PICK none : none = [v \in JobVersion |-> Absent]
    OBVIOUS
  <2>d. PICK ds : ds = <<>>
    OBVIOUS
  <2>1. server[h] = [[host |-> h, generation |-> 1, maintenance |-> FALSE, auth_required |-> TRUE,
                      jobs |-> none, plugin |-> FALSE, deployments |-> ds] EXCEPT !.jobs[m] = i]
    BY <1>2, <2>i, <2>m, <2>j, <2>d DEF Lifecycle
  <2>2. PICK jobs : jobs = [none EXCEPT ![m] = i]
    OBVIOUS
  <2>3. server[h] = [host |-> h, generation |-> 1, maintenance |-> FALSE, auth_required |-> TRUE,
                     jobs |-> jobs, plugin |-> FALSE, deployments |-> ds]
    BY <2>1, <2>2
  <2>4. DOMAIN ds = {} /\ ds = [q \in DOMAIN ds |-> ds[q]]
    BY <2>d
  <2>5. PICK s : s = server[h]
    OBVIOUS
  <2>6. IsServer(s) /\ s.host = h /\ s.deployments = ds
    BY <2>3, <2>4, <2>5 DEF IsServer
  <2> QED BY <2>4, <2>5, <2>6
<1>5. ClientTyped
  <2>1. file[1] = config /\ ConfigOK(config)
    BY <1>1, ClientAssumption
  <2>2. proc = [p \in Proc |-> proc[p]]
    BY <1>2
  <2>3. server = [h \in Host |-> server[h]]
    BY <1>2
  <2>4. file = <<file[1]>>
    BY <1>1
  <2> QED BY <1>2, <1>3, <1>4, <2>1, <2>2, <2>3, <2>4 DEF ClientTyped
<1>6. Clocked /\ Informed
  BY <1>2, <1>3 DEF Clocked, Informed, Knows, Active
<1>7. UnreadableHasCause /\ TemporaryFileIsRemoved
  BY <1>1, <1>2 DEF UnreadableHasCause, TemporaryFileIsRemoved
<1>8. \A p \in Proc : Honest(p)
  BY <1>2, <1>3, <1>4 DEF Honest, Untouched
<1> QED BY <1>5, <1>6, <1>7, <1>8 DEF ClientInv

LEMMA ClientStutters ==
    ASSUME ClientInv, UNCHANGED clientVars
    PROVE  ClientInv'
<1>1. UNCHANGED <<file, proc, server, tmp, clock, effects, halfway>>
  BY DEF clientVars
<1>2. ServersTyped' /\ \A q \in Proc : Same(q)
  BY <1>1, Idle DEF ClientInv
<1>3. \A q \in Proc : Honest(q)'
  BY <1>1, <1>2, SameIsHonest DEF ClientInv
<1> QED BY <1>1, <1>2, <1>3, ServersMove

LEMMA ClientGoesOn ==
    ASSUME ClientInv, [ClientNext]_clientVars
    PROVE  ClientInv'
<1>1. CASE UNCHANGED clientVars
  BY <1>1, ClientStutters
<1>2. ASSUME NEW p \in Proc, \/ Load(p) \/ Auth(p) \/ Send(p) \/ WaitForDeploymentResult(p) \/ Expire(p)
                             \/ Truncate(p) \/ Write(p) \/ Kill(p)
      PROVE  ClientInv'
  BY <1>2, LoadStep, AuthStep, SendStep, PollStep, ExpireStep, TruncateStep, WriteStep, KillStep
<1>3. ASSUME NEW h \in Host, Administer(h) \/ \E p \in Proc : DeployJob(h, p)
      PROVE  ClientInv'
  BY <1>3, AdministerStep, DeployJobStep
<1> QED BY <1>1, <1>2, <1>3 DEF ClientNext

LEMMA ConfigurationIsInformed ==
    ASSUME ClientInv
    PROVE  ConfigurationIsKept
<1>1. ClientTyped /\ Clocked /\ Informed /\ UnreadableHasCause
  BY DEF ClientInv
<1>2. SettingIsKept
  <2> SUFFICES ASSUME file # <<>>, NEW p \in Proc, proc[p].saved > 0
               PROVE  Kept(file[1], proc[p]) \/ Superseded(p)
    BY DEF SettingIsKept, Superseded
  <2>1. Knows(file[1], clock + 1)
    BY <1>1 DEF Informed
  <2>2. proc[p].saved < clock + 1
    BY <1>1 DEF Clocked, ClientTyped, ProcOK
  <2> QED BY <2>1, <2>2 DEF Knows
<1>3. TokenIsOfItsRemote
  BY <1>1 DEF TokenIsOfItsRemote, ClientTyped, ConfigOK
<1> QED BY <1>1, <1>2, <1>3 DEF ConfigurationIsKept

LEMMA CommandsAreHonest ==
    ASSUME ClientInv
    PROVE  CommandEndsCleanly
<1>1. (\A p \in Proc : Honest(p)) /\ TemporaryFileIsRemoved
  BY DEF ClientInv
<1>2. ReportIsTruthful
  <2> SUFFICES ASSUME NEW p \in Proc, proc[p].pc = "done", proc[p].cmd.op \in Changing
               PROVE  (proc[p].exit = "ok" => p \in effects) /\ (p \in effects => proc[p].exit = "ok" \/ proc[p].unsure)
                       /\ (p \in halfway => proc[p].exit # "ok")
    BY DEF ReportIsTruthful
  <2> QED BY <1>1 DEF Honest
<1> QED BY <1>1, <1>2 DEF CommandEndsCleanly

\* Whatever invocations of the client run at once, are refused, lose an
\* answer or are killed (save_client_config, load_client_config): an option
\* that was set stays set unless it was set again or overwritten by one that
\* had loaded the file before, the file is empty only while it is written or
\* since a kill then, and a stored token is of the remote that it is for.
THEOREM ConfigurationStaysKept == ClientInit /\ [][ClientNext]_clientVars => []ConfigurationIsKept
<1>1. ClientInit => ClientInv
  BY ClientStarts
<1>2. ClientInv /\ [ClientNext]_clientVars => ClientInv'
  BY ClientGoesOn
<1>3. ClientInv => ConfigurationIsKept
  BY ConfigurationIsInformed
<1> QED BY <1>1, <1>2, <1>3, PTL

\* A command that reports success had its whole effect on the server, one
\* whose effect was completed reports success unless it could not know, one
\* that the server left half done reports an error, and the temporary file
\* of a piped manifest is gone when its command has ended (delete_job,
\* move_job, provision_job; send_deploy_request, parse_response,
\* _wait_for_deployment_result).
THEOREM CommandsEndCleanly == ClientInit /\ [][ClientNext]_clientVars => []CommandEndsCleanly
<1>1. ClientInit => ClientInv
  BY ClientStarts
<1>2. ClientInv /\ [ClientNext]_clientVars => ClientInv'
  BY ClientGoesOn
<1>3. ClientInv => CommandEndsCleanly
  BY CommandsAreHonest
<1> QED BY <1>1, <1>2, <1>3, PTL

-----------------------------------------------------------------------------
(***************************************************************************)
(* The packing of files.                                                   *)
(***************************************************************************)
\* Any set of indices up to n that is not empty has a highest one.
Ordered(n) == \A s \in SUBSET (1..n) : s # {} => \E i \in s : \A j \in s : j <= i

LEMMA OneMore == ASSUME NEW n \in Nat, Ordered(n) PROVE Ordered(n + 1)
<1> SUFFICES ASSUME NEW s \in SUBSET (1..(n + 1)), s # {} PROVE \E i \in s : \A j \in s : j <= i
  BY DEF Ordered
<1>1. CASE n + 1 \in s
  BY <1>1
<1>2. CASE n + 1 \notin s
  <2>1. s \in SUBSET (1..n)
    BY <1>2
  <2> QED BY <2>1 DEF Ordered
<1> QED BY <1>1, <1>2

Spots == Seq(STRING) \ {<<>>}
IgnoreLine == [sign : {"+", "-"}, first : BOOLEAN, parts : Seq(STRING), last : BOOLEAN]

\* A bundle, whatever the lines were when it was made.
SourcesOnly(files) ==
    Manifest \notin files /\ \A path \in files \ Sources : path[1] \notin Wildcards["*.zip"]

PackingInv ==
    /\ lines \in Seq(IgnoreLine) /\ disk \subseteq Spots /\ disk \subseteq Sources \cup Archives
    /\ Ordered(Len(lines)) /\ (bundle # <<>> => SourcesOnly(bundle[1]))

\* The lines that apply.
LEMMA LinesThatApply ==
    ASSUME PackingInv
    PROVE  /\ Len(AllLines) = Len(lines) + 4 /\ DOMAIN AllLines = 1..(Len(lines) + 4) /\ Len(lines) \in Nat
           /\ DOMAIN lines = 1..Len(lines) /\ \A i \in DOMAIN lines : AllLines[i] = lines[i] /\ lines[i] \in IgnoreLine
           /\ \A i \in (Len(lines) + 1)..(Len(lines) + 4) : AllLines[i].sign = "-"
           /\ AllLines[Len(lines) + 1] = Line("-", FALSE, <<"*.zip">>, FALSE)
           /\ AllLines[Len(lines) + 4] = Line("-", TRUE, Manifest, FALSE)
<1> DEFINE one == Line("-", FALSE, <<"*.zip">>, FALSE)
           two == Line("-", FALSE, <<".git">>, FALSE)
           three == Line("-", FALSE, <<"*.pyc">>, FALSE)
           four == Line("-", TRUE, Manifest, FALSE)
<1>1. one.sign = "-" /\ two.sign = "-" /\ three.sign = "-" /\ four.sign = "-" /\ DefaultLines = <<one, two, three, four>>
  BY DEF DefaultLines, Line
<1>2. lines \in Seq(IgnoreLine) /\ AllLines = lines \o <<one, two, three, four>>
  BY <1>1 DEF PackingInv, AllLines
<1> HIDE DEF one, two, three, four
<1>3. /\ Len(AllLines) = Len(lines) + 4 /\ DOMAIN AllLines = 1..(Len(lines) + 4) /\ Len(lines) \in Nat
      /\ DOMAIN lines = 1..Len(lines)
  BY <1>2
<1>4. \A i \in DOMAIN lines : AllLines[i] = lines[i] /\ lines[i] \in IgnoreLine
  BY <1>2
<1>5. /\ AllLines[Len(lines) + 1] = one /\ AllLines[Len(lines) + 2] = two
      /\ AllLines[Len(lines) + 3] = three /\ AllLines[Len(lines) + 4] = four
  BY <1>2
<1>6. \A i \in (Len(lines) + 1)..(Len(lines) + 4) : AllLines[i].sign = "-"
  <2> TAKE i \in (Len(lines) + 1)..(Len(lines) + 4)
  <2>1. i \in {Len(lines) + 1, Len(lines) + 2, Len(lines) + 3, Len(lines) + 4}
    BY <1>3
  <2> QED BY <1>1, <1>5, <2>1
<1>7. one = Line("-", FALSE, <<"*.zip">>, FALSE) /\ four = Line("-", TRUE, Manifest, FALSE)
  BY DEF one, four
<1> QED BY <1>3, <1>4, <1>5, <1>6, <1>7

\* The last line that matches decides: nothing matches, or a last line does.
LEMMA LastDecides ==
    ASSUME PackingInv, NEW path
    PROVE  \/ MatchPath(path) /\ \A i \in DOMAIN AllLines : ~MatchFilePattern(path, AllLines[i])
           \/ \E i \in DOMAIN AllLines :
                 /\ MatchFilePattern(path, AllLines[i]) /\ (MatchPath(path) <=> AllLines[i].sign = "+")
                 /\ \A j \in DOMAIN AllLines : MatchFilePattern(path, AllLines[j]) => j <= i
<1> DEFINE found == {i \in DOMAIN AllLines : MatchFilePattern(path, AllLines[i])}
           Apex(i) == i \in found /\ \A j \in found : j <= i
<1>1. CASE found = {}
  BY <1>1 DEF MatchPath
<1>2. CASE found # {}
  <2>1. found \in SUBSET (1..(Len(lines) + 4))
    BY LinesThatApply
  <2>2. Ordered(Len(lines) + 4)
    <3>1. Len(lines) \in Nat /\ Ordered(Len(lines))
      BY LinesThatApply DEF PackingInv
    <3>2. Ordered(Len(lines) + 1)
      BY <3>1, OneMore
    <3>3. Len(lines) + 1 \in Nat /\ (Len(lines) + 1) + 1 = Len(lines) + 2
      BY <3>1
    <3>4. Ordered(Len(lines) + 2)
      BY <3>2, <3>3, OneMore
    <3>5. Len(lines) + 2 \in Nat /\ (Len(lines) + 2) + 1 = Len(lines) + 3
      BY <3>1
    <3>6. Ordered(Len(lines) + 3)
      BY <3>4, <3>5, OneMore
    <3>7. Len(lines) + 3 \in Nat /\ (Len(lines) + 3) + 1 = Len(lines) + 4
      BY <3>1
    <3> QED BY <3>6, <3>7, OneMore
  <2>3. \E i : Apex(i)
    BY <1>2, <2>1, <2>2 DEF Ordered
  <2> DEFINE i == CHOOSE i \in found : \A j \in found : j <= i
  <2>4. i \in found /\ \A j \in found : j <= i
    BY <2>3
  <2>5. MatchPath(path) <=> AllLines[i].sign = "+"
    BY <1>2 DEF MatchPath
  <2> HIDE DEF i
  <2> QED BY <2>4, <2>5
<1> QED BY <1>1, <1>2

\* A file that one of the lines leaves out, and no later line takes back.
LEMMA LeftOut ==
    ASSUME PackingInv, NEW path, NEW i \in DOMAIN AllLines, MatchFilePattern(path, AllLines[i]),
           \A j \in DOMAIN AllLines : j >= i => AllLines[j].sign = "-"
    PROVE  ~MatchPath(path)
<1>1. PICK k \in DOMAIN AllLines :
        /\ MatchFilePattern(path, AllLines[k]) /\ (MatchPath(path) <=> AllLines[k].sign = "+")
        /\ \A j \in DOMAIN AllLines : MatchFilePattern(path, AllLines[j]) => j <= k
  BY LastDecides
<1>2. AllLines[k].sign = "-"
  BY <1>1, LinesThatApply
<1> QED BY <1>1, <1>2

\* The files that the lines take are no bundles, and not the manifest.
LEMMA TakesSources ==
    ASSUME PackingInv, NEW files, files \subseteq Sources \cup Archives, \A path \in files : MatchPath(path)
    PROVE  SourcesOnly(files)
<1>1. Manifest \notin files
  <2>1. MatchFilePattern(Manifest, Line("-", TRUE, Manifest, FALSE))
    BY DEF MatchFilePattern, Line, MatchesBeginning, FnMatch, Manifest
  <2>2. Len(lines) + 4 \in DOMAIN AllLines /\ \A j \in DOMAIN AllLines : j >= Len(lines) + 4 => AllLines[j].sign = "-"
    BY LinesThatApply
  <2> QED BY <2>1, <2>2, LinesThatApply, LeftOut
<1>2. ASSUME NEW path \in files \ Sources, path[1] \in Wildcards["*.zip"] PROVE FALSE
  <2>1. path \in Archives /\ path = <<path[1]>>
    BY DEF Archives
  <2>2. MatchFilePattern(path, Line("-", FALSE, <<"*.zip">>, FALSE))
    BY <1>2, <2>1, PackingAssumption DEF MatchFilePattern, Line, FnMatch
  <2>3. Len(lines) + 1 \in DOMAIN AllLines /\ \A j \in DOMAIN AllLines : j >= Len(lines) + 1 => AllLines[j].sign = "-"
    BY LinesThatApply
  <2> QED BY <2>2, <2>3, LinesThatApply, LeftOut
<1> QED BY <1>1, <1>2 DEF SourcesOnly

-----------------------------------------------------------------------------
(* Every step                                                              *)

LEMMA PackingStart == ASSUME PackingInit PROVE PackingInv
<1>1. Ordered(0)
  <2>1. 1..0 = {}
    OBVIOUS
  <2> QED BY <2>1 DEF Ordered
<1>2. lines = <<>> /\ disk = Sources /\ bundle = <<>> /\ Len(lines) = 0 /\ lines \in Seq(IgnoreLine)
  BY DEF PackingInit
<1> QED BY <1>1, <1>2, PackingAssumption DEF PackingInv, Spots

LEMMA AddLineStep == ASSUME PackingInv, NEW line \in Lines, AddLine(line) PROVE PackingInv'
<1>1. line \in IgnoreLine /\ lines \in Seq(IgnoreLine) /\ Len(lines) \in Nat /\ lines' = Append(lines, line)
  BY PackingAssumption DEF PackingInv, AddLine, IgnoreLine
<1>2. lines' \in Seq(IgnoreLine) /\ Len(lines') = Len(lines) + 1
  BY <1>1
<1>3. Ordered(Len(lines) + 1)
  BY <1>1, OneMore DEF PackingInv
<1>4. Ordered(Len(lines'))
  BY <1>2, <1>3
<1> QED BY <1>2, <1>4 DEF PackingInv, AddLine, Ordered

LEMMA BundlePluginStep == ASSUME PackingInv, NEW name \in OutNames, BundlePlugin(name) PROVE PackingInv'
<1> DEFINE files == {path \in disk' : MatchPath(path)}
<1>1. disk' = disk \cup {<<name>>} /\ bundle' = <<files, Manifest>> /\ lines' = lines
  BY DEF BundlePlugin
<1>2. <<name>> \in Archives /\ <<name>> \in Spots
  BY PackingAssumption DEF Archives, Spots
<1>3. disk' \subseteq Sources \cup Archives /\ disk' \subseteq Spots
  BY <1>1, <1>2 DEF PackingInv
<1>4. SourcesOnly(files)
  BY <1>3, TakesSources
<1>5. SourcesOnly(bundle'[1])
  BY <1>1, <1>4
<1> QED BY <1>1, <1>3, <1>5 DEF PackingInv, Ordered, SourcesOnly

LEMMA PackingSteps == ASSUME PackingInv, [PackingNext]_packingVars PROVE PackingInv'
<1>1. CASE UNCHANGED packingVars
  BY <1>1 DEF packingVars, PackingInv, Ordered, SourcesOnly
<1> QED BY <1>1, AddLineStep, BundlePluginStep DEF PackingNext

-----------------------------------------------------------------------------
(* What the lines choose                                                   *)

LEMMA Segments ==
    ASSUME NEW path \in Spots
    PROVE  /\ Len(path) \in Nat \ {0} /\ DOMAIN path = 1..Len(path) /\ SubSeq(path, 1, Len(path)) = path
<1>1. Len(path) \in Nat /\ DOMAIN path = 1..Len(path) /\ Len(path) # 0
  BY DEF Spots
<1>2. SubSeq(path, 1, Len(path)) = path
  BY <1>1 DEF Spots
<1> QED BY <1>1, <1>2

LEMMA TakenAlong == ASSUME PackingInv, NEW path \in BuildContext PROVE MatchPath(path)
<1>1. path \in Spots /\ \A n \in 1..Len(path) : MatchPath(SubSeq(path, 1, n))
  BY DEF PackingInv, BuildContext, ListFiles
<1>2. Len(path) \in 1..Len(path) /\ SubSeq(path, 1, Len(path)) = path
  BY <1>1, Segments
<1> QED BY <1>1, <1>2

LEMMA IgnoredStaysOut == ASSUME PackingInv PROVE IgnoredIsLeftOut
<1> SUFFICES ASSUME NEW i \in DOMAIN lines, lines[i].sign = "-", ~lines[i].last, Len(lines[i].parts) = 1, ~lines[i].first,
                    \A j \in (i + 1)..Len(lines) : lines[j].sign = "-",
                    NEW path \in disk, MatchPath(path) \/ path \in BuildContext,
                    NEW n \in DOMAIN path, FnMatch(path[n], lines[i].parts[1])
             PROVE  FALSE
  BY DEF IgnoredIsLeftOut
<1>1. MatchPath(path)
  BY TakenAlong
<1>2. AllLines[i] = lines[i] /\ i \in DOMAIN AllLines /\ i \in Nat
  BY LinesThatApply
<1>3. MatchFilePattern(path, AllLines[i])
  BY <1>2 DEF MatchFilePattern
<1>4. \A j \in DOMAIN AllLines : j >= i => AllLines[j].sign = "-"
  <2> TAKE j \in DOMAIN AllLines
  <2>1. \/ j = i
        \/ j < i
        \/ j \in (i + 1)..Len(lines) /\ j \in DOMAIN lines
        \/ j \in (Len(lines) + 1)..(Len(lines) + 4)
    BY <1>2, LinesThatApply
  <2> QED BY <1>2, <2>1, LinesThatApply
<1> QED BY <1>1, <1>2, <1>3, <1>4, LeftOut

LEMMA ContextAndBundle == ASSUME PackingInv PROVE ContextFitsBundle
<1> SUFFICES ASSUME NEW path \in disk, MatchPath(path), path \notin BuildContext
             PROVE  \E n \in 1..(Len(path) - 1), i \in DOMAIN AllLines :
                       /\ ~MatchPath(SubSeq(path, 1, n))
                       /\ AllLines[i].sign = "-" /\ MatchFilePattern(SubSeq(path, 1, n), AllLines[i])
                       /\ MatchFilePattern(path, AllLines[i]) =>
                              \E j \in DOMAIN lines : j > i /\ lines[j].sign = "+" /\ MatchFilePattern(path, lines[j])
  BY TakenAlong DEF ContextFitsBundle
<1>1. path \in Spots
  BY DEF PackingInv
<1>2. PICK n \in 1..Len(path) : ~MatchPath(SubSeq(path, 1, n))
  BY DEF BuildContext, ListFiles
<1>3. n \in 1..(Len(path) - 1)
  <2>1. n # Len(path) /\ Len(path) \in Nat
    BY <1>1, <1>2, Segments
  <2> QED BY <1>2, <2>1
<1> DEFINE directory == SubSeq(path, 1, n)
<1>4. ~MatchPath(directory)
  BY <1>2
<1> HIDE DEF directory
<1>5. PICK i \in DOMAIN AllLines : MatchFilePattern(directory, AllLines[i]) /\ AllLines[i].sign # "+"
  BY <1>4, LastDecides
<1>6. AllLines[i].sign = "-"
  BY <1>5, LinesThatApply DEF IgnoreLine
<1>7. ASSUME MatchFilePattern(path, AllLines[i])
      PROVE  \E j \in DOMAIN lines : j > i /\ lines[j].sign = "+" /\ MatchFilePattern(path, lines[j])
  <2>1. PICK j \in DOMAIN AllLines :
          /\ MatchFilePattern(path, AllLines[j]) /\ AllLines[j].sign = "+"
          /\ \A k \in DOMAIN AllLines : MatchFilePattern(path, AllLines[k]) => k <= j
    BY <1>7, LastDecides
  <2>2. j \in DOMAIN lines /\ AllLines[j] = lines[j]
    BY <2>1, LinesThatApply
  <2>3. i <= j /\ i # j
    BY <1>6, <1>7, <2>1
  <2>4. j > i
    BY <2>3, LinesThatApply
  <2> QED BY <2>1, <2>2, <2>4
<1> QED BY <1>3, <1>4, <1>5, <1>6, <1>7 DEF directory

(* What is packed, for any sources, wildcards and lines of the ignore      *)
(* file: no bundle holds a bundle or a second manifest, what a line leaves *)
(* out stays out, and the build context of a job and the bundle of a       *)
(* plugin differ only below a directory that is left out.                  *)
THEOREM FilesStayChosen == PackingInit /\ [][PackingNext]_packingVars => []FilesAreChosen
<1>1. PackingInit => PackingInv
  BY PackingStart
<1>2. PackingInv /\ [PackingNext]_packingVars => PackingInv'
  BY PackingSteps
<1>3. PackingInv => FilesAreChosen
  BY IgnoredStaysOut, ContextAndBundle DEF FilesAreChosen, BundleIsOfSources, PackingInv, SourcesOnly
<1> QED BY <1>1, <1>2, <1>3, PTL

-----------------------------------------------------------------------------
(***************************************************************************)
(* The building of images.                                                 *)
(***************************************************************************)
-----------------------------------------------------------------------------
(* The inductive invariant                                                 *)

Types == DOMAIN JobTypes
Points == {"idle", "fetch", "prepare", "base", "template", "secrets", "docker", "push", "cleanup", "finalize", "answered"}
TypeOrNone == Types \cup {NoVersion}
BuildState == [at : Points, job : Members \cup {Nothing}, second : Nat, tag : Nat, type : TypeOrNone, index : Nat,
               error : BOOLEAN, end : {Nothing, "raised", "writing", "killed"}]
Lives == {"none", "waiting", "provision", "done", "failed"}

ImageTyped ==
    /\ thisSecond \in Nat \ {0}
    /\ build \in [Deployments -> BuildState] /\ life \in [Deployments -> Lives]
    /\ workspace \in [Deployments -> SUBSET {"source", "secrets"}]
    /\ phase = [d \in Deployments |-> phase[d]] /\ DOMAIN record = Members

\* All images of the job type were built and pushed.
Complete(d) == build[d].type \in Types /\ build[d].index = JobTypes[build[d].type]

\* How far the build of a deployment is.
Progressing(d) ==
    /\ life[d] = "none" => build[d] = NoBuild /\ workspace[d] = {}
    /\ life[d] # "none" => JobOf(d) \in Members
    /\ life[d] \in {"provision", "done"} => build[d].at = "idle"
    /\ build[d].at \in {"fetch", "prepare"} => build[d].type = NoVersion
    /\ build[d].type = NoVersion => build[d].index = 0
    /\ build[d].at \in {"base", "template", "secrets", "docker", "push"} =>
           build[d].type \in Types /\ build[d].index < JobTypes[build[d].type]
    /\ build[d].at \in {"cleanup", "finalize", "answered"} /\ ~build[d].error => Complete(d)
    /\ life[d] = "provision" => Complete(d)
    /\ build[d].tag = build[d].second

\* What it leaves on the disk and in the record of the deployment.
Tidy(d) ==
    /\ build[d].end # Nothing => ~Building(d)
    /\ build[d].at = "finalize" => workspace[d] = {}
    /\ "secrets" \in workspace[d] => build[d].at = "docker" \/ build[d].end \in {"writing", "killed"}
    /\ workspace[d] # {} /\ ~Building(d) => build[d].end \in {"raised", "writing", "killed"}
    /\ life[d] = "done" => phase[d] = Nothing

\* What it has pushed is there, and unless the job types changed it was made
\* by the one that the job would be given now.
Delivered(d) ==
    /\ \A i \in Nat : i < build[d].index => <<build[d].tag, i>> \in DOMAIN registry
    /\ build[d].type \in Types /\ JobOf(d) \notin unsettled => build[d].type = LoadJobType(JobOf(d), installed)

\* Each image was pushed by a deployment of the job it is of.
PushedBy(image, e) ==
    /\ life[e] # "none" /\ JobOf(e) = registry[image].job /\ build[e].type = registry[image].type
    /\ build[e].type \in Types
    /\ build[e].tag = image[1] /\ image[2] \in Nat /\ image[2] < build[e].index
    /\ build[e].index <= JobTypes[build[e].type]
Pushed == \A image \in DOMAIN registry : image = <<image[1], image[2]>> /\ \E e \in Deployments : PushedBy(image, e)

\* Each job was provisioned from all images of one of its deployments.
ProvisionedBy(j, d) == life[d] # "none" /\ JobOf(d) = j /\ build[d].tag = record[j].tag /\ Complete(d)
Recorded ==
    \A j \in Members : record[j] # NoRecord =>
        /\ record[j].type \in Types /\ record[j].containers = JobTypes[record[j].type]
        /\ \E d \in Deployments : ProvisionedBy(j, d)
        /\ j \notin unsettled => record[j].type = LoadJobType(j, installed)

ImageInv ==
    /\ ImageTyped /\ Pushed /\ Recorded
    /\ \A d \in Deployments : Progressing(d) /\ Tidy(d) /\ Delivered(d)

-----------------------------------------------------------------------------
(* What a step of one deployment leaves alone                              *)

\* A step of d changes nothing of the other deployments.
Only(d) ==
    /\ build' \in [Deployments -> BuildState] /\ life' \in [Deployments -> Lives]
    /\ workspace' \in [Deployments -> SUBSET {"source", "secrets"}] /\ phase' = [e \in Deployments |-> phase'[e]]
    /\ \A e \in Deployments \ {d} : /\ build'[e] = build[e] /\ life'[e] = life[e]
                                    /\ workspace'[e] = workspace[e] /\ phase'[e] = phase[e]

\* What others know of a deployment stays as it is.
Keeps(e) ==
    /\ life'[e] # "none" /\ build'[e].job = build[e].job /\ build'[e].tag = build[e].tag
    /\ build[e].type \in Types => build'[e].type = build[e].type /\ build'[e].index = build[e].index

LEMMA NoType == NoVersion \notin Types
<1>1. <<>> \notin Nat \X Nat \X Nat \X Labels
  OBVIOUS
<1> QED BY <1>1, JobTypesHaveImages DEF Types, NoVersion, Version

LEMMA OthersStay ==
    ASSUME ImageInv, NEW e \in Deployments, build'[e] = build[e], life'[e] = life[e],
           workspace'[e] = workspace[e], phase'[e] = phase[e],
           DOMAIN registry \subseteq DOMAIN registry', unsettled \subseteq unsettled', installed' = installed
    PROVE  Progressing(e)' /\ Tidy(e)' /\ Delivered(e)'
<1>1. Progressing(e) /\ Tidy(e) /\ Delivered(e)
  BY DEF ImageInv
<1>2. Progressing(e)'
  BY <1>1 DEF Progressing, Complete, JobOf
<1>3. Tidy(e)'
  BY <1>1 DEF Tidy, Building
<1>4. Delivered(e)'
  BY <1>1 DEF Delivered, JobOf
<1> QED BY <1>2, <1>3, <1>4

LEMMA WitnessesStay ==
    ASSUME ImageInv, UNCHANGED <<registry, record, installed>>, unsettled \subseteq unsettled',
           \A e \in Deployments : life[e] # "none" => Keeps(e)
    PROVE  Pushed' /\ Recorded'
<1>1. Pushed'
  <2> SUFFICES ASSUME NEW image \in DOMAIN registry
               PROVE  image = <<image[1], image[2]>> /\ \E e \in Deployments : PushedBy(image, e)'
    BY DEF Pushed
  <2>1. image = <<image[1], image[2]>>
    BY DEF ImageInv, Pushed
  <2>2. PICK e \in Deployments : PushedBy(image, e)
    BY DEF ImageInv, Pushed
  <2>3. PushedBy(image, e)'
    BY <2>2 DEF PushedBy, Keeps, JobOf
  <2> QED BY <2>1, <2>3
<1>2. Recorded'
  <2> SUFFICES ASSUME NEW j \in Members, record[j] # NoRecord
               PROVE  /\ record[j].type \in Types /\ record[j].containers = JobTypes[record[j].type]
                      /\ \E d \in Deployments : ProvisionedBy(j, d)'
                      /\ j \notin unsettled' => record[j].type = LoadJobType(j, installed)
    BY DEF Recorded
  <2>1. /\ record[j].type \in Types /\ record[j].containers = JobTypes[record[j].type]
        /\ j \notin unsettled => record[j].type = LoadJobType(j, installed)
    BY DEF ImageInv, Recorded
  <2>2. PICK d \in Deployments : ProvisionedBy(j, d)
    BY DEF ImageInv, Recorded
  <2>3. ProvisionedBy(j, d)'
    BY <2>2 DEF ProvisionedBy, Keeps, JobOf, Complete
  <2> QED BY <2>1, <2>3
<1> QED BY <1>1, <1>2

\* A step of one deployment that neither pushes nor provisions.
LEMMA OneGoesOn ==
    ASSUME ImageInv, NEW d \in Deployments, Only(d), UNCHANGED <<thisSecond, registry, record, installed>>,
           unsettled \subseteq unsettled', life[d] # "none" => Keeps(d),
           Progressing(d)', Tidy(d)', Delivered(d)'
    PROVE  ImageInv'
<1>1. ImageTyped'
  BY DEF ImageInv, ImageTyped, Only
<1>2. \A e \in Deployments : Progressing(e)' /\ Tidy(e)' /\ Delivered(e)'
  <2> TAKE e \in Deployments
  <2>1. CASE e # d
    BY <2>1, OthersStay DEF Only
  <2> QED BY <2>1
<1>3. \A e \in Deployments : life[e] # "none" => Keeps(e)
  BY DEF Only, Keeps
<1>4. Pushed' /\ Recorded'
  BY <1>3, WitnessesStay
<1> QED BY <1>1, <1>2, <1>4 DEF ImageInv

\* The types of what d has.
LEMMA Of ==
    ASSUME ImageInv, NEW d \in Deployments
    PROVE  /\ build[d] \in BuildState /\ life[d] \in Lives /\ workspace[d] \in SUBSET {"source", "secrets"}
           /\ Progressing(d) /\ Tidy(d) /\ Delivered(d)
           /\ build \in [Deployments -> BuildState] /\ life \in [Deployments -> Lives]
           /\ workspace \in [Deployments -> SUBSET {"source", "secrets"}] /\ phase = [e \in Deployments |-> phase[e]]
           /\ build[d].at # "idle" => life[d] # "none"
BY DEF ImageInv, ImageTyped, Progressing, NoBuild

\* A step that gives d another build, life, workspace and phase.
LEMMA OneStep ==
    ASSUME ImageInv, NEW d \in Deployments, NEW b \in BuildState, NEW l \in Lives,
           NEW w \in SUBSET {"source", "secrets"}, NEW p,
           build' = [build EXCEPT ![d] = b], life' = [life EXCEPT ![d] = l],
           workspace' = [workspace EXCEPT ![d] = w], phase' = [phase EXCEPT ![d] = p]
    PROVE  /\ Only(d) /\ build'[d] = b /\ life'[d] = l /\ workspace'[d] = w /\ phase'[d] = p
BY Of DEF Only

-----------------------------------------------------------------------------
(* The steps of Lifecycle                                                  *)

LEMMA BuildAndProvisionStep ==
    ASSUME ImageInv, NEW d \in Deployments, NEW j \in Members, BuildAndProvision(d, j)
    PROVE  ImageInv'
<1> DEFINE b == [NoBuild EXCEPT !.at = "fetch", !.job = j, !.second = thisSecond, !.tag = Tag(thisSecond)]
<1>1. /\ b.at = "fetch" /\ b.job = j /\ b.second = thisSecond /\ b.tag = thisSecond /\ b.type = NoVersion
      /\ b.index = 0 /\ b.error = FALSE /\ b.end = Nothing /\ b \in BuildState
  BY DEF NoBuild, Tag, ImageInv, ImageTyped, BuildState, Points, TypeOrNone
<1>2. build' = [build EXCEPT ![d] = b]
  BY DEF BuildAndProvision
<1> HIDE DEF b
<1>3. /\ Only(d) /\ build'[d] = b /\ life'[d] = "waiting" /\ workspace'[d] = {} /\ life[d] = "none"
      /\ UNCHANGED <<thisSecond, registry, record, installed, unsettled>>
  <2>1. workspace[d] = {} /\ workspace' = workspace /\ life[d] = "none"
    BY Of DEF BuildAndProvision, Progressing
  <2>2. workspace' = [workspace EXCEPT ![d] = {}]
    BY <2>1, Of
  <2>3. "waiting" \in Lives /\ {} \in SUBSET {"source", "secrets"}
    BY DEF Lives
  <2>4. /\ life' = [life EXCEPT ![d] = "waiting"] /\ phase' = [phase EXCEPT ![d] = "building_image"]
        /\ UNCHANGED <<thisSecond, registry, record, installed, unsettled>>
    BY DEF BuildAndProvision, world
  <2>5. /\ Only(d) /\ build'[d] = b /\ life'[d] = "waiting" /\ workspace'[d] = {}
    BY <1>1, <1>2, <2>2, <2>3, <2>4, OneStep
  <2> QED BY <2>1, <2>4, <2>5
<1>4. Progressing(d)' /\ Tidy(d)' /\ Delivered(d)'
  <2>1. Progressing(d)'
    BY <1>1, <1>3 DEF Progressing, JobOf
  <2>2. Tidy(d)'
    BY <1>1, <1>3 DEF Tidy, Building
  <2>3. Delivered(d)'
    BY <1>1, <1>3, NoType DEF Delivered
  <2> QED BY <2>1, <2>2, <2>3
<1> QED BY <1>3, <1>4, OneGoesOn

\* The result of a deployment is saved.
LEMMA Ships ==
    ASSUME ImageInv, NEW d \in Deployments, NEW b \in BuildState, NEW l \in Lives \ {"none"}, NEW p,
           b = build[d] \/ b = [build[d] EXCEPT !.at = "idle"], build' = [build EXCEPT ![d] = b],
           life' = [life EXCEPT ![d] = l], phase' = [phase EXCEPT ![d] = p], UNCHANGED workspace,
           life[d] # "none",
           b.at = "idle" => workspace[d] = {} \/ build[d].end \in {"raised", "writing", "killed"},
           l = "done" => p = Nothing, l \in {"provision", "done"} => b.at = "idle", l = "provision" => Complete(d)
    PROVE  Only(d) /\ Keeps(d) /\ Progressing(d)' /\ Tidy(d)' /\ (installed' = installed /\ unsettled' = unsettled /\ registry' = registry => Delivered(d)')
<1>1. /\ b.job = build[d].job /\ b.second = build[d].second /\ b.tag = build[d].tag /\ b.type = build[d].type
      /\ b.index = build[d].index /\ b.error = build[d].error /\ b.end = build[d].end /\ b.at \in {build[d].at, "idle"}
  BY Of DEF BuildState
<1>2. workspace' = [workspace EXCEPT ![d] = workspace[d]] /\ workspace[d] \in SUBSET {"source", "secrets"}
  BY Of
<1>3. Only(d) /\ build'[d] = b /\ life'[d] = l /\ workspace'[d] = workspace[d] /\ phase'[d] = p
  BY <1>2, OneStep
<1>4. Keeps(d)
  BY <1>1, <1>3 DEF Keeps
<1>a. Progressing(d) /\ Tidy(d) /\ Delivered(d)
  BY Of
<1>5. Progressing(d)'
  BY <1>1, <1>3, <1>a DEF Progressing, Complete, JobOf
<1>6. Tidy(d)'
  <2>1. CASE b = build[d]
    BY <1>3, <1>a, <2>1 DEF Tidy, Building
  <2>2. CASE b.at = "idle"
    <3>1. workspace[d] # {} => build[d].end \in {"raised", "writing", "killed"} /\ build[d].at # "docker"
      BY <1>a, <2>2 DEF Tidy, Building, Nothing
    <3> QED BY <1>1, <1>3, <1>a, <2>2, <3>1 DEF Tidy, Building
  <2> QED BY <2>1, <2>2, Of DEF BuildState
<1>7. installed' = installed /\ unsettled' = unsettled /\ registry' = registry => Delivered(d)'
  BY <1>1, <1>3, <1>a DEF Delivered, JobOf
<1> QED BY <1>3, <1>4, <1>5, <1>6, <1>7

\* An answered build has left nothing unless it ended by an exception.
LEMMA Answered == ASSUME ImageInv, NEW d \in Deployments, build[d].at \in {"answered", "idle"}
                  PROVE  workspace[d] = {} \/ build[d].end \in {"raised", "writing", "killed"}
BY Of DEF Tidy, Building

LEMMA ReceiveResultStep == ASSUME ImageInv, NEW d \in Deployments, ReceiveResult(d) PROVE ImageInv'
<1> DEFINE b == [build[d] EXCEPT !.at = "idle"]
<1>1. b \in BuildState /\ build' = [build EXCEPT ![d] = b] /\ b.at = "idle"
  BY Of DEF ReceiveResult, BuildState, Points
<1>2. /\ UNCHANGED <<thisSecond, registry, record, installed, unsettled, workspace>> /\ life[d] # "none"
      /\ build[d].at = "answered"
  BY DEF ReceiveResult, world
<1>3. \E l \in {"failed", "provision"} :
        /\ life' = [life EXCEPT ![d] = l] /\ (l = "provision" => ~build[d].error)
        /\ \E p : phase' = [phase EXCEPT ![d] = p]
  <2>1. CASE build[d].error
    BY <2>1 DEF ReceiveResult, SaveResult
  <2>2. CASE ~build[d].error
    <3>1. phase' = [phase EXCEPT ![d] = phase[d]]
      BY <2>2, Of DEF ReceiveResult
    <3> QED BY <2>2, <3>1 DEF ReceiveResult
  <2> QED BY <2>1, <2>2
<1>4. PICK l \in {"failed", "provision"} :
        /\ life' = [life EXCEPT ![d] = l] /\ (l = "provision" => ~build[d].error)
        /\ \E p : phase' = [phase EXCEPT ![d] = p]
  BY <1>3
<1>b. PICK p : phase' = [phase EXCEPT ![d] = p]
  BY <1>4
<1>5. l = "provision" => Complete(d)
  <2>1. Progressing(d)
    BY Of
  <2>2. l = "provision" => ~build[d].error
    BY <1>4
  <2> QED BY <1>2, <2>1, <2>2 DEF Progressing
<1>6. l \in Lives \ {"none"} /\ l # "done"
  BY DEF Lives
<1>7. workspace[d] = {} \/ build[d].end \in {"raised", "writing", "killed"}
  BY <1>2, Answered
<1>8. Only(d) /\ Keeps(d) /\ Progressing(d)' /\ Tidy(d)' /\ Delivered(d)'
  <2>1. b = [build[d] EXCEPT !.at = "idle"]
    OBVIOUS
  <2>2. life' = [life EXCEPT ![d] = l] /\ phase' = [phase EXCEPT ![d] = p]
    BY <1>4, <1>b
  <2> HIDE DEF b
  <2> QED BY <1>1, <1>2, <1>5, <1>6, <1>7, <2>1, <2>2, Ships
<1> QED BY <1>2, <1>8, OneGoesOn

LEMMA LoseStreamStep == ASSUME ImageInv, NEW d \in Deployments, LoseStream(d) PROVE ImageInv'
<1>1. /\ build[d] \in BuildState /\ build' = [build EXCEPT ![d] = build[d]] /\ life[d] # "none"
      /\ UNCHANGED <<thisSecond, registry, record, installed, unsettled, workspace>>
      /\ life' = [life EXCEPT ![d] = "failed"] /\ \E p : phase' = [phase EXCEPT ![d] = p]
  BY Of DEF LoseStream, SaveResult, world
<1>2. build[d].at = "idle" => workspace[d] = {} \/ build[d].end \in {"raised", "writing", "killed"}
  BY Answered
<1>3. "failed" \in Lives \ {"none"}
  BY DEF Lives
<1>4. Only(d) /\ Keeps(d) /\ Progressing(d)' /\ Tidy(d)' /\ Delivered(d)'
  BY <1>1, <1>2, <1>3, Ships
<1> QED BY <1>1, <1>4, OneGoesOn

\* The record of a job that is provisioned from the images of d.
LEMMA ProvisionsFrom ==
    ASSUME ImageInv, NEW d \in Deployments, life[d] = "provision",
           NEW l \in {"done", "failed"}, life' = [life EXCEPT ![d] = l],
           phase' = [phase EXCEPT ![d] = IF l = "done" THEN Nothing ELSE @],
           NEW r, record' = [record EXCEPT ![JobOf(d)] = r],
           r # NoRecord => /\ LoadJobType(JobOf(d), installed) \in Types
                           /\ r = Provisioned(build[d].tag, LoadJobType(JobOf(d), installed)),
           UNCHANGED <<thisSecond, installed, registry, build, workspace, unsettled>>
    PROVE  ImageInv'
<1>1. JobOf(d) \in Members /\ Complete(d) /\ build[d].at = "idle" /\ life[d] # "none"
  BY Of DEF Progressing
<1>2. build[d] \in BuildState /\ build' = [build EXCEPT ![d] = build[d]]
  BY Of
<1>3. workspace[d] = {} \/ build[d].end \in {"raised", "writing", "killed"}
  BY <1>1, Answered
<1>4. l \in Lives \ {"none"}
  BY DEF Lives
<1>5. Only(d) /\ Keeps(d) /\ Progressing(d)' /\ Tidy(d)' /\ Delivered(d)'
  BY <1>1, <1>2, <1>3, <1>4, Ships
<1>6. \A e \in Deployments : life[e] # "none" => Keeps(e)
  BY <1>5 DEF Only, Keeps
<1>7. ImageTyped'
  BY <1>5 DEF ImageInv, ImageTyped, Only
<1>8. \A e \in Deployments : Progressing(e)' /\ Tidy(e)' /\ Delivered(e)'
  <2> TAKE e \in Deployments
  <2>1. CASE e # d
    BY <1>5, <2>1, OthersStay DEF Only
  <2> QED BY <1>5, <2>1
<1>9. Pushed'
  <2> SUFFICES ASSUME NEW image \in DOMAIN registry
               PROVE  image = <<image[1], image[2]>> /\ \E e \in Deployments : PushedBy(image, e)'
    BY DEF Pushed
  <2>1. PICK e \in Deployments : PushedBy(image, e)
    BY DEF ImageInv, Pushed
  <2>2. PushedBy(image, e)'
    BY <1>6, <2>1 DEF PushedBy, Keeps, JobOf
  <2> QED BY <2>2 DEF ImageInv, Pushed
<1>10. Recorded'
  <2> SUFFICES ASSUME NEW j \in Members, record'[j] # NoRecord
               PROVE  /\ record'[j].type \in Types /\ record'[j].containers = JobTypes[record'[j].type]
                      /\ \E e \in Deployments : ProvisionedBy(j, e)'
                      /\ j \notin unsettled => record'[j].type = LoadJobType(j, installed)
    BY DEF Recorded
  <2>1. CASE j = JobOf(d)
    <3>1. record'[j] = r
      BY <1>1, <2>1 DEF ImageInv, ImageTyped
    <3>2. /\ record'[j].tag = build[d].tag /\ record'[j].type = LoadJobType(JobOf(d), installed)
          /\ record'[j].type \in Types /\ record'[j].containers = JobTypes[record'[j].type]
      BY <3>1 DEF Provisioned
    <3>3. ProvisionedBy(j, d)'
      BY <1>1, <1>5, <2>1, <3>2 DEF ProvisionedBy, Keeps, JobOf, Complete
    <3> QED BY <2>1, <3>2, <3>3
  <2>2. CASE j # JobOf(d)
    <3>1. record'[j] = record[j]
      BY <2>2 DEF ImageInv, ImageTyped
    <3>2. PICK e \in Deployments : ProvisionedBy(j, e)
      BY <3>1 DEF ImageInv, Recorded
    <3>3. ProvisionedBy(j, e)'
      BY <1>6, <3>1, <3>2 DEF ProvisionedBy, Keeps, JobOf, Complete
    <3> QED BY <3>1, <3>3 DEF ImageInv, Recorded
  <2> QED BY <2>1, <2>2
<1> QED BY <1>7, <1>8, <1>9, <1>10 DEF ImageInv

LEMMA ProvisionStep == ASSUME ImageInv, NEW d \in Deployments, Provision(d) PROVE ImageInv'
<1>1. /\ life[d] = "provision" /\ life' = [life EXCEPT ![d] = "done"]
      /\ phase' = [phase EXCEPT ![d] = Nothing]
      /\ LoadJobType(JobOf(d), installed) \in Types
      /\ record' = [record EXCEPT ![JobOf(d)] = Provisioned(build[d].tag, LoadJobType(JobOf(d), installed))]
      /\ UNCHANGED <<thisSecond, installed, registry, build, workspace, unsettled>>
  BY DEF Provision, SaveResult, Types, world
<1> QED BY <1>1, ProvisionsFrom

LEMMA ProvisionFailsStep == ASSUME ImageInv, NEW d \in Deployments, ProvisionFails(d) PROVE ImageInv'
<1>1. /\ life[d] = "provision" /\ life' = [life EXCEPT ![d] = "failed"]
      /\ phase' = [phase EXCEPT ![d] = phase[d]]
      /\ UNCHANGED <<thisSecond, installed, registry, build, workspace, unsettled>>
  BY DEF ProvisionFails, SaveResult, world
<1>2. JobOf(d) \in Members
  BY <1>1, Of DEF Progressing
<1>3. CASE record' = record
  <2>1. build[d] \in BuildState /\ build' = [build EXCEPT ![d] = build[d]] /\ life[d] # "none"
    BY <1>1, Of
  <2>2. build[d].at = "idle" => workspace[d] = {} \/ build[d].end \in {"raised", "writing", "killed"}
    BY Answered
  <2>3. "failed" \in Lives \ {"none"}
    BY DEF Lives
  <2>4. Only(d) /\ Keeps(d) /\ Progressing(d)' /\ Tidy(d)' /\ Delivered(d)'
    BY <1>1, <2>1, <2>2, <2>3, Ships
  <2> QED BY <1>1, <1>3, <2>4, OneGoesOn
<1>4. CASE LoadJobType(JobOf(d), installed) \in Types
           /\ \E r \in {NoRecord, Provisioned(build[d].tag, LoadJobType(JobOf(d), installed))} :
                 record' = [record EXCEPT ![JobOf(d)] = r]
  BY <1>1, <1>4, ProvisionsFrom
<1> QED BY <1>3, <1>4 DEF ProvisionFails, Types

LEMMA ReprovisionStep == ASSUME ImageInv, NEW j \in Members, Reprovision(j) PROVE ImageInv'
<1>1. /\ record[j] # NoRecord /\ LoadJobType(j, installed) \in Types
      /\ record' = [record EXCEPT ![j] = Provisioned(record[j].tag, LoadJobType(j, installed))]
      /\ UNCHANGED <<thisSecond, installed, registry, build, workspace, life, phase, unsettled>>
  BY DEF Reprovision, Types, world
<1>2. ImageTyped'
  BY <1>1 DEF ImageInv, ImageTyped
<1>3. \A e \in Deployments : Progressing(e)' /\ Tidy(e)' /\ Delivered(e)'
  BY <1>1, OthersStay
<1>4. Pushed'
  <2> SUFFICES ASSUME NEW image \in DOMAIN registry
               PROVE  image = <<image[1], image[2]>> /\ \E e \in Deployments : PushedBy(image, e)'
    BY <1>1 DEF Pushed
  <2>1. PICK e \in Deployments : PushedBy(image, e)
    BY DEF ImageInv, Pushed
  <2>2. PushedBy(image, e)'
    BY <1>1, <2>1 DEF PushedBy, JobOf
  <2> QED BY <2>2 DEF ImageInv, Pushed
<1>5. Recorded'
  <2> SUFFICES ASSUME NEW i \in Members, record'[i] # NoRecord
               PROVE  /\ record'[i].type \in Types /\ record'[i].containers = JobTypes[record'[i].type]
                      /\ \E e \in Deployments : ProvisionedBy(i, e)'
                      /\ i \notin unsettled => record'[i].type = LoadJobType(i, installed)
    BY <1>1 DEF Recorded
  <2>1. record[i] # NoRecord /\ record'[i].tag = record[i].tag
    BY <1>1 DEF ImageInv, ImageTyped, Provisioned
  <2>2. PICK e \in Deployments : ProvisionedBy(i, e)
    BY <2>1 DEF ImageInv, Recorded
  <2>3. ProvisionedBy(i, e)'
    BY <1>1, <2>1, <2>2 DEF ProvisionedBy, JobOf, Complete
  <2>4. CASE i = j
    BY <1>1, <2>3, <2>4 DEF ImageInv, ImageTyped, Provisioned
  <2>5. CASE i # j
    <3>1. record'[i] = record[i]
      BY <1>1, <2>5 DEF ImageInv, ImageTyped
    <3> QED BY <2>1, <2>3, <3>1 DEF ImageInv, Recorded
  <2> QED BY <2>4, <2>5
<1> QED BY <1>2, <1>3, <1>4, <1>5 DEF ImageInv

-----------------------------------------------------------------------------
(* The steps of the builder                                                *)

LEMMA BuilderGoesOn ==
    ASSUME ImageInv, NEW d \in Deployments, Building(d),
           NEW b \in BuildState, b.job = build[d].job, b.tag = build[d].tag, b.second = build[d].second,
           b.type = build[d].type, b.index = build[d].index,
           build' = [build EXCEPT ![d] = b], UNCHANGED life,
           NEW w \in SUBSET {"source", "secrets"}, workspace' = [workspace EXCEPT ![d] = w],
           NEW p, phase' = [phase EXCEPT ![d] = p],
           UNCHANGED <<thisSecond, registry, record, installed>>, unsettled \subseteq unsettled',
           b.at \notin {"idle", "fetch"}, b.at = "prepare" => build[d].type = NoVersion,
           b.at \in {"base", "template", "secrets", "docker", "push"} =>
               build[d].type \in Types /\ build[d].index < JobTypes[build[d].type],
           b.at \in {"cleanup", "finalize", "answered"} /\ ~b.error => Complete(d),
           b.end # Nothing => b.at = "answered", b.at = "finalize" => w = {}, "secrets" \in w => b.at = "docker" \/ b.end = "writing",
           w # {} /\ b.at = "answered" => b.end \in {"raised", "writing", "killed"}
    PROVE  ImageInv'
<1>a. Progressing(d) /\ Delivered(d) /\ life[d] # "none" /\ life[d] \notin {"provision", "done"}
  BY Of DEF Building, Progressing
<1>1. build'[d] = b /\ life'[d] = life[d] /\ workspace'[d] = w /\ phase'[d] = p
  BY Of
<1>2. Only(d)
  <2>1. build' \in [Deployments -> BuildState] /\ \A e \in Deployments \ {d} : build'[e] = build[e]
    BY Of
  <2>2. life' \in [Deployments -> Lives] /\ \A e \in Deployments \ {d} : life'[e] = life[e]
    BY Of
  <2>3. /\ workspace' \in [Deployments -> SUBSET {"source", "secrets"}]
        /\ \A e \in Deployments \ {d} : workspace'[e] = workspace[e]
    BY Of
  <2>4. phase' = [e \in Deployments |-> phase'[e]] /\ \A e \in Deployments \ {d} : phase'[e] = phase[e]
    BY Of
  <2> QED BY <2>1, <2>2, <2>3, <2>4 DEF Only
<1>3. Keeps(d)
  BY <1>1, <1>a DEF Keeps
<1>4. Progressing(d)'
  BY <1>1, <1>a DEF Progressing, Complete, JobOf
<1>5. Tidy(d)'
  BY <1>1, <1>a DEF Tidy, Building
<1>6. Delivered(d)'
  BY <1>1, <1>a DEF Delivered, JobOf
<1> QED BY <1>2, <1>3, <1>4, <1>5, <1>6, OneGoesOn

\* What the builder knows at its steps.
LEMMA AtStep ==
    ASSUME ImageInv, NEW d \in Deployments, Building(d)
    PROVE  /\ build[d] \in BuildState /\ build[d].end = Nothing /\ workspace[d] \in SUBSET {"source", "secrets"}
           /\ workspace = [workspace EXCEPT ![d] = workspace[d]] /\ phase = [phase EXCEPT ![d] = phase[d]]
           /\ "secrets" \in workspace[d] => build[d].at = "docker"
           /\ build[d].at \in {"fetch", "prepare"} => build[d].type = NoVersion
           /\ build[d].at \in {"base", "template", "secrets", "docker", "push"} =>
                  build[d].type \in Types /\ build[d].index < JobTypes[build[d].type]
           /\ build[d].at \in {"cleanup", "finalize"} /\ ~build[d].error => Complete(d)
           /\ build[d].at = "finalize" => workspace[d] = {}
<1>1. Progressing(d) /\ Tidy(d)
  BY Of
<1>2. build[d].end = Nothing
  BY <1>1 DEF Tidy
<1> QED BY <1>1, <1>2, Of DEF Progressing, Tidy, Nothing

\* An exception ends the build.
LEMMA Raises ==
    ASSUME ImageInv, NEW d \in Deployments, Building(d), NEW end \in {"raised", "writing"}, EndBy(d, end), UNCHANGED life,
           NEW w \in SUBSET {"source", "secrets"}, workspace' = [workspace EXCEPT ![d] = w],
           "secrets" \in w => end = "writing",
           NEW p, phase' = [phase EXCEPT ![d] = p],
           UNCHANGED <<thisSecond, registry, record, installed>>, unsettled \subseteq unsettled'
    PROVE  ImageInv'
<1> DEFINE b == [build[d] EXCEPT !.at = "answered", !.error = TRUE, !.end = end]
<1>1. /\ b \in BuildState /\ b.job = build[d].job /\ b.tag = build[d].tag /\ b.second = build[d].second
      /\ b.type = build[d].type /\ b.index = build[d].index /\ b.at = "answered" /\ b.error = TRUE /\ b.end = end
  BY Of DEF BuildState, Points
<1>2. build' = [build EXCEPT ![d] = b]
  BY Of DEF EndBy
<1> HIDE DEF b
<1> QED BY <1>1, <1>2, BuilderGoesOn DEF Nothing

\* The build goes on.
LEMMA GoesTo ==
    ASSUME ImageInv, NEW d \in Deployments, Building(d),
           NEW to \in {"prepare", "template", "secrets", "docker", "push", "finalize", "answered"}, GoTo(d, to), UNCHANGED life,
           NEW w \in SUBSET {"source", "secrets"}, workspace' = [workspace EXCEPT ![d] = w],
           NEW p, phase' = [phase EXCEPT ![d] = p],
           UNCHANGED <<thisSecond, registry, record, installed, unsettled>>,
           \/ to = "prepare" /\ build[d].at = "fetch"
           \/ to \in {"template", "secrets", "docker", "push"} /\ build[d].at \in {"base", "template", "secrets", "docker", "push"}
           \/ to \in {"finalize", "answered"} /\ build[d].at \in {"cleanup", "finalize"} /\ w = {},
           "secrets" \in w => to = "docker"
    PROVE  ImageInv'
<1> DEFINE b == [build[d] EXCEPT !.at = to]
<1>1. /\ b \in BuildState /\ b.job = build[d].job /\ b.tag = build[d].tag /\ b.second = build[d].second
      /\ b.type = build[d].type /\ b.index = build[d].index /\ b.at = to /\ b.error = build[d].error /\ b.end = Nothing
  BY AtStep DEF BuildState, Points
<1>2. build' = [build EXCEPT ![d] = b]
  BY Of DEF GoTo
<1> HIDE DEF b
<1>3. /\ to = "prepare" => build[d].type = NoVersion
      /\ to \in {"template", "secrets", "docker", "push"} =>
             build[d].type \in Types /\ build[d].index < JobTypes[build[d].type]
      /\ to \in {"finalize", "answered"} /\ ~build[d].error => Complete(d)
      /\ to \in {"finalize", "answered"} => w = {}
  BY AtStep
<1> QED BY <1>1, <1>2, <1>3, BuilderGoesOn

\* A command failed.
LEMMA FailsAt ==
    ASSUME ImageInv, NEW d \in Deployments, Building(d), CommandFails(d), UNCHANGED life,
           NEW w \in SUBSET {"source"}, workspace' = [workspace EXCEPT ![d] = w],
           NEW p, phase' = [phase EXCEPT ![d] = p],
           UNCHANGED <<thisSecond, registry, record, installed, unsettled>>
    PROVE  ImageInv'
<1> DEFINE b == [build[d] EXCEPT !.at = "cleanup", !.error = TRUE]
<1>1. /\ b \in BuildState /\ b.job = build[d].job /\ b.tag = build[d].tag /\ b.second = build[d].second
      /\ b.type = build[d].type /\ b.index = build[d].index /\ b.at = "cleanup" /\ b.error = TRUE /\ b.end = Nothing
  <2>1. build[d] \in BuildState /\ build[d].end = Nothing
    BY AtStep
  <2> QED BY <2>1 DEF BuildState, Points
<1>2. build' = [build EXCEPT ![d] = b]
  BY Of DEF CommandFails
<1> HIDE DEF b
<1>3. w \in SUBSET {"source", "secrets"} /\ "secrets" \notin w
  OBVIOUS
<1> QED BY <1>1, <1>2, <1>3, BuilderGoesOn

LEMMA Rests ==
    ASSUME ImageInv, NEW d \in Deployments
    PROVE  /\ workspace = [workspace EXCEPT ![d] = workspace[d]] /\ phase = [phase EXCEPT ![d] = phase[d]]
           /\ workspace[d] \in SUBSET {"source", "secrets"}
           /\ "secrets" \notin workspace[d] => workspace[d] \in SUBSET {"source"}
BY Of

LEMMA FetchSourceStep == ASSUME ImageInv, NEW d \in Deployments, FetchSource(d) PROVE ImageInv'
<1>1. /\ build[d].at = "fetch" /\ Building(d) /\ UNCHANGED <<thisSecond, registry, record, installed, unsettled, life>>
      /\ phase' = [phase EXCEPT ![d] = "fetching_the_source_code"]
  BY DEF FetchSource, Doing, Enter, Building, world
<1>2. CASE GoTo(d, "prepare") /\ workspace' = [workspace EXCEPT ![d] = {"source"}]
  <2>1. {"source"} \in SUBSET {"source", "secrets"} /\ "secrets" \notin {"source"}
    OBVIOUS
  <2> QED BY <1>1, <1>2, <2>1, GoesTo
<1>3. CASE Raise(d) /\ \E s \in SUBSET {"source"} : workspace' = [workspace EXCEPT ![d] = s]
  BY <1>1, <1>3, Raises DEF Raise
<1> QED BY <1>2, <1>3 DEF FetchSource

LEMMA BuildBaseImageStep == ASSUME ImageInv, NEW d \in Deployments, BuildBaseImage(d) PROVE ImageInv'
<1>1. /\ build[d].at = "base" /\ Building(d) /\ UNCHANGED <<thisSecond, registry, record, installed, unsettled, life, workspace>>
      /\ phase' = [phase EXCEPT ![d] = "building_image"]
  BY DEF BuildBaseImage, Doing, Enter, Building, world
<1>2. "secrets" \notin workspace[d]
  BY <1>1, AtStep
<1>3. /\ workspace' = [workspace EXCEPT ![d] = workspace[d]] /\ workspace[d] \in SUBSET {"source", "secrets"}
      /\ workspace[d] \in SUBSET {"source"}
  BY <1>1, <1>2, Rests
<1>4. CASE GoTo(d, "template")
  BY <1>1, <1>2, <1>3, <1>4, GoesTo
<1>5. CASE Raise(d)
  BY <1>1, <1>3, <1>5, Raises DEF Raise
<1> QED BY <1>4, <1>5 DEF BuildBaseImage

LEMMA TemplateDockerfileStep == ASSUME ImageInv, NEW d \in Deployments, TemplateDockerfile(d) PROVE ImageInv'
<1>1. /\ build[d].at = "template" /\ Building(d)
      /\ UNCHANGED <<thisSecond, registry, record, installed, unsettled, life, workspace, phase>>
  BY DEF TemplateDockerfile, Doing, Building, world
<1>2. "secrets" \notin workspace[d]
  BY <1>1, AtStep
<1>3. /\ workspace' = [workspace EXCEPT ![d] = workspace[d]] /\ workspace[d] \in SUBSET {"source", "secrets"}
      /\ workspace[d] \in SUBSET {"source"} /\ phase' = [phase EXCEPT ![d] = phase[d]]
  BY <1>1, <1>2, Rests
<1>4. CASE GoTo(d, "secrets")
  BY <1>1, <1>2, <1>3, <1>4, GoesTo
<1>5. CASE Raise(d)
  BY <1>1, <1>3, <1>5, Raises DEF Raise
<1> QED BY <1>4, <1>5 DEF TemplateDockerfile

LEMMA WriteSecretsStep == ASSUME ImageInv, NEW d \in Deployments, WriteSecrets(d) PROVE ImageInv'
<1>1. /\ build[d].at = "secrets" /\ Building(d)
      /\ UNCHANGED <<thisSecond, registry, record, installed, unsettled, life, phase>>
  BY DEF WriteSecrets, Doing, Building, world
<1>2. "secrets" \notin workspace[d]
  BY <1>1, AtStep
<1>3. workspace[d] \in SUBSET {"source"} /\ phase' = [phase EXCEPT ![d] = phase[d]]
  BY <1>1, <1>2, Rests
<1>4. CASE workspace' = [workspace EXCEPT ![d] = @ \cup {"secrets"}] /\ GoTo(d, "docker")
  <2> DEFINE w == workspace[d] \cup {"secrets"}
  <2>1. w \in SUBSET {"source", "secrets"} /\ workspace' = [workspace EXCEPT ![d] = w]
    BY <1>3, <1>4
  <2> HIDE DEF w
  <2> QED BY <1>1, <1>3, <1>4, <2>1, GoesTo
<1>5. CASE Raise(d) /\ UNCHANGED workspace
  <2>1. workspace' = [workspace EXCEPT ![d] = workspace[d]]
    BY <1>5, Rests
  <2> QED BY <1>1, <1>3, <1>5, <2>1, Raises DEF Raise
<1>6. CASE EndBy(d, "writing") /\ workspace' = [workspace EXCEPT ![d] = @ \cup {"secrets"}]
  <2> DEFINE w == workspace[d] \cup {"secrets"}
  <2>1. w \in SUBSET {"source", "secrets"} /\ workspace' = [workspace EXCEPT ![d] = w]
    BY <1>3, <1>6
  <2> HIDE DEF w
  <2> QED BY <1>1, <1>3, <1>6, <2>1, Raises
<1> QED BY <1>4, <1>5, <1>6 DEF WriteSecrets

LEMMA BuildContainerImageStep == ASSUME ImageInv, NEW d \in Deployments, BuildContainerImage(d) PROVE ImageInv'
<1>1. /\ build[d].at = "docker" /\ Building(d)
      /\ UNCHANGED <<thisSecond, registry, record, installed, unsettled, life, phase>>
      /\ workspace' = [workspace EXCEPT ![d] = workspace[d] \ {"secrets"}]
  BY DEF BuildContainerImage, Doing, Building, world
<1>2. phase' = [phase EXCEPT ![d] = phase[d]]
  BY <1>1, Rests
<1>3. workspace[d] \ {"secrets"} \in SUBSET {"source"} /\ workspace[d] \ {"secrets"} \in SUBSET {"source", "secrets"}
      /\ "secrets" \notin workspace[d] \ {"secrets"}
  BY Rests
<1>4. CASE GoTo(d, "push")
  BY <1>1, <1>2, <1>3, <1>4, GoesTo
<1>5. CASE CommandFails(d)
  BY <1>1, <1>2, <1>3, <1>5, FailsAt
<1>6. CASE Raise(d)
  BY <1>1, <1>2, <1>3, <1>6, Raises DEF Raise
<1> QED BY <1>4, <1>5, <1>6 DEF BuildContainerImage

LEMMA CleanUpWorkspaceStep == ASSUME ImageInv, NEW d \in Deployments, CleanUpWorkspace(d) PROVE ImageInv'
<1>1. /\ build[d].at = "cleanup" /\ Building(d)
      /\ UNCHANGED <<thisSecond, registry, record, installed, unsettled, life>>
      /\ phase' = [phase EXCEPT ![d] = "cleaning_up_the_workspace"]
  BY DEF CleanUpWorkspace, Doing, Building, Enter, world
<1>2. CASE GoTo(d, "finalize") /\ workspace' = [workspace EXCEPT ![d] = {}]
  <2>1. {} \in SUBSET {"source", "secrets"} /\ "secrets" \notin {}
    OBVIOUS
  <2> QED BY <1>1, <1>2, <2>1, GoesTo
<1>3. CASE Raise(d) /\ UNCHANGED workspace
  <2>1. "secrets" \notin workspace[d]
    BY <1>1, AtStep
  <2>2. workspace' = [workspace EXCEPT ![d] = workspace[d]] /\ workspace[d] \in SUBSET {"source"}
    BY <1>3, <2>1, Rests
  <2> QED BY <1>1, <1>3, <2>2, Raises DEF Raise
<1> QED BY <1>2, <1>3 DEF CleanUpWorkspace

LEMMA FinalizeStep == ASSUME ImageInv, NEW d \in Deployments, Finalize(d) PROVE ImageInv'
<1>1. /\ build[d].at = "finalize" /\ Building(d)
      /\ UNCHANGED <<thisSecond, registry, record, installed, unsettled, life, workspace>>
      /\ phase' = [phase EXCEPT ![d] = "finalizing_the_build"]
  BY DEF Finalize, Doing, Building, Enter, world
<1>2. workspace[d] = {} /\ "secrets" \notin workspace[d]
  BY <1>1, AtStep
<1>3. /\ workspace' = [workspace EXCEPT ![d] = workspace[d]] /\ workspace[d] \in SUBSET {"source", "secrets"}
      /\ workspace[d] \in SUBSET {"source"}
  BY <1>1, <1>2, Rests
<1>4. CASE GoTo(d, "answered")
  BY <1>1, <1>2, <1>3, <1>4, GoesTo
<1>5. CASE Raise(d)
  BY <1>1, <1>3, <1>5, Raises DEF Raise
<1> QED BY <1>4, <1>5 DEF Finalize

LEMMA DropResultStep == ASSUME ImageInv, NEW d \in Deployments, DropResult(d) PROVE ImageInv'
<1> DEFINE b == [build[d] EXCEPT !.at = "idle"]
<1>1. b \in BuildState /\ build' = [build EXCEPT ![d] = b] /\ b.at = "idle"
  BY Of DEF DropResult, GoTo, BuildState, Points
<1>2. /\ UNCHANGED <<thisSecond, registry, record, installed, unsettled, workspace, life, phase>>
      /\ build[d].at = "answered" /\ life[d] # "none" /\ life[d] \notin {"provision", "done"}
  BY Of DEF DropResult, Doing, Progressing, world
<1>3. /\ life' = [life EXCEPT ![d] = life[d]] /\ phase' = [phase EXCEPT ![d] = phase[d]]
      /\ life[d] \in Lives \ {"none"}
  BY <1>2, Of
<1>4. workspace[d] = {} \/ build[d].end \in {"raised", "writing", "killed"}
  BY <1>2, Answered
<1>5. Only(d) /\ Keeps(d) /\ Progressing(d)' /\ Tidy(d)' /\ Delivered(d)'
  <2>1. b = [build[d] EXCEPT !.at = "idle"]
    OBVIOUS
  <2>2. life[d] # "done" /\ life[d] # "provision"
    BY <1>2
  <2> HIDE DEF b
  <2> QED BY <1>1, <1>2, <1>3, <1>4, <2>1, <2>2, Ships
<1> QED BY <1>2, <1>5, OneGoesOn

\* A step of the builder that leaves the files of d alone.
LEMMA OneBuild ==
    ASSUME ImageInv, NEW d \in Deployments, NEW b \in BuildState, build' = [build EXCEPT ![d] = b],
           UNCHANGED <<life, workspace>>, NEW p, phase' = [phase EXCEPT ![d] = p]
    PROVE  Only(d) /\ build'[d] = b /\ life'[d] = life[d] /\ workspace'[d] = workspace[d]
<1>1. build' \in [Deployments -> BuildState] /\ build'[d] = b /\ \A e \in Deployments \ {d} : build'[e] = build[e]
  BY Of
<1>2. phase' = [e \in Deployments |-> phase'[e]] /\ \A e \in Deployments \ {d} : phase'[e] = phase[e]
  BY Of
<1>3. life' \in [Deployments -> Lives] /\ workspace' \in [Deployments -> SUBSET {"source", "secrets"}]
  BY Of
<1> QED BY <1>1, <1>2, <1>3 DEF Only

\* The job type that the builder takes is the one Lifecycle would take, or the job is marked.
LEMMA PrepareBuilderStep == ASSUME ImageInv, NEW d \in Deployments, PrepareBuilder(d) PROVE ImageInv'
<1> DEFINE type == LoadJobType(JobOf(d), loaded)
<1>1. /\ build[d].at = "prepare" /\ Building(d) /\ UNCHANGED <<thisSecond, registry, record, installed, life, workspace>>
      /\ phase' = [phase EXCEPT ![d] = "preparing_job_type_builder"] /\ unsettled \subseteq unsettled'
      /\ type # LoadJobType(JobOf(d), installed) => JobOf(d) \in unsettled'
  BY DEF PrepareBuilder, Doing, Enter, Building, world
<1>2. "secrets" \notin workspace[d]
  BY <1>1, AtStep
<1>3. /\ workspace' = [workspace EXCEPT ![d] = workspace[d]] /\ workspace[d] \in SUBSET {"source", "secrets"}
      /\ workspace[d] \in SUBSET {"source"}
  BY <1>1, <1>2, Rests
<1>4. CASE Raise(d)
  BY <1>1, <1>3, <1>4, Raises DEF Raise
<1>5. CASE type \in Types /\ build' = [build EXCEPT ![d].at = "base", ![d].type = type]
  <2> HIDE DEF type
  <2>1. build[d] \in BuildState /\ build[d].type = NoVersion /\ build[d].index = 0 /\ life[d] # "none"
        /\ build[d].end = Nothing /\ life[d] \notin {"provision", "done"}
    BY <1>1, AtStep, Of DEF Progressing
  <2> DEFINE b == [build[d] EXCEPT !.at = "base", !.type = type]
  <2>2. /\ b \in BuildState /\ b.job = build[d].job /\ b.tag = build[d].tag /\ b.second = build[d].second
        /\ b.type = type /\ b.index = 0 /\ b.at = "base" /\ b.end = Nothing
    BY <1>5, <2>1 DEF BuildState, Points, TypeOrNone
  <2>3. build' = [build EXCEPT ![d] = b]
    BY <1>5, Of
  <2> HIDE DEF b
  <2>4. Only(d) /\ build'[d] = b /\ life'[d] = life[d] /\ workspace'[d] = workspace[d]
    BY <1>1, <2>2, <2>3, OneBuild
  <2>5. Keeps(d)
    BY <2>1, <2>2, <2>4, NoType DEF Keeps
  <2>6. Progressing(d)'
    <3>1. type # NoVersion /\ 0 < JobTypes[type] /\ JobOf(d) \in Members
      BY <1>5, <2>1, NoType, JobTypesHaveImages, Of DEF Types, Progressing
    <3>2. b.tag = b.second
      BY <2>2, Of DEF Progressing
    <3> QED BY <1>5, <2>1, <2>2, <2>4, <3>1, <3>2 DEF Progressing, JobOf
  <2>7. Tidy(d)'
    BY <1>2, <2>1, <2>2, <2>4 DEF Tidy, Building
  <2>8. Delivered(d)'
    <3>1. JobOf(d)' = JobOf(d)
      BY <2>2, <2>4 DEF JobOf
    <3>2. type # LoadJobType(JobOf(d), installed) => JobOf(d) \in unsettled'
      BY <1>1 DEF type
    <3> QED BY <1>1, <2>2, <2>4, <3>1, <3>2 DEF Delivered
  <2> QED BY <1>1, <2>4, <2>5, <2>6, <2>7, <2>8, OneGoesOn
<1> QED BY <1>4, <1>5 DEF PrepareBuilder, Types

LEMMA PushContainerImageStep == ASSUME ImageInv, NEW d \in Deployments, PushContainerImage(d) PROVE ImageInv'
<1>1. /\ build[d].at = "push" /\ Building(d) /\ UNCHANGED <<thisSecond, record, installed, unsettled, life, workspace>>
      /\ phase' = [phase EXCEPT ![d] = "pushing_image"]
  BY DEF PushContainerImage, Doing, Enter, Building, world
<1>2. /\ "secrets" \notin workspace[d] /\ build[d] \in BuildState /\ build[d].end = Nothing
      /\ build[d].type \in Types /\ build[d].index < JobTypes[build[d].type] /\ life[d] # "none"
      /\ life[d] \notin {"provision", "done"}
  BY <1>1, AtStep, Of DEF Progressing
<1>3. /\ workspace' = [workspace EXCEPT ![d] = workspace[d]] /\ workspace[d] \in SUBSET {"source", "secrets"}
      /\ workspace[d] \in SUBSET {"source"}
  BY <1>1, <1>2, Rests
<1>4. CASE CommandFails(d) /\ UNCHANGED registry
  BY <1>1, <1>3, <1>4, FailsAt
<1>5. CASE Raise(d) /\ UNCHANGED registry
  BY <1>1, <1>3, <1>5, Raises DEF Raise
<1> DEFINE index == build[d].index + 1
           image == <<build[d].tag, build[d].index>>
           pushed == [job |-> JobOf(d), type |-> build[d].type]
           to == IF index < JobTypes[build[d].type] THEN "base" ELSE "cleanup"
<1>6. CASE /\ registry' = [n \in DOMAIN registry \cup {image} |-> IF n = image THEN pushed ELSE registry[n]]
           /\ build' = [build EXCEPT ![d].index = index, ![d].at = to]
  <2> DEFINE b == [build[d] EXCEPT !.index = index, !.at = to]
  <2>0. index \in Nat /\ to \in {"base", "cleanup"}
    BY <1>2 DEF BuildState
  <2>1. /\ b \in BuildState /\ b.job = build[d].job /\ b.tag = build[d].tag /\ b.second = build[d].second
        /\ b.type = build[d].type /\ b.index = index /\ b.at = to /\ b.end = Nothing
        /\ index \in Nat /\ to \in {"base", "cleanup"}
    <3> HIDE DEF index, to
    <3> QED BY <1>2, <2>0 DEF BuildState, Points
  <2>2. build' = [build EXCEPT ![d] = b]
    BY <1>6, Of
  <2>3. /\ to = "base" => index < JobTypes[build[d].type]
        /\ index <= JobTypes[build[d].type]
        /\ to = "cleanup" => index = JobTypes[build[d].type]
    BY <1>2, JobTypesHaveImages DEF BuildState, Types
  <2>4. /\ DOMAIN registry' = DOMAIN registry \cup {image} /\ registry'[image] = pushed
        /\ \A other \in DOMAIN registry \ {image} : registry'[other] = registry[other]
    <3>1. registry' = [n \in DOMAIN registry \cup {image} |-> IF n = image THEN pushed ELSE registry[n]]
      BY <1>6
    <3> HIDE DEF image, pushed
    <3> QED BY <3>1
  <2>5. pushed.job = JobOf(d) /\ pushed.type = build[d].type /\ image = <<image[1], image[2]>>
        /\ image[1] = build[d].tag /\ image[2] = build[d].index /\ build[d].index \in Nat /\ index = build[d].index + 1
    BY <1>2 DEF BuildState
  <2> HIDE DEF index, image, pushed, to, b
  <2>6. Only(d) /\ build'[d] = b /\ life'[d] = life[d] /\ workspace'[d] = workspace[d]
    BY <1>1, <2>1, <2>2, OneBuild
  <2>7. ImageTyped'
    BY <1>1, <2>6 DEF ImageInv, ImageTyped, Only
  <2>8. \A e \in Deployments \ {d} : Progressing(e)' /\ Tidy(e)' /\ Delivered(e)'
    BY <1>1, <2>4, <2>6, OthersStay DEF Only
  <2>9. Progressing(d)'
    <3>1. Progressing(d) /\ build[d].type # NoVersion
      BY <1>2, Of, NoType
    <3> QED BY <1>2, <2>1, <2>3, <2>6, <3>1 DEF Progressing, Complete, JobOf
  <2>10. Tidy(d)'
    BY <1>2, <2>1, <2>6 DEF Tidy, Building
  <2>11. Delivered(d)'
    <3>1. Delivered(d) /\ JobOf(d)' = JobOf(d)
      BY <2>1, <2>6, Of DEF JobOf
    <3>2. \A i \in Nat : i < index => <<build[d].tag, i>> \in DOMAIN registry'
      <4> SUFFICES ASSUME NEW i \in Nat, i < index PROVE <<build[d].tag, i>> \in DOMAIN registry'
        OBVIOUS
      <4>1. CASE i = build[d].index
        BY <2>4, <4>1 DEF image
      <4>2. CASE i < build[d].index
        BY <2>4, <3>1, <4>2 DEF Delivered
      <4> QED BY <2>5, <4>1, <4>2
    <3> QED BY <1>1, <2>1, <2>6, <3>1, <3>2 DEF Delivered
  <2>12. Pushed'
    <3> SUFFICES ASSUME NEW other \in DOMAIN registry'
                 PROVE  other = <<other[1], other[2]>> /\ \E e \in Deployments : PushedBy(other, e)'
      BY DEF Pushed
    <3>1. CASE other = image
      <4>1. JobOf(d)' = JobOf(d) /\ build'[d].type = build[d].type /\ build'[d].index = index /\ build'[d].tag = build[d].tag
        BY <2>1, <2>6 DEF JobOf
      <4>2. other[2] < index /\ other[2] \in Nat /\ other[1] = build[d].tag /\ other = <<other[1], other[2]>>
        BY <2>5, <3>1
      <4>3. registry'[other].job = JobOf(d) /\ registry'[other].type = build[d].type
        BY <2>4, <2>5, <3>1
      <4>4. PushedBy(other, d)'
        BY <1>1, <1>2, <2>3, <2>6, <4>1, <4>2, <4>3 DEF PushedBy
      <4> QED BY <4>2, <4>4
    <3>2. CASE other # image
      <4>1. other \in DOMAIN registry /\ registry'[other] = registry[other] /\ other = <<other[1], other[2]>>
        BY <2>4, <3>2 DEF ImageInv, Pushed
      <4>2. PICK e \in Deployments : PushedBy(other, e)
        BY <4>1 DEF ImageInv, Pushed
      <4>3. PushedBy(other, e)'
        <5>1. CASE e = d
          <6>1. /\ life[d] # "none" /\ JobOf(d) = registry[other].job /\ build[d].type = registry[other].type
                /\ build[d].tag = other[1] /\ other[2] \in Nat /\ other[2] < build[d].index
            BY <4>2, <5>1 DEF PushedBy
          <6>2. other[2] < index
            BY <2>5, <6>1
          <6>3. JobOf(d)' = JobOf(d)
            BY <2>1, <2>6 DEF JobOf
          <6> QED BY <1>1, <1>2, <2>1, <2>3, <2>6, <4>1, <5>1, <6>1, <6>2, <6>3 DEF PushedBy
        <5>2. CASE e # d
          BY <2>6, <4>1, <4>2, <5>2 DEF PushedBy, JobOf, Only
        <5> QED BY <5>1, <5>2
      <4> QED BY <4>1, <4>3
    <3> QED BY <3>1, <3>2
  <2>13. Recorded'
    <3> SUFFICES ASSUME NEW j \in Members, record[j] # NoRecord
                 PROVE  /\ record[j].type \in Types /\ record[j].containers = JobTypes[record[j].type]
                        /\ \E e \in Deployments : ProvisionedBy(j, e)'
                        /\ j \notin unsettled => record[j].type = LoadJobType(j, installed)
      BY <1>1 DEF Recorded
    <3>1. PICK e \in Deployments : ProvisionedBy(j, e)
      BY DEF ImageInv, Recorded
    <3>2. e # d
      <4>1. build[d].index # JobTypes[build[d].type]
        BY <1>2, JobTypesHaveImages DEF BuildState, Types
      <4> QED BY <3>1, <4>1 DEF ProvisionedBy, Complete
    <3>3. ProvisionedBy(j, e)'
      BY <1>1, <2>6, <3>1, <3>2 DEF ProvisionedBy, Complete, JobOf, Only
    <3> QED BY <3>3 DEF ImageInv, Recorded
  <2> QED BY <2>7, <2>8, <2>9, <2>10, <2>11, <2>12, <2>13 DEF ImageInv
<1> QED BY <1>4, <1>5, <1>6 DEF PushContainerImage

-----------------------------------------------------------------------------
(* The steps of the world around                                           *)

LEMMA KillBuilderStep == ASSUME ImageInv, KillBuilder PROVE ImageInv'
<1>1. /\ UNCHANGED <<thisSecond, registry, record, installed, unsettled, workspace, phase>>
      /\ build' = [d \in Deployments |-> IF Building(d) THEN [build[d] EXCEPT !.at = "idle", !.end = "killed"] ELSE build[d]]
      /\ life' = [d \in Deployments |-> IF Building(d) /\ life[d] = "waiting" THEN "failed" ELSE life[d]]
  BY DEF KillBuilder, world
<1>2. ASSUME NEW d \in Deployments, Building(d)
      PROVE  /\ build'[d] \in BuildState /\ life'[d] \in Lives /\ Keeps(d)
             /\ Progressing(d)' /\ Tidy(d)' /\ Delivered(d)'
  <2>1. /\ build[d] \in BuildState /\ life[d] \in {"waiting", "failed"} /\ Progressing(d) /\ Delivered(d)
    BY <1>2, Of DEF Building, Progressing, Lives
  <2> DEFINE b == [build[d] EXCEPT !.at = "idle", !.end = "killed"]
  <2>2. /\ b \in BuildState /\ b.job = build[d].job /\ b.tag = build[d].tag /\ b.second = build[d].second
        /\ b.type = build[d].type /\ b.index = build[d].index /\ b.at = "idle" /\ b.end = "killed"
    BY <2>1 DEF BuildState, Points
  <2>3. build'[d] = b /\ life'[d] = "failed" /\ workspace'[d] = workspace[d]
    BY <1>1, <1>2, <2>1
  <2> HIDE DEF b
  <2>4. Keeps(d) /\ "failed" \in Lives
    BY <2>2, <2>3 DEF Keeps, Lives
  <2>5. Progressing(d)'
    BY <2>1, <2>2, <2>3 DEF Progressing, JobOf
  <2>6. Tidy(d)'
    BY <2>2, <2>3 DEF Tidy, Building
  <2>7. Delivered(d)'
    <3>1. /\ JobOf(d)' = JobOf(d) /\ build'[d].type = build[d].type /\ build'[d].index = build[d].index
          /\ build'[d].tag = build[d].tag
      BY <2>2, <2>3 DEF JobOf
    <3> QED BY <1>1, <2>1, <3>1 DEF Delivered
  <2> QED BY <2>2, <2>3, <2>4, <2>5, <2>6, <2>7
<1>3. ASSUME NEW d \in Deployments, ~Building(d)
      PROVE  /\ build'[d] \in BuildState /\ life'[d] \in Lives /\ (life[d] # "none" => Keeps(d))
             /\ Progressing(d)' /\ Tidy(d)' /\ Delivered(d)'
  <2>1. build'[d] = build[d] /\ life'[d] = life[d] /\ workspace'[d] = workspace[d] /\ phase'[d] = phase[d]
    BY <1>1, <1>3
  <2>2. Progressing(d)' /\ Tidy(d)' /\ Delivered(d)'
    BY <1>1, <2>1, OthersStay
  <2>3. build'[d] \in BuildState /\ life'[d] \in Lives /\ (life[d] # "none" => Keeps(d))
    BY <2>1, Of DEF Keeps
  <2> QED BY <2>2, <2>3
<1>4. ImageTyped'
  <2>1. build' \in [Deployments -> BuildState] /\ life' \in [Deployments -> Lives]
    <3> HIDE DEF Building
    <3>1. \A d \in Deployments : build'[d] \in BuildState /\ life'[d] \in Lives
      BY <1>2, <1>3
    <3>2. DOMAIN build' = Deployments /\ build' = [d \in Deployments |-> build'[d]]
      BY <1>1
    <3>3. life' = [d \in Deployments |-> life'[d]]
      BY <1>1
    <3> QED BY <3>1, <3>2, <3>3
  <2> QED BY <1>1, <2>1 DEF ImageInv, ImageTyped
<1>5. \A d \in Deployments : life[d] # "none" => Keeps(d)
  BY <1>2, <1>3
<1>6. Pushed' /\ Recorded'
  BY <1>1, <1>5, WitnessesStay
<1> QED BY <1>2, <1>3, <1>4, <1>6 DEF ImageInv

LEMMA WorldStep ==
    ASSUME ImageInv, thisSecond' \in Nat \ {0},
           UNCHANGED <<registry, record, installed, unsettled, workspace, phase, build, life>>
    PROVE  ImageInv'
<1>1. \A e \in Deployments : Progressing(e)' /\ Tidy(e)' /\ Delivered(e)'
  BY OthersStay
<1>2. \A e \in Deployments : life[e] # "none" => Keeps(e)
  BY DEF Keeps
<1>3. Pushed' /\ Recorded'
  BY <1>2, WitnessesStay
<1>4. ImageTyped'
  BY DEF ImageInv, ImageTyped
<1> QED BY <1>1, <1>3, <1>4 DEF ImageInv

LEMMA ChangeJobTypesStep ==
    ASSUME ImageInv, NEW v \in DOMAIN JobTypes \cup {Malformed}, ChangeJobTypes(v)
    PROVE  ImageInv'
<1>1. /\ UNCHANGED <<thisSecond, registry, record, workspace, phase, build, life>>
      /\ unsettled' = unsettled \cup {JobOf(d) : d \in {e \in Deployments : life[e] # "none"}}
  BY DEF ChangeJobTypes
<1>2. \A e \in Deployments : life[e] # "none" => JobOf(e) \in unsettled'
  BY <1>1
<1>3. ASSUME NEW e \in Deployments PROVE Progressing(e)' /\ Tidy(e)' /\ Delivered(e)'
  <2>1. Progressing(e)'
    BY <1>1, Of DEF Progressing, Complete, JobOf
  <2>2. Tidy(e)'
    BY <1>1, Of DEF Tidy, Building
  <2>3. Delivered(e)'
    <3>1. Progressing(e) /\ Delivered(e)
      BY Of
    <3>2. life[e] = "none" => build[e].type = NoVersion
      BY <3>1 DEF Progressing, NoBuild
    <3>3. JobOf(e)' = JobOf(e)
      BY <1>1 DEF JobOf
    <3> QED BY <1>1, <1>2, <3>1, <3>2, <3>3, NoType DEF Delivered
  <2> QED BY <2>1, <2>2, <2>3
<1>4. Pushed'
  <2> SUFFICES ASSUME NEW image \in DOMAIN registry
               PROVE  image = <<image[1], image[2]>> /\ \E e \in Deployments : PushedBy(image, e)'
    BY <1>1 DEF Pushed
  <2>1. PICK e \in Deployments : PushedBy(image, e)
    BY DEF ImageInv, Pushed
  <2>2. PushedBy(image, e)'
    BY <1>1, <2>1 DEF PushedBy, JobOf
  <2> QED BY <2>2 DEF ImageInv, Pushed
<1>5. Recorded'
  <2> SUFFICES ASSUME NEW j \in Members, record[j] # NoRecord
               PROVE  /\ record[j].type \in Types /\ record[j].containers = JobTypes[record[j].type]
                      /\ \E d \in Deployments : ProvisionedBy(j, d)' /\ j \in unsettled'
    BY <1>1 DEF Recorded
  <2>1. PICK d \in Deployments : ProvisionedBy(j, d)
    BY DEF ImageInv, Recorded
  <2>2. ProvisionedBy(j, d)' /\ j \in unsettled'
    BY <1>1, <1>2, <2>1 DEF ProvisionedBy, JobOf, Complete
  <2> QED BY <2>2 DEF ImageInv, Recorded
<1>6. ImageTyped'
  BY <1>1 DEF ImageInv, ImageTyped
<1> QED BY <1>3, <1>4, <1>5, <1>6 DEF ImageInv

-----------------------------------------------------------------------------
(* Every step                                                              *)

LEMMA ImageStart == ASSUME ImageInit PROVE ImageInv
<1> USE DEF ImageInit
<1>1. NoBuild \in BuildState /\ "none" \in Lives
  BY DEF BuildState, NoBuild, Points, TypeOrNone, Lives
<1>2. build \in [Deployments -> BuildState] /\ life \in [Deployments -> Lives]
  BY <1>1
<1>3. ImageTyped
  BY <1>2 DEF ImageTyped
<1>4. Pushed
  BY DEF Pushed
<1>5. Recorded
  BY DEF Recorded
<1>6. ASSUME NEW d \in Deployments PROVE Progressing(d) /\ Tidy(d) /\ Delivered(d)
  <2>1. /\ build[d] = NoBuild /\ workspace[d] = {} /\ life[d] = "none"
    OBVIOUS
  <2>2. Progressing(d)
    BY <2>1 DEF Progressing, NoBuild
  <2>3. Tidy(d)
    BY <2>1 DEF Tidy, NoBuild
  <2>4. Delivered(d)
    BY <2>1, NoType DEF Delivered, NoBuild
  <2> QED BY <2>2, <2>3, <2>4
<1> QED BY <1>3, <1>4, <1>5, <1>6 DEF ImageInv

LEMMA LifecycleSteps == ASSUME ImageInv, NEW d \in Deployments, LifecycleStep(d) PROVE ImageInv'
BY BuildAndProvisionStep, ReceiveResultStep, LoseStreamStep, ProvisionStep, ProvisionFailsStep DEF LifecycleStep

LEMMA BuilderSteps == ASSUME ImageInv, NEW d \in Deployments, BuilderStep(d) PROVE ImageInv'
BY FetchSourceStep, PrepareBuilderStep, BuildBaseImageStep, TemplateDockerfileStep, WriteSecretsStep,
   BuildContainerImageStep, PushContainerImageStep, CleanUpWorkspaceStep, FinalizeStep, DropResultStep DEF BuilderStep

LEMMA ImageSteps == ASSUME ImageInv, [ImageNext]_imageVars PROVE ImageInv'
<1>1. CASE \E d \in Deployments : LifecycleStep(d) \/ BuilderStep(d)
  BY <1>1, LifecycleSteps, BuilderSteps
<1>2. CASE \E j \in Members : Reprovision(j)
  BY <1>2, ReprovisionStep
<1>3. CASE KillBuilder
  BY <1>3, KillBuilderStep
<1>4. CASE SecondPasses
  <2>1. thisSecond' \in Nat \ {0}
    BY <1>4 DEF SecondPasses, ImageInv, ImageTyped
  <2>2. UNCHANGED <<registry, record, installed, unsettled, workspace, phase, build, life>>
    BY <1>4 DEF SecondPasses
  <2> QED BY <2>1, <2>2, WorldStep
<1>5. CASE ReloadJobTypes \/ UNCHANGED imageVars
  <2>1. thisSecond' \in Nat \ {0}
    BY <1>5 DEF ReloadJobTypes, imageVars, ImageInv, ImageTyped
  <2>2. UNCHANGED <<registry, record, installed, unsettled, workspace, phase, build, life>>
    BY <1>5 DEF ReloadJobTypes, imageVars
  <2> QED BY <2>1, <2>2, WorldStep
<1>6. CASE \E v \in DOMAIN JobTypes \cup {Malformed} : ChangeJobTypes(v)
  BY <1>6, ChangeJobTypesStep
<1> QED BY <1>1, <1>2, <1>3, <1>4, <1>5, <1>6 DEF ImageNext

-----------------------------------------------------------------------------
(* What the invariant says of the jobs                                     *)

LEMMA OwnImages == ASSUME ImageInv PROVE OwnImagesUnlessSameSecond
<1> SUFFICES ASSUME NEW j \in Members, record[j] # NoRecord, NEW image \in Images(record[j].tag)
             PROVE  \E d, e \in Deployments : /\ JobOf(d) = j /\ JobOf(e) = registry[image].job
                                              /\ build[d].tag = record[j].tag /\ build[d].second = build[e].second
  BY DEF OwnImagesUnlessSameSecond
<1>1. PICK d \in Deployments : ProvisionedBy(j, d)
  BY DEF ImageInv, Recorded
<1>2. image \in DOMAIN registry /\ image[1] = record[j].tag
  BY DEF Images
<1>3. PICK e \in Deployments : PushedBy(image, e)
  BY <1>2 DEF ImageInv, Pushed
<1>4. build[d].tag = build[d].second /\ build[e].tag = build[e].second
  BY Of DEF Progressing
<1> QED BY <1>1, <1>2, <1>3, <1>4 DEF ProvisionedBy, PushedBy

LEMMA AsManyContainers == ASSUME ImageInv PROVE ContainersFitImages
<1> SUFFICES ASSUME NEW j \in Members, record[j] # NoRecord, j \notin unsettled,
                    \A image \in Images(record[j].tag) : registry[image].job = j
             PROVE  /\ {image[2] : image \in Images(record[j].tag)} = 0..(record[j].containers - 1)
                    /\ \A image \in Images(record[j].tag) : registry[image].type = record[j].type
  BY DEF ContainersFitImages
<1>1. /\ record[j].type \in Types /\ record[j].containers = JobTypes[record[j].type]
      /\ record[j].type = LoadJobType(j, installed)
  BY DEF ImageInv, Recorded
<1>2. JobTypes[record[j].type] \in Nat
  BY <1>1, JobTypesHaveImages DEF Types
<1>3. ASSUME NEW image \in Images(record[j].tag)
      PROVE  registry[image].type = record[j].type /\ image[2] \in 0..(record[j].containers - 1)
  <2>1. image \in DOMAIN registry /\ registry[image].job = j
    BY DEF Images
  <2>2. PICK e \in Deployments : PushedBy(image, e)
    BY <2>1 DEF ImageInv, Pushed
  <2>3. JobOf(e) = j /\ build[e].type \in Types /\ build[e].type = registry[image].type
        /\ image[2] \in Nat /\ image[2] < build[e].index /\ build[e].index <= JobTypes[build[e].type]
    BY <2>1, <2>2 DEF PushedBy
  <2>4. build[e].type = record[j].type
    BY <1>1, <2>3, Of DEF Delivered
  <2>5. build[e].index \in Nat
    BY Of DEF BuildState
  <2> QED BY <1>1, <1>2, <2>3, <2>4, <2>5
<1>4. ASSUME NEW i \in 0..(record[j].containers - 1)
      PROVE  \E image \in Images(record[j].tag) : i = image[2]
  <2>1. PICK d \in Deployments : ProvisionedBy(j, d)
    BY DEF ImageInv, Recorded
  <2>2. JobOf(d) = j /\ build[d].tag = record[j].tag /\ build[d].type \in Types /\ build[d].index = JobTypes[build[d].type]
    BY <2>1 DEF ProvisionedBy, Complete
  <2>3. build[d].type = record[j].type
    BY <1>1, <2>2, Of DEF Delivered
  <2>4. i \in Nat /\ i < build[d].index
    BY <1>1, <1>2, <2>2, <2>3
  <2>5. <<build[d].tag, i>> \in DOMAIN registry
    BY <2>4, Of DEF Delivered
  <2>6. <<record[j].tag, i>> \in Images(record[j].tag)
    BY <2>2, <2>5 DEF Images
  <2> QED BY <2>6
<1> QED BY <1>3, <1>4

LEMMA InvClean == ASSUME ImageInv PROVE BuildIsClean
<1>1. OwnImagesUnlessSameSecond /\ ContainersFitImages
  BY OwnImages, AsManyContainers
<1>2. SecretsAreRemoved /\ WorkspaceLeftHasCause /\ DoneHasNoPhase
  BY Of DEF Tidy, SecretsAreRemoved, WorkspaceLeftHasCause, DoneHasNoPhase
<1> QED BY <1>1, <1>2 DEF BuildIsClean

(* The images of jobs, for any versions, job types and deployments: a job  *)
(* runs images built from its own source code, as many as it has           *)
(* containers, unless another version was deployed in the same second or   *)
(* the job types changed; and a build leaves no secrets and no source code *)
(* behind unless it ended by an exception or a kill.                       *)
THEOREM BuildsStayClean == ImageInit /\ [][ImageNext]_imageVars => []BuildIsClean
<1>1. ImageInit => ImageInv
  BY ImageStart
<1>2. ImageInv /\ [ImageNext]_imageVars => ImageInv'
  BY ImageSteps
<1>3. ImageInv => BuildIsClean
  BY InvClean
<1> QED BY <1>1, <1>2, <1>3, PTL

-----------------------------------------------------------------------------
(***************************************************************************)
(* The installation wizards.                                               *)
(***************************************************************************)
-----------------------------------------------------------------------------
(* The inductive invariant                                                 *)

Infra == {"docker", "kubernetes"}
Kinds == {Unset, "docker", "kubernetes", "remote_docker", "remote_kubernetes", "generate", "other"}
Results == {Unset, "ready", "failed", "killed", "not_ready", "too_slow", "unauthorized", "bad_setup",
            "unsupported"}
AnyConfig == [infrastructure : Kinds, address : {Unset, "host"}, postgres : Nat, auth_key : Nat, admin : Nat,
              pub : Nat, builder : Nat, gateway : Nat]
RunState == [pc : {"idle", "running"}, step : Nat, config : AnyConfig, wanted : SUBSET Optional, kept : BOOLEAN,
             applied : SUBSET Generated, confirmed : BOOLEAN, result : Results]
AnyFiles == UNION {[D -> AnyConfig] : D \in SUBSET (Docker \cup ServicesOf("kubernetes"))}
Systems == [files : AnyFiles, database : Nat, admin : Nat, plugins : BOOLEAN, cut : BOOLEAN]

WizardTyped ==
    /\ run \in RunState /\ system \in [Infra -> Systems] /\ fresh \in Nat /\ forgotten \in BOOLEAN

\* A configuration knows the passwords of what has been started.
FitsIn(config, services) ==
    \A i \in Infra : /\ services[i].database # 0 => config.postgres = services[i].database
                     /\ services[i].admin # 0 => config.admin = services[i].admin
Fits(config) == FitsIn(config, system)

\* A token that a configuration has was signed with its key.
Signed(config) == config.pub \in {0, config.auth_key} /\ config.builder \in {0, config.auth_key}

SetupKnows ==
    \/ setup = Missing /\ (forgotten \/ \A i \in Infra : system[i].database = 0 /\ system[i].admin = 0)
    \/ setup = Torn
    \/ /\ setup = Saved(setup.config) /\ setup.config \in AnyConfig
       /\ setup.config.infrastructure # "generate"
       /\ forgotten \/ Fits(setup.config)
       /\ Signed(setup.config)

AtRun(infrastructure) == run.pc = "running" /\ run.config.infrastructure = infrastructure

RunKnows ==
    run.pc = "running" =>
        /\ run.config.infrastructure \in DOMAIN Installation /\ run.step \in 1..Len(Steps) /\ run.result = Unset
        /\ Signed(run.config)
        /\ run.config.infrastructure # "generate" => forgotten \/ Fits(run.config)

\* Both installations have their keys, then save them.
Sealed ==
    AtRun("docker") \/ AtRun("kubernetes") =>
        /\ run.step >= 7 => run.config.pub = run.config.auth_key /\ run.config.builder = run.config.auth_key
        /\ run.step >= 9 => setup = Saved(run.config)

HasRendered(f) == f \in DOMAIN rendered /\ rendered[f] = run.config

\* What was started last was rendered by this invocation, and has its passwords.
Launched ==
    /\ EnvOf(Installed) \in DOMAIN Services.files /\ Services.files[EnvOf(Installed)] = run.config
    /\ forgotten \/ Services.database = run.config.postgres

DockerRuns ==
    AtRun("docker") =>
        /\ run.step >= 10 => HasRendered("docker/compose")
        /\ run.step >= 11 => HasRendered("docker/env")
        /\ run.step >= 12 => Launched
        /\ run.step = 14 => forgotten \/ Services.admin = run.config.admin

KubernetesRuns ==
    AtRun("kubernetes") =>
        /\ run.step >= 11 => HasRendered("generated/env")
        /\ run.step >= 12 => HasRendered("generated/pub")
        /\ run.step >= 13 => ~run.confirmed \/ Launched
        /\ run.step = 15 => forgotten \/ Services.admin = run.config.admin

\* A directory that was cleared has only what was wanted since.
RemoteRuns ==
    AtRun("remote_kubernetes") /\ run.step >= 6 => DOMAIN rendered \cap Optional \subseteq run.wanted \/ run.kept

\* Every file that runs has tokens that its own key has signed.
TokensSigned ==
    \A i \in DOMAIN system : \A f \in DOMAIN system[i].files :
        /\ system[i].files[f].pub = system[i].files[f].auth_key
        /\ system[i].files[f].builder = system[i].files[f].auth_key

WizardInv ==
    /\ WizardTyped /\ SetupKnows /\ RunKnows /\ Sealed /\ DockerRuns /\ KubernetesRuns /\ RemoteRuns
    /\ TokensSigned /\ FilesAgree /\ AppliedIsWanted /\ FailureIsExplained

-----------------------------------------------------------------------------
(* Steps of an installation                                                *)

LEMMA StepNames ==
    /\ Len(InstallToDocker) = 15 /\ Len(InstallToKubernetes) = 16 /\ Len(InstallToRemoteDocker) = 9
    /\ Len(InstallToRemoteKubernetes) = 11 /\ Len(GenerateResources) = 6
    /\ DOMAIN Installation = {"docker", "kubernetes", "remote_docker", "remote_kubernetes", "generate"}
    /\ Installation["docker"] = InstallToDocker /\ Installation["kubernetes"] = InstallToKubernetes
    /\ Installation["remote_docker"] = InstallToRemoteDocker
    /\ Installation["remote_kubernetes"] = InstallToRemoteKubernetes /\ Installation["generate"] = GenerateResources
BY DEF Installation, InstallToDocker, InstallToKubernetes, InstallToRemoteDocker, InstallToRemoteKubernetes,
       GenerateResources

LEMMA DockerSteps ==
    ASSUME WizardInv, AtRun("docker")
    PROVE  /\ Len(Steps) = 15 /\ run.step \in 1..15
           /\ run.step = 1 => Steps[run.step] = "ask"
           /\ run.step \in {2, 7} => Steps[run.step] = "truncate"
           /\ run.step \in {3, 8} => Steps[run.step] = "write"
           /\ run.step = 4 => Steps[run.step] = "verify"
           /\ run.step = 5 => Steps[run.step] = "secrets"
           /\ run.step = 6 => Steps[run.step] = "tokens"
           /\ run.step = 9 => Steps[run.step] = "docker/compose"
           /\ run.step = 10 => Steps[run.step] = "docker/env"
           /\ run.step = 11 => Steps[run.step] = "up"
           /\ run.step = 12 => Steps[run.step] = "wait"
           /\ run.step = 13 => Steps[run.step] = "password"
           /\ run.step = 14 => Steps[run.step] = "login"
           /\ run.step = 15 => Steps[run.step] = "plugins"
<1>1. Steps = InstallToDocker /\ Len(Steps) = 15
  BY StepNames DEF Steps, AtRun
<1>2. run.step \in 1..15
  BY <1>1 DEF WizardInv, RunKnows, AtRun
<1> QED BY <1>1, <1>2 DEF InstallToDocker

LEMMA KubernetesSteps ==
    ASSUME WizardInv, AtRun("kubernetes")
    PROVE  /\ Len(Steps) = 16 /\ run.step \in 1..16
           /\ run.step = 1 => Steps[run.step] = "ask"
           /\ run.step \in {2, 7} => Steps[run.step] = "truncate"
           /\ run.step \in {3, 8} => Steps[run.step] = "write"
           /\ run.step = 4 => Steps[run.step] = "verify"
           /\ run.step = 5 => Steps[run.step] = "secrets"
           /\ run.step = 6 => Steps[run.step] = "tokens"
           /\ run.step = 9 => Steps[run.step] = "clear"
           /\ run.step = 10 => Steps[run.step] = "generated/env"
           /\ run.step = 11 => Steps[run.step] = "generated/pub"
           /\ run.step = 12 => Steps[run.step] = "apply"
           /\ run.step = 13 => Steps[run.step] = "wait"
           /\ run.step = 14 => Steps[run.step] = "password"
           /\ run.step = 15 => Steps[run.step] = "login"
           /\ run.step = 16 => Steps[run.step] = "plugins"
<1>1. Steps = InstallToKubernetes /\ Len(Steps) = 16
  BY StepNames DEF Steps, AtRun
<1>2. run.step \in 1..16
  BY <1>1 DEF WizardInv, RunKnows, AtRun
<1> QED BY <1>1, <1>2 DEF InstallToKubernetes

LEMMA RemoteDockerSteps ==
    ASSUME WizardInv, AtRun("remote_docker")
    PROVE  /\ Len(Steps) = 9 /\ run.step \in 1..9
           /\ Steps[run.step] \in {"remove_pub", "run_pub"} => run.step \in {7, 8}
           /\ Steps[run.step] = "write" <=> run.step = 4
           /\ Steps[run.step] = "gateway" => run.step = 2
           /\ Steps[run.step] = "truncate" => run.step = 3
           /\ Steps[run.step] = "ask" => run.step = 1
           /\ Steps[run.step] \in {"ask", "gateway", "truncate", "write", "verify", "remove_pub", "run_pub", "plugin_config"}
<1>1. Steps = InstallToRemoteDocker /\ Len(Steps) = 9
  BY StepNames DEF Steps, AtRun
<1>2. run.step \in 1..9
  BY <1>1 DEF WizardInv, RunKnows, AtRun
<1>3. /\ run.step = 1 => Steps[run.step] = "ask"
      /\ run.step = 2 => Steps[run.step] = "gateway"
      /\ run.step = 3 => Steps[run.step] = "truncate"
      /\ run.step = 4 => Steps[run.step] = "write"
      /\ run.step \in {5, 6} => Steps[run.step] = "verify"
      /\ run.step = 7 => Steps[run.step] = "remove_pub"
      /\ run.step = 8 => Steps[run.step] = "run_pub"
      /\ run.step = 9 => Steps[run.step] = "plugin_config"
  BY <1>1, <1>2 DEF InstallToRemoteDocker
<1> QED BY <1>1, <1>2, <1>3

LEMMA RemoteKubernetesSteps ==
    ASSUME WizardInv, AtRun("remote_kubernetes")
    PROVE  /\ Len(Steps) = 11 /\ run.step \in 1..11
           /\ Steps[run.step] = "clear" <=> run.step = 5
           /\ Steps[run.step] = "write" <=> run.step = 4
           /\ Steps[run.step] = "gateway" <=> run.step = 2
           /\ Steps[run.step] = "truncate" <=> run.step = 3
           /\ Steps[run.step] = "ask" <=> run.step = 1
           /\ Steps[run.step] = "remote_pub" <=> run.step = 9
           /\ Steps[run.step] = "apply" <=> run.step = 10
           /\ run.step \in {6, 7, 8} => Steps[run.step] \in Optional
           /\ run.step = 11 => Steps[run.step] = "plugin_config"
           /\ Steps[run.step] \in {"ask", "gateway", "truncate", "write", "clear", "namespace", "roles", "ingress",
                                   "remote_pub", "apply", "plugin_config"}
<1>1. Steps = InstallToRemoteKubernetes /\ Len(Steps) = 11
  BY StepNames DEF Steps, AtRun
<1>2. run.step \in 1..11
  BY <1>1 DEF WizardInv, RunKnows, AtRun
<1>3. /\ run.step = 1 => Steps[run.step] = "ask"
      /\ run.step = 2 => Steps[run.step] = "gateway"
      /\ run.step = 3 => Steps[run.step] = "truncate"
      /\ run.step = 4 => Steps[run.step] = "write"
      /\ run.step = 5 => Steps[run.step] = "clear"
      /\ run.step = 6 => Steps[run.step] = "namespace"
      /\ run.step = 7 => Steps[run.step] = "roles"
      /\ run.step = 8 => Steps[run.step] = "ingress"
      /\ run.step = 9 => Steps[run.step] = "remote_pub"
      /\ run.step = 10 => Steps[run.step] = "apply"
      /\ run.step = 11 => Steps[run.step] = "plugin_config"
  BY <1>1, <1>2 DEF InstallToRemoteKubernetes
<1> QED BY <1>1, <1>2, <1>3 DEF Optional

LEMMA GenerateSteps ==
    ASSUME WizardInv, AtRun("generate")
    PROVE  /\ Len(Steps) = 6
           /\ Steps[run.step] \in {"clean", "ask", "secrets", "tokens", "kustomize/env", "kustomize/pub"}
<1>1. Steps = GenerateResources /\ Len(Steps) = 6
  BY StepNames DEF Steps, AtRun
<1>2. run.step \in 1..6
  BY <1>1 DEF WizardInv, RunKnows, AtRun
<1> QED BY <1>1, <1>2 DEF GenerateResources

LEMMA Ongoing ==
    ASSUME WizardInv, run.pc = "running"
    PROVE  /\ run \in RunState /\ run.config \in AnyConfig /\ run.result = Unset
           /\ \/ AtRun("docker") \/ AtRun("kubernetes") \/ AtRun("remote_docker")
              \/ AtRun("remote_kubernetes") \/ AtRun("generate")
BY StepNames DEF WizardInv, WizardTyped, RunKnows, RunState, AtRun

-----------------------------------------------------------------------------
(* The end of an invocation, and its next step                             *)

LEMMA Over ==
    ASSUME WizardInv, run.pc = "running", NEW result \in Results, run' = Ended(run, result),
           result \in {"not_ready", "unauthorized"} => ~run.confirmed \/ run.config.address = Unset \/ forgotten,
           UNCHANGED <<setup, system, fresh, forgotten>>
    PROVE  WizardInv'
<1>1. run \in RunState
  BY Ongoing
<1>2. /\ run' \in RunState /\ run'.pc = "idle" /\ run'.result = result /\ run'.applied = run.applied
      /\ run'.wanted = run.wanted /\ run'.kept = run.kept /\ run'.confirmed = run.confirmed /\ run'.config = run.config
  BY <1>1 DEF Ended, RunState
<1>3. WizardTyped'
  BY <1>2 DEF WizardInv, WizardTyped
<1>4. SetupKnows' /\ TokensSigned' /\ FilesAgree'
  <2>1. SetupKnows'
    BY DEF WizardInv, SetupKnows, Fits, FitsIn, Signed
  <2>2. TokensSigned' /\ FilesAgree'
    <3>1. system' = system
      OBVIOUS
    <3> QED BY <3>1 DEF WizardInv, TokensSigned, FilesAgree
  <2> QED BY <2>1, <2>2
<1>5. RunKnows' /\ Sealed' /\ DockerRuns' /\ KubernetesRuns' /\ RemoteRuns'
  BY <1>2 DEF RunKnows, Sealed, DockerRuns, KubernetesRuns, RemoteRuns, AtRun
<1>6. AppliedIsWanted' /\ FailureIsExplained'
  BY <1>2 DEF WizardInv, AppliedIsWanted, FailureIsExplained
<1> QED BY <1>3, <1>4, <1>5, <1>6 DEF WizardInv

\* r is what the step has made of the invocation, which goes on or is ready.
LEMMA Advances ==
    ASSUME WizardInv, run.pc = "running", NEW r \in RunState, run' = Following(r, 1), r.pc = "running",
           r.step = run.step, r.result = Unset, r.config.infrastructure = run.config.infrastructure
    PROVE  /\ run' \in RunState /\ run'.config = r.config /\ run'.wanted = r.wanted /\ run'.kept = r.kept
           /\ run'.applied = r.applied /\ run'.confirmed = r.confirmed /\ run'.result \in {Unset, "ready"}
           /\ run'.pc = "running" => /\ run'.step = run.step + 1 /\ run'.step \in 1..Len(Steps)' /\ run'.result = Unset
                                     /\ \A i \in Kinds : AtRun(i)' <=> AtRun(i)
<1>1. run.step \in Nat /\ run.step >= 1 /\ Len(Steps) \in Nat
  <2>1. run \in RunState /\ run.step \in 1..Len(Steps)
    BY Ongoing DEF WizardInv, RunKnows
  <2>2. Len(Steps) \in Nat
    BY Ongoing, StepNames DEF Steps, AtRun
  <2> QED BY <2>1, <2>2 DEF RunState
<1>2. CASE r.step + 1 > Len(Steps)
  <2>1. run' = [r EXCEPT !.pc = "idle", !.result = "ready"]
    BY <1>2 DEF Following, Ended
  <2>2. /\ run' \in RunState /\ run'.config = r.config /\ run'.wanted = r.wanted /\ run'.kept = r.kept
        /\ run'.applied = r.applied /\ run'.confirmed = r.confirmed /\ run'.result = "ready" /\ run'.pc = "idle"
    BY <2>1 DEF RunState, Results
  <2> QED BY <2>2
<1>3. CASE ~(r.step + 1 > Len(Steps))
  <2>1. run' = [r EXCEPT !.step = r.step + 1]
    BY <1>3 DEF Following, RunState
  <2>2. /\ run' \in RunState /\ run'.config = r.config /\ run'.wanted = r.wanted /\ run'.kept = r.kept
        /\ run'.applied = r.applied /\ run'.confirmed = r.confirmed /\ run'.result = Unset /\ run'.step = run.step + 1
        /\ run'.pc = "running"
    <3>1. r.step + 1 \in Nat
      BY <1>1
    <3> QED BY <2>1, <3>1 DEF RunState
  <2>3. Steps' = Steps
    BY <2>2 DEF Steps
  <2>4. run'.step \in 1..Len(Steps)'
    <3>1. run.step + 1 \in 1..Len(Steps)
      BY <1>1, <1>3
    <3> QED BY <2>2, <2>3, <3>1
  <2> QED BY <2>2, <2>4 DEF AtRun
<1> QED BY <1>2, <1>3

\* What follows whenever an invocation goes on to its next step.
LEMMA Routine ==
    ASSUME WizardInv, run.pc = "running", NEW r \in RunState, run' = Following(r, 1), r.pc = "running",
           r.step = run.step, r.result = Unset, r.config.infrastructure = run.config.infrastructure,
           forgotten' = forgotten, system' \in [Infra -> Systems], fresh' \in Nat, Signed(r.config),
           run.config.infrastructure # "generate" => forgotten \/ FitsIn(r.config, system'),
           r.applied \cap Optional \subseteq r.wanted \/ r.kept
    PROVE  WizardTyped' /\ RunKnows' /\ AppliedIsWanted' /\ FailureIsExplained'
<1>1. /\ run' \in RunState /\ run'.config = r.config /\ run'.wanted = r.wanted /\ run'.kept = r.kept
      /\ run'.applied = r.applied /\ run'.result \in {Unset, "ready"}
      /\ run'.pc = "running" => run'.step \in 1..Len(Steps)' /\ run'.result = Unset
  BY Advances
<1>2. WizardTyped'
  BY <1>1 DEF WizardInv, WizardTyped
<1>3. RunKnows'
  BY <1>1 DEF WizardInv, RunKnows, Signed, Fits, FitsIn
<1>4. AppliedIsWanted'
  BY <1>1 DEF AppliedIsWanted
<1>5. FailureIsExplained'
  BY <1>1 DEF FailureIsExplained, Unset
<1> QED BY <1>2, <1>3, <1>4, <1>5

\* What is reached by steps that change nothing but the invocation stays reached.
LEMMA Onward ==
    ASSUME WizardInv, run.pc = "running", UNCHANGED <<setup, rendered, forgotten>>,
           \A i \in Infra : /\ system'[i].files = system[i].files /\ system'[i].database = system[i].database
                            /\ system'[i].admin = system[i].admin,
           run'.config = run.config, run'.confirmed = run.confirmed, run'.kept = run.kept,
           run.wanted \subseteq run'.wanted,
           run'.pc = "running" => run'.step = run.step + 1 /\ \A i \in Kinds : AtRun(i)' <=> AtRun(i),
           AtRun("docker") => run.step \notin {6, 8, 9, 10, 11, 13},
           AtRun("kubernetes") => run.step \notin {6, 8, 10, 11, 12, 14},
           AtRun("remote_kubernetes") => run.step # 5
    PROVE  Sealed' /\ DockerRuns' /\ KubernetesRuns' /\ RemoteRuns'
<1>1. run.step \in Nat
  BY Ongoing DEF RunState
<1>2. \A i \in Kinds : AtRun(i)' => AtRun(i) /\ run'.step = run.step + 1
  BY DEF AtRun
<1>3. Sealed'
  BY <1>1, <1>2 DEF WizardInv, Sealed, Kinds
<1>4. AtRun("docker") \/ AtRun("kubernetes") => (Launched' <=> Launched) /\ (Services.admin)' = Services.admin
  BY DEF Launched, Installed, Services, AtRun, Infra
<1>5. DockerRuns'
  BY <1>1, <1>2, <1>4 DEF WizardInv, DockerRuns, Kinds, HasRendered
<1>6. KubernetesRuns'
  BY <1>1, <1>2, <1>4 DEF WizardInv, KubernetesRuns, Kinds, HasRendered
<1>7. RemoteRuns'
  BY <1>1, <1>2 DEF WizardInv, RemoteRuns, Kinds
<1> QED BY <1>3, <1>5, <1>6, <1>7

LEMMA Unsaid ==
    ASSUME WizardInv, UNCHANGED <<setup, system, forgotten>>
    PROVE  SetupKnows' /\ TokensSigned' /\ FilesAgree'
<1>1. SetupKnows'
  BY DEF WizardInv, SetupKnows, Fits, FitsIn, Signed
<1>2. TokensSigned' /\ FilesAgree'
  <2>1. system' = system
    OBVIOUS
  <2> QED BY <2>1 DEF WizardInv, TokensSigned, FilesAgree
<1> QED BY <1>1, <1>2

\* A step of an invocation that changes nothing else.
LEMMA Walks ==
    ASSUME WizardInv, run.pc = "running", run' = Following(run, 1), UNCHANGED <<setup, rendered, system, fresh, forgotten>>,
           AtRun("docker") => run.step \notin {6, 8, 9, 10, 11, 13},
           AtRun("kubernetes") => run.step \notin {6, 8, 10, 11, 12, 14},
           AtRun("remote_kubernetes") => run.step # 5
    PROVE  WizardInv'
<1>1. run \in RunState /\ run.result = Unset
  BY Ongoing
<1>2. WizardTyped' /\ RunKnows' /\ AppliedIsWanted' /\ FailureIsExplained'
  <2>1. system' \in [Infra -> Systems] /\ fresh' \in Nat /\ Signed(run.config)
    BY DEF WizardInv, WizardTyped, RunKnows
  <2>2. run.config.infrastructure # "generate" => forgotten \/ FitsIn(run.config, system')
    BY DEF WizardInv, RunKnows, Fits
  <2>3. run.applied \cap Optional \subseteq run.wanted \/ run.kept
    BY DEF WizardInv, AppliedIsWanted
  <2> QED BY <1>1, <2>1, <2>2, <2>3, Routine
<1>3. /\ run'.config = run.config /\ run'.confirmed = run.confirmed /\ run'.kept = run.kept /\ run'.wanted = run.wanted
      /\ run'.pc = "running" => run'.step = run.step + 1 /\ \A i \in Kinds : AtRun(i)' <=> AtRun(i)
  BY <1>1, Advances
<1>4. Sealed' /\ DockerRuns' /\ KubernetesRuns' /\ RemoteRuns'
  BY <1>3, Onward
<1>5. SetupKnows' /\ TokensSigned' /\ FilesAgree'
  BY Unsaid
<1> QED BY <1>2, <1>4, <1>5 DEF WizardInv

LEMMA Fails == ASSUME WizardInv, run.pc = "running", Failing, Stays PROVE WizardInv'
BY Over DEF Failing, Stays, End, Results, Unset

-----------------------------------------------------------------------------
(* Where a step is in the installations                                    *)

LEMMA AtNumbers ==
    ASSUME WizardInv, run.pc = "running"
    PROVE  /\ AtRun("docker") => /\ run.step \in 1..15
                                 /\ At("ask") => run.step = 1
                                 /\ At("truncate") => run.step \in {2, 7}
                                 /\ At("write") => run.step \in {3, 8}
                                 /\ At("verify") => run.step = 4
                                 /\ At("secrets") => run.step = 5
                                 /\ At("tokens") => run.step = 6
                                 /\ At("docker/compose") => run.step = 9
                                 /\ At("docker/env") => run.step = 10
                                 /\ At("up") => run.step = 11
                                 /\ At("wait") => run.step = 12
                                 /\ At("password") => run.step = 13
                                 /\ At("login") => run.step = 14
                                 /\ At("plugins") => run.step = 15
           /\ AtRun("kubernetes") => /\ run.step \in 1..16
                                     /\ At("ask") => run.step = 1
                                     /\ At("truncate") => run.step \in {2, 7}
                                     /\ At("write") => run.step \in {3, 8}
                                     /\ At("verify") => run.step = 4
                                     /\ At("secrets") => run.step = 5
                                     /\ At("tokens") => run.step = 6
                                     /\ At("clear") => run.step = 9
                                     /\ At("generated/env") => run.step = 10
                                     /\ At("generated/pub") => run.step = 11
                                     /\ At("apply") => run.step = 12
                                     /\ At("wait") => run.step = 13
                                     /\ At("password") => run.step = 14
                                     /\ At("login") => run.step = 15
                                     /\ At("plugins") => run.step = 16
           /\ AtRun("remote_kubernetes") => (At("clear") <=> run.step = 5)
<1>1. ASSUME AtRun("docker")
      PROVE  /\ run.step \in 1..15
             /\ At("ask") => run.step = 1
             /\ At("truncate") => run.step \in {2, 7}
             /\ At("write") => run.step \in {3, 8}
             /\ At("verify") => run.step = 4
             /\ At("secrets") => run.step = 5
             /\ At("tokens") => run.step = 6
             /\ At("docker/compose") => run.step = 9
             /\ At("docker/env") => run.step = 10
             /\ At("up") => run.step = 11
             /\ At("wait") => run.step = 12
             /\ At("password") => run.step = 13
             /\ At("login") => run.step = 14
             /\ At("plugins") => run.step = 15
  BY <1>1, DockerSteps DEF At
<1>2. ASSUME AtRun("kubernetes")
      PROVE  /\ run.step \in 1..16
             /\ At("ask") => run.step = 1
             /\ At("truncate") => run.step \in {2, 7}
             /\ At("write") => run.step \in {3, 8}
             /\ At("verify") => run.step = 4
             /\ At("secrets") => run.step = 5
             /\ At("tokens") => run.step = 6
             /\ At("clear") => run.step = 9
             /\ At("generated/env") => run.step = 10
             /\ At("generated/pub") => run.step = 11
             /\ At("apply") => run.step = 12
             /\ At("wait") => run.step = 13
             /\ At("password") => run.step = 14
             /\ At("login") => run.step = 15
             /\ At("plugins") => run.step = 16
  BY <1>2, KubernetesSteps DEF At
<1>3. ASSUME AtRun("remote_kubernetes")
      PROVE  At("clear") <=> run.step = 5
  BY <1>3, RemoteKubernetesSteps DEF At, AtRun
<1> QED BY <1>1, <1>2, <1>3

\* Who takes the steps that not all do.
LEMMA AtWhom ==
    ASSUME WizardInv, run.pc = "running"
    PROVE  /\ At("truncate") \/ At("write") => ~AtRun("generate")
           /\ At("secrets") => AtRun("docker") \/ AtRun("kubernetes") \/ AtRun("generate")
           /\ At("tokens") => AtRun("docker") \/ AtRun("kubernetes") \/ AtRun("generate")
           /\ At("gateway") => AtRun("remote_docker") \/ AtRun("remote_kubernetes")
           /\ At("up") => AtRun("docker")
           /\ At("apply") => AtRun("kubernetes") \/ AtRun("remote_kubernetes")
           /\ At("wait") \/ At("password") \/ At("login") \/ At("plugins") => AtRun("docker") \/ AtRun("kubernetes")
           /\ At("clean") => AtRun("generate")
           /\ At("clear") => AtRun("kubernetes") \/ AtRun("remote_kubernetes")
           /\ At("namespace") \/ At("roles") \/ At("ingress") => AtRun("remote_kubernetes")
           /\ At("remove_pub") \/ At("run_pub") => AtRun("remote_docker")
<1>1. AtRun("docker") => \A s \in {"gateway", "apply", "clean", "clear", "namespace", "roles", "ingress",
                                   "remove_pub", "run_pub"} : ~At(s)
  BY DockerSteps DEF At
<1>2. AtRun("kubernetes") => \A s \in {"gateway", "up", "clean", "namespace", "roles", "ingress",
                                       "remove_pub", "run_pub"} : ~At(s)
  BY KubernetesSteps DEF At
<1>3. AtRun("remote_docker") =>
        \A s \in {"secrets", "tokens", "up", "apply", "wait", "password", "login", "plugins", "clean", "clear",
                  "namespace", "roles", "ingress"} : ~At(s)
  BY RemoteDockerSteps DEF At
<1>4. AtRun("remote_kubernetes") =>
        \A s \in {"secrets", "tokens", "up", "wait", "password", "login", "plugins", "clean",
                  "remove_pub", "run_pub"} : ~At(s)
  BY RemoteKubernetesSteps DEF At
<1>5. AtRun("generate") =>
        \A s \in {"truncate", "write", "gateway", "up", "apply", "wait", "password", "login", "plugins", "clear",
                  "namespace", "roles", "ingress", "remove_pub", "run_pub"} : ~At(s)
  BY GenerateSteps DEF At
<1>6. AtRun("docker") \/ AtRun("kubernetes") \/ AtRun("remote_docker") \/ AtRun("remote_kubernetes") \/ AtRun("generate")
  BY Ongoing
<1> QED BY <1>1, <1>2, <1>3, <1>4, <1>5, <1>6

-----------------------------------------------------------------------------
(* Each action keeps the invariant                                         *)

LEMMA SetupSet ==
    SetupConfig \in AnyConfig /\ NotRunning \in RunState /\ Signed(SetupConfig)
    /\ SetupConfig.postgres = 0 /\ SetupConfig.admin = 0 /\ SetupConfig.infrastructure = Unset
BY DEF SetupConfig, NotRunning, AnyConfig, RunState, Kinds, Results, Signed

\* Nothing is said of an invocation that is over but how it ended.
LEMMA Resting ==
    ASSUME WizardTyped', run'.pc = "idle", SetupKnows', TokensSigned', FilesAgree', AppliedIsWanted', FailureIsExplained'
    PROVE  WizardInv'
BY DEF WizardInv, RunKnows, Sealed, DockerRuns, KubernetesRuns, RemoteRuns, AtRun

\* An invocation that has just begun, or was refused.
LEMMA Begins ==
    ASSUME WizardInv, NEW config \in AnyConfig, Signed(config),
           config.infrastructure # "generate" => forgotten \/ Fits(config),
           \/ run' = Ended([NotRunning EXCEPT !.config = config], "unsupported")
           \/ config.infrastructure \in DOMAIN Installation
              /\ run' = [NotRunning EXCEPT !.pc = "running", !.config = config],
           SetupKnows', UNCHANGED <<system, fresh, forgotten>>
    PROVE  WizardInv'
<1>1. /\ run' \in RunState /\ run'.step = 1 /\ run'.config = config /\ run'.applied = {}
      /\ run'.result \in {Unset, "unsupported"} /\ (run'.pc = "running" => run'.result = Unset)
      /\ run'.pc = "running" => config.infrastructure \in DOMAIN Installation
  <2>1. NotRunning \in RunState /\ NotRunning.step = 1 /\ NotRunning.applied = {} /\ NotRunning.result = Unset
    BY SetupSet DEF NotRunning
  <2>2. CASE run' = Ended([NotRunning EXCEPT !.config = config], "unsupported")
    <3>1. [NotRunning EXCEPT !.config = config] \in RunState
      BY <2>1 DEF RunState
    <3> QED BY <2>1, <2>2, <3>1 DEF Ended, RunState, Results
  <2>3. CASE config.infrastructure \in DOMAIN Installation
             /\ run' = [NotRunning EXCEPT !.pc = "running", !.config = config]
    BY <2>1, <2>3 DEF RunState
  <2> QED BY <2>2, <2>3
<1>2. WizardTyped'
  BY <1>1 DEF WizardInv, WizardTyped
<1>3. RunKnows'
  <2>1. run'.pc = "running" => 1 \in 1..Len(Steps')
    <3>1. \A i \in DOMAIN Installation : Len(Installation[i]) \in {15, 16, 9, 11, 6}
      BY StepNames
    <3>2. run'.pc = "running" => Steps' = Installation[config.infrastructure]
      BY <1>1 DEF Steps
    <3> QED BY <1>1, <3>1, <3>2
  <2> QED BY <1>1, <2>1 DEF RunKnows, Fits, FitsIn, Signed
<1>4. Sealed' /\ DockerRuns' /\ KubernetesRuns' /\ RemoteRuns'
  BY <1>1 DEF Sealed, DockerRuns, KubernetesRuns, RemoteRuns
<1>5. AppliedIsWanted' /\ FailureIsExplained'
  BY <1>1 DEF AppliedIsWanted, FailureIsExplained, Unset
<1>6. TokensSigned' /\ FilesAgree'
  <2>1. system' = system
    OBVIOUS
  <2> QED BY <2>1 DEF WizardInv, TokensSigned, FilesAgree
<1> QED BY <1>2, <1>3, <1>4, <1>5, <1>6 DEF WizardInv

LEMMA StartWizardStep == ASSUME WizardInv, StartWizard PROVE WizardInv'
<1>0. run.pc = "idle" /\ UNCHANGED <<system, fresh, forgotten>>
  BY DEF StartWizard
<1>1. CASE setup = Torn /\ run' = Ended(NotRunning, "bad_setup") /\ UNCHANGED setup
  <2>1. run' \in RunState /\ run'.pc = "idle" /\ run'.result = "bad_setup" /\ run'.applied = {}
    BY <1>1, SetupSet DEF Ended, RunState, NotRunning, Results
  <2>2. WizardTyped' /\ AppliedIsWanted' /\ FailureIsExplained'
    BY <1>0, <2>1 DEF WizardInv, WizardTyped, AppliedIsWanted, FailureIsExplained
  <2>3. SetupKnows' /\ TokensSigned' /\ FilesAgree'
    BY <1>0, <1>1, Unsaid
  <2> QED BY <2>1, <2>2, <2>3, Resting
<1>2. CASE setup # Torn
  <2> DEFINE config == IF setup = Missing THEN SetupConfig ELSE setup.config
  <2>1. /\ config \in AnyConfig /\ Signed(config) /\ config.infrastructure # "generate"
        /\ forgotten \/ Fits(config)
        /\ setup' = Saved(config)
    <3>1. CASE setup = Missing
      <4>1. setup # Saved(setup.config)
        BY <3>1 DEF Missing, Saved
      <4>2. forgotten \/ \A i \in Infra : system[i].database = 0 /\ system[i].admin = 0
        BY <1>2, <3>1, <4>1 DEF WizardInv, SetupKnows
      <4> QED BY <1>2, <3>1, <4>2, SetupSet DEF StartWizard, Fits, FitsIn, Unset
    <3>2. CASE setup # Missing
      BY <1>2, <3>2 DEF StartWizard, WizardInv, SetupKnows
    <3> QED BY <3>1, <3>2
  <2>2. SetupKnows'
    <3>1. setup'.config = config
      BY <2>1 DEF Saved
    <3> QED BY <1>0, <2>1, <3>1 DEF SetupKnows, Fits, FitsIn, Signed
  <2>3. PICK choice \in ChoicesOf(config) :
          LET read == [NotRunning EXCEPT !.pc = "running", !.config = [config EXCEPT !.infrastructure = choice]]
          IN  run' = IF choice \in DOMAIN Installation THEN read ELSE Ended(read, "unsupported")
    BY <1>2 DEF StartWizard
  <2> DEFINE chosen == [config EXCEPT !.infrastructure = choice]
  <2>4. choice \in Kinds \ {"generate"}
    BY <2>1, <2>3 DEF ChoicesOf, Kinds, AnyConfig
  <2>5. /\ chosen \in AnyConfig /\ chosen.infrastructure = choice /\ Signed(chosen)
        /\ forgotten \/ Fits(chosen)
    BY <2>1, <2>4 DEF AnyConfig, Signed, Fits, FitsIn
  <2>6. \/ run' = Ended([NotRunning EXCEPT !.config = chosen], "unsupported")
        \/ choice \in DOMAIN Installation /\ run' = [NotRunning EXCEPT !.pc = "running", !.config = chosen]
    <3>1. Ended([NotRunning EXCEPT !.pc = "running", !.config = chosen], "unsupported")
            = Ended([NotRunning EXCEPT !.config = chosen], "unsupported")
      BY SetupSet DEF Ended, RunState
    <3> QED BY <2>3, <3>1
  <2> HIDE DEF config, chosen
  <2> QED BY <1>0, <2>2, <2>5, <2>6, Begins
<1> QED BY <1>1, <1>2 DEF StartWizard

LEMMA StartGeneratorStep == ASSUME WizardInv, StartGenerator PROVE WizardInv'
<1> DEFINE config == [SetupConfig EXCEPT !.infrastructure = "generate"]
<1>1. config \in AnyConfig /\ config.infrastructure = "generate" /\ Signed(config)
  BY SetupSet DEF AnyConfig, Kinds, Signed
<1>2. run' = [NotRunning EXCEPT !.pc = "running", !.config = config]
  BY DEF StartGenerator, NotRunning
<1>3. SetupKnows'
  BY Unsaid DEF StartGenerator
<1>4. config.infrastructure \in DOMAIN Installation
  BY <1>1, StepNames
<1>5. UNCHANGED <<system, fresh, forgotten>>
  BY DEF StartGenerator
<1> HIDE DEF config
<1> QED BY <1>1, <1>2, <1>3, <1>4, <1>5, Begins

LEMMA KillWizardStep == ASSUME WizardInv, KillWizard PROVE WizardInv'
BY Over DEF KillWizard, End, Results, Unset

LEMMA RemoveSetupStep == ASSUME WizardInv, RemoveSetup PROVE WizardInv'
<1>1. /\ run' = run /\ run'.pc = "idle" /\ setup' = Missing /\ forgotten' = TRUE /\ system' = system /\ fresh' = fresh
  BY DEF RemoveSetup
<1>2. WizardTyped' /\ SetupKnows' /\ AppliedIsWanted' /\ FailureIsExplained'
  BY <1>1 DEF WizardInv, WizardTyped, SetupKnows, AppliedIsWanted, FailureIsExplained
<1>3. TokensSigned' /\ FilesAgree'
  BY <1>1 DEF WizardInv, TokensSigned, FilesAgree
<1> QED BY <1>1, <1>2, <1>3, Resting

\* The passwords of the services change, and neither their files nor anything else.
LEMMA FilesStay ==
    ASSUME WizardInv, system' \in [Infra -> Systems],
           \A i \in Infra : system'[i].files = system[i].files /\ system'[i].cut = system[i].cut
    PROVE  TokensSigned' /\ FilesAgree'
<1>1. DOMAIN system = Infra /\ DOMAIN system' = Infra
  BY DEF WizardInv, WizardTyped
<1> QED BY <1>1 DEF WizardInv, TokensSigned, FilesAgree

LEMMA ChangePasswordStep == ASSUME WizardInv, ChangePassword PROVE WizardInv'
<1>1. PICK i \in Infra : system' = [system EXCEPT ![i].admin = fresh + 1]
  BY DEF ChangePassword, WizardInv, WizardTyped
<1>2. run' = run /\ run'.pc = "idle" /\ forgotten' = TRUE /\ setup' = setup /\ fresh' = fresh + 1
  BY DEF ChangePassword
<1>3. system' \in [Infra -> Systems] /\ \A j \in Infra : system'[j].files = system[j].files /\ system'[j].cut = system[j].cut
  <2>1. fresh + 1 \in Nat /\ system \in [Infra -> Systems]
    BY DEF WizardInv, WizardTyped
  <2> QED BY <1>1, <2>1 DEF Systems
<1>4. WizardTyped'
  BY <1>2, <1>3 DEF WizardInv, WizardTyped
<1>5. SetupKnows'
  BY <1>2 DEF WizardInv, SetupKnows, Signed
<1>6. AppliedIsWanted' /\ FailureIsExplained'
  BY <1>2 DEF WizardInv, AppliedIsWanted, FailureIsExplained
<1> QED BY <1>2, <1>3, <1>4, <1>5, <1>6, FilesStay, Resting

LEMMA AskStep == ASSUME WizardInv, Ask PROVE WizardInv'
<1>0. run.pc = "running" /\ run \in RunState /\ run.config \in AnyConfig /\ run.result = Unset
  BY Ongoing DEF Ask, At
<1>1. UNCHANGED <<setup, rendered, system, fresh, forgotten>>
  BY DEF Ask, Stays
<1>2. PICK answer \in {"host", Unset} :
        run' = Following([run EXCEPT !.config.address = answer],
                         IF run.config.infrastructure = "docker" /\ run.config.address # Unset THEN 3 ELSE 1)
  BY <1>0 DEF Ask, AnyConfig
<1> DEFINE r == [run EXCEPT !.config.address = answer]
<1>3. /\ r \in RunState /\ r.pc = "running" /\ r.step = run.step /\ r.result = Unset
      /\ r.config \in AnyConfig /\ r.config.infrastructure = run.config.infrastructure
      /\ r.config.postgres = run.config.postgres /\ r.config.admin = run.config.admin
      /\ r.config.pub = run.config.pub /\ r.config.builder = run.config.builder
      /\ r.config.auth_key = run.config.auth_key
      /\ r.applied = run.applied /\ r.wanted = run.wanted /\ r.kept = run.kept
  BY <1>0 DEF RunState, AnyConfig
<1>4. /\ Signed(r.config) /\ (run.config.infrastructure # "generate" => forgotten \/ FitsIn(r.config, system'))
      /\ system' \in [Infra -> Systems] /\ fresh' \in Nat /\ (r.applied \cap Optional \subseteq r.wanted \/ r.kept)
  BY <1>0, <1>1, <1>3 DEF WizardInv, WizardTyped, RunKnows, Signed, Fits, FitsIn, AppliedIsWanted
<1>5. SetupKnows' /\ TokensSigned' /\ FilesAgree'
  BY <1>1, Unsaid
<1>6. /\ AtRun("docker") \/ AtRun("kubernetes") => run.step = 1
      /\ AtRun("remote_kubernetes") => run.step # 5
  <2>1. At("ask") /\ ~At("clear")
    BY DEF Ask, At
  <2> QED BY <1>0, <2>1, AtNumbers
<1>7. CASE run' = Following(r, 1)
  <2>1. WizardTyped' /\ RunKnows' /\ AppliedIsWanted' /\ FailureIsExplained'
    BY <1>0, <1>1, <1>3, <1>4, <1>7, Routine
  <2>2. /\ run'.config = r.config /\ run'.kept = r.kept /\ run'.wanted = r.wanted
        /\ run'.pc = "running" => run'.step = run.step + 1 /\ \A i \in Kinds : AtRun(i)' <=> AtRun(i)
    BY <1>0, <1>3, <1>7, Advances
  <2>3. Sealed' /\ DockerRuns' /\ KubernetesRuns'
    BY <1>6, <2>2 DEF Sealed, DockerRuns, KubernetesRuns, AtRun, Kinds
  <2>4. RemoteRuns'
    <3>1. run.step \in Nat
      BY <1>0 DEF RunState
    <3> QED BY <1>1, <1>3, <1>6, <2>2, <3>1 DEF WizardInv, RemoteRuns, AtRun, Kinds
  <2> QED BY <1>5, <2>1, <2>3, <2>4 DEF WizardInv
<1>8. CASE AtRun("docker") /\ run' = Following(r, 3)
  <2> HIDE DEF r
  <2>1. run' = [r EXCEPT !.step = 4] /\ Len(Steps) = 15
    <3>1. Len(Steps) = 15 /\ r.step + 3 = 4
      BY <1>3, <1>6, <1>8, DockerSteps
    <3>2. Following(r, 3) = [r EXCEPT !.step = @ + 3]
      BY <3>1 DEF Following
    <3> QED BY <1>3, <1>8, <3>1, <3>2 DEF RunState
  <2>2. /\ run' \in RunState /\ run'.step = 4 /\ run'.pc = "running" /\ run'.result = Unset /\ run'.config = r.config
        /\ run'.applied = r.applied /\ run'.wanted = r.wanted /\ run'.kept = r.kept
    BY <1>3, <2>1 DEF RunState
  <2>3. Steps' = Steps /\ run.config.infrastructure = "docker"
    BY <1>3, <1>8, <2>2 DEF Steps, AtRun
  <2>4. WizardTyped' /\ RunKnows'
    <3>1. WizardTyped'
      BY <1>1, <2>2 DEF WizardInv, WizardTyped
    <3>2. run'.step \in 1..Len(Steps)'
      <4>1. Len(Steps') = 15
        BY <2>1, <2>3
      <4>2. run'.step = 4
        BY <2>2
      <4> QED BY <4>1, <4>2
    <3> QED BY <1>1, <1>3, <1>4, <2>2, <2>3, <3>1, <3>2, StepNames DEF RunKnows, Signed, Fits
  <2>5. AppliedIsWanted' /\ FailureIsExplained'
    BY <1>4, <2>2 DEF AppliedIsWanted, FailureIsExplained, Unset
  <2>6. Sealed' /\ DockerRuns' /\ KubernetesRuns' /\ RemoteRuns'
    BY <1>3, <2>2, <2>3 DEF Sealed, DockerRuns, KubernetesRuns, RemoteRuns, AtRun
  <2> QED BY <1>5, <2>4, <2>5, <2>6 DEF WizardInv
<1> QED BY <1>0, <1>2, <1>7, <1>8 DEF AtRun

LEMMA FileTruncate == ASSUME WizardInv, TruncateSetup PROVE WizardInv'
<1>0. run.pc = "running" /\ run \in RunState /\ run.result = Unset
  BY Ongoing DEF TruncateSetup, At
<1>1. setup' = Torn /\ UNCHANGED <<rendered, system, fresh, forgotten>> /\ run' = Following(run, 1)
  BY DEF TruncateSetup, Stays, Continue
<1>2. /\ run'.config = run.config /\ run'.confirmed = run.confirmed /\ run'.kept = run.kept /\ run'.wanted = run.wanted
      /\ run'.pc = "running" => run'.step = run.step + 1 /\ \A i \in Kinds : AtRun(i)' <=> AtRun(i)
  BY <1>0, <1>1, Advances
<1>3. WizardTyped' /\ RunKnows' /\ AppliedIsWanted' /\ FailureIsExplained'
  <2>1. system' \in [Infra -> Systems] /\ fresh' \in Nat /\ Signed(run.config)
    BY <1>0, <1>1 DEF WizardInv, WizardTyped, RunKnows
  <2>2. run.config.infrastructure # "generate" => forgotten \/ FitsIn(run.config, system')
    BY <1>0, <1>1 DEF WizardInv, RunKnows, Fits, FitsIn
  <2>3. run.applied \cap Optional \subseteq run.wanted \/ run.kept
    BY DEF WizardInv, AppliedIsWanted
  <2> QED BY <1>0, <1>1, <2>1, <2>2, <2>3, Routine
<1>4. /\ AtRun("docker") \/ AtRun("kubernetes") => run.step \in {2, 7}
      /\ AtRun("remote_kubernetes") => run.step # 5
  <2>1. At("truncate") /\ ~At("clear")
    BY DEF TruncateSetup, At
  <2> QED BY <1>0, <2>1, AtNumbers
<1>5. Sealed' /\ DockerRuns' /\ KubernetesRuns'
  BY <1>2, <1>4 DEF WizardInv, Sealed, DockerRuns, KubernetesRuns, AtRun, Kinds
<1>6. RemoteRuns'
  <2>1. run.step \in Nat
    BY <1>0 DEF RunState
  <2> QED BY <1>1, <1>2, <1>4, <2>1 DEF WizardInv, RemoteRuns, AtRun, Kinds
<1>7. SetupKnows'
  BY <1>1 DEF SetupKnows
<1>8. TokensSigned' /\ FilesAgree'
  BY <1>1 DEF WizardInv, TokensSigned, FilesAgree
<1> QED BY <1>3, <1>5, <1>6, <1>7, <1>8 DEF WizardInv

LEMMA FileWrite == ASSUME WizardInv, WriteSetup PROVE WizardInv'
<1>0. run.pc = "running" /\ run \in RunState /\ run.result = Unset /\ run.config \in AnyConfig
  BY Ongoing DEF WriteSetup, At
<1>1. setup' = Saved(run.config) /\ UNCHANGED <<rendered, system, fresh, forgotten>> /\ run' = Following(run, 1)
  BY DEF WriteSetup, Stays, Continue
<1>2. /\ run'.config = run.config /\ run'.confirmed = run.confirmed /\ run'.kept = run.kept /\ run'.wanted = run.wanted
      /\ run'.pc = "running" => run'.step = run.step + 1 /\ \A i \in Kinds : AtRun(i)' <=> AtRun(i)
  BY <1>0, <1>1, Advances
<1>a. /\ Signed(run.config) /\ run.config.infrastructure # "generate"
      /\ forgotten \/ FitsIn(run.config, system')
  <2>1. ~AtRun("generate")
    BY <1>0, AtWhom DEF WriteSetup, At
  <2> QED BY <1>0, <1>1, <2>1 DEF WizardInv, RunKnows, Fits, FitsIn, AtRun
<1>3. WizardTyped' /\ RunKnows' /\ AppliedIsWanted' /\ FailureIsExplained'
  <2>1. system' \in [Infra -> Systems] /\ fresh' \in Nat
    BY <1>0, <1>1 DEF WizardInv, WizardTyped
  <2>3. run.applied \cap Optional \subseteq run.wanted \/ run.kept
    BY DEF WizardInv, AppliedIsWanted
  <2> QED BY <1>0, <1>1, <1>a, <2>1, <2>3, Routine
<1>4. /\ AtRun("docker") \/ AtRun("kubernetes") => run.step \in {3, 8}
      /\ AtRun("remote_kubernetes") => run.step # 5
  <2>1. At("write") /\ ~At("clear")
    BY DEF WriteSetup, At
  <2> QED BY <1>0, <2>1, AtNumbers
<1>5. Sealed' /\ DockerRuns' /\ KubernetesRuns'
  BY <1>1, <1>2, <1>4 DEF WizardInv, Sealed, DockerRuns, KubernetesRuns, AtRun, Kinds
<1>6. RemoteRuns'
  <2>1. run.step \in Nat
    BY <1>0 DEF RunState
  <2> QED BY <1>1, <1>2, <1>4, <2>1 DEF WizardInv, RemoteRuns, AtRun, Kinds
<1>7. SetupKnows'
  <2>1. setup'.config = run.config
    BY <1>1 DEF Saved
  <2> QED BY <1>0, <1>1, <1>a, <2>1 DEF SetupKnows, Fits, FitsIn, Signed
<1>8. TokensSigned' /\ FilesAgree'
  BY <1>1 DEF WizardInv, TokensSigned, FilesAgree
<1> QED BY <1>3, <1>5, <1>6, <1>7, <1>8 DEF WizardInv

LEMMA VerifyStep == ASSUME WizardInv, Verify PROVE WizardInv'
<1>0. run.pc = "running" /\ Stays /\ At("verify") /\ ~At("clear")
  BY DEF Verify, At
<1>1. CASE Failing
  BY <1>0, <1>1, Fails
<1>2. CASE Continue(run) /\ UNCHANGED <<setup, rendered, system, disturbances, fresh>>
  <2>1. run' = Following(run, 1) /\ UNCHANGED <<setup, rendered, system, fresh, forgotten>>
    BY <1>0, <1>2 DEF Continue, Stays
  <2>2. /\ AtRun("docker") \/ AtRun("kubernetes") => run.step = 4
        /\ AtRun("remote_kubernetes") => run.step # 5
    BY <1>0, AtNumbers
  <2> QED BY <1>0, <2>1, <2>2, Walks
<1> QED BY <1>1, <1>2 DEF Verify

\* A step that gives the invocation another configuration, with its secrets.
LEMMA Provides ==
    ASSUME WizardInv, run.pc = "running", NEW config \in AnyConfig, run' = Following([run EXCEPT !.config = config], 1),
           config.infrastructure = run.config.infrastructure, Signed(config),
           run.config.infrastructure # "generate" => forgotten \/ Fits(config),
           fresh' \in Nat, UNCHANGED <<setup, rendered, system, forgotten>>,
           AtRun("docker") \/ AtRun("kubernetes") => run.step \in {5, 6},
           (AtRun("docker") \/ AtRun("kubernetes")) /\ run.step = 6 =>
               config.pub = config.auth_key /\ config.builder = config.auth_key,
           AtRun("remote_kubernetes") => run.step # 5
    PROVE  WizardInv'
<1> DEFINE r == [run EXCEPT !.config = config]
<1>0. run \in RunState /\ run.result = Unset
  BY Ongoing
<1>1. /\ r \in RunState /\ r.pc = "running" /\ r.step = run.step /\ r.result = Unset /\ r.config = config
      /\ r.applied = run.applied /\ r.wanted = run.wanted /\ r.kept = run.kept
  BY <1>0 DEF RunState
<1>2. system' \in [Infra -> Systems] /\ FitsIn(config, system') = Fits(config)
      /\ (r.applied \cap Optional \subseteq r.wanted \/ r.kept)
  BY <1>1 DEF WizardInv, WizardTyped, Fits, AppliedIsWanted
<1> HIDE DEF r
<1>3. WizardTyped' /\ RunKnows' /\ AppliedIsWanted' /\ FailureIsExplained'
  BY <1>1, <1>2, Routine DEF r
<1>4. /\ run'.config = config /\ run'.kept = run.kept /\ run'.wanted = run.wanted
      /\ run'.pc = "running" => run'.step = run.step + 1 /\ \A i \in Kinds : AtRun(i)' <=> AtRun(i)
  BY <1>1, Advances DEF r
<1>5. Sealed' /\ DockerRuns' /\ KubernetesRuns'
  BY <1>4 DEF Sealed, DockerRuns, KubernetesRuns, AtRun, Kinds
<1>6. RemoteRuns'
  <2>1. run.step \in Nat
    BY <1>0 DEF RunState
  <2> QED BY <1>4, <2>1 DEF WizardInv, RemoteRuns, AtRun, Kinds
<1>7. SetupKnows' /\ TokensSigned' /\ FilesAgree'
  BY Unsaid
<1> QED BY <1>3, <1>5, <1>6, <1>7 DEF WizardInv

LEMMA GenerateSecretsStep == ASSUME WizardInv, GenerateSecrets PROVE WizardInv'
<1>0. run.pc = "running" /\ run \in RunState /\ run.config \in AnyConfig /\ fresh \in Nat
  BY Ongoing DEF GenerateSecrets, At, WizardInv, WizardTyped
<1> DEFINE config == Generate(run.config)
<1>1. /\ config \in AnyConfig /\ config.infrastructure = run.config.infrastructure
      /\ run.config.postgres # 0 => config.postgres = run.config.postgres
      /\ run.config.admin # 0 => config.admin = run.config.admin
      /\ run.config.auth_key # 0 => config.auth_key = run.config.auth_key
      /\ config.pub = run.config.pub /\ config.builder = run.config.builder
  <2> DEFINE Secret(old, n) == IF old = 0 THEN fresh + n ELSE old
  <2>1. Secret(run.config.postgres, 1) \in Nat /\ Secret(run.config.auth_key, 2) \in Nat /\ Secret(run.config.admin, 3) \in Nat
    BY <1>0 DEF AnyConfig
  <2>2. config = [run.config EXCEPT !.postgres = Secret(run.config.postgres, 1),
                                    !.auth_key = Secret(run.config.auth_key, 2),
                                    !.admin = Secret(run.config.admin, 3)]
    BY <1>0 DEF Generate, AnyConfig
  <2>3. /\ run.config.postgres # 0 => Secret(run.config.postgres, 1) = run.config.postgres
        /\ run.config.auth_key # 0 => Secret(run.config.auth_key, 2) = run.config.auth_key
        /\ run.config.admin # 0 => Secret(run.config.admin, 3) = run.config.admin
    OBVIOUS
  <2> HIDE DEF Secret, config
  <2> QED BY <1>0, <2>1, <2>2, <2>3 DEF AnyConfig
<1>2. Signed(config)
  BY <1>1 DEF WizardInv, RunKnows, Signed, GenerateSecrets, At
<1>3. run.config.infrastructure # "generate" => forgotten \/ Fits(config)
  BY <1>0, <1>1 DEF WizardInv, RunKnows, Fits, FitsIn
<1>4. run' = Following([run EXCEPT !.config = config], 1) /\ fresh' \in Nat /\ UNCHANGED <<setup, rendered, system, forgotten>>
  BY <1>0 DEF GenerateSecrets, Continue, Stays
<1>5. /\ AtRun("docker") \/ AtRun("kubernetes") => run.step = 5
      /\ ~AtRun("remote_kubernetes")
  <2>1. At("secrets")
    BY DEF GenerateSecrets
  <2>2. AtRun("docker") \/ AtRun("kubernetes") \/ AtRun("generate")
    BY <1>0, <2>1, AtWhom
  <2> QED BY <1>0, <2>1, <2>2, AtNumbers DEF AtRun
<1> HIDE DEF config
<1> QED BY <1>0, <1>1, <1>2, <1>3, <1>4, <1>5, Provides

LEMMA GenerateTokensStep == ASSUME WizardInv, GenerateTokens PROVE WizardInv'
<1>0. run.pc = "running" /\ run \in RunState /\ run.config \in AnyConfig /\ fresh \in Nat
  BY Ongoing DEF GenerateTokens, At, WizardInv, WizardTyped
<1>a. CASE Failing
  BY <1>0, <1>a, Fails DEF GenerateTokens
<1>b. CASE ~Failing
  <2> DEFINE config == [run.config EXCEPT !.pub = IF @ = 0 THEN run.config.auth_key ELSE @,
                                          !.builder = IF @ = 0 THEN run.config.auth_key ELSE @]
  <2>1. /\ config \in AnyConfig /\ config.infrastructure = run.config.infrastructure
        /\ config.postgres = run.config.postgres /\ config.admin = run.config.admin
        /\ config.auth_key = run.config.auth_key
        /\ config.pub = run.config.auth_key /\ config.builder = run.config.auth_key
    BY <1>0 DEF AnyConfig, WizardInv, RunKnows, Signed
  <2>2. Signed(config)
    BY <2>1 DEF Signed
  <2>3. run.config.infrastructure # "generate" => forgotten \/ Fits(config)
    BY <1>0, <2>1 DEF WizardInv, RunKnows, Fits, FitsIn
  <2>4. run' = Following([run EXCEPT !.config = config], 1) /\ fresh' \in Nat /\ UNCHANGED <<setup, rendered, system, forgotten>>
    <3>1. [run EXCEPT !.config.pub = IF @ = 0 THEN run.config.auth_key ELSE @,
                      !.config.builder = IF @ = 0 THEN run.config.auth_key ELSE @] = [run EXCEPT !.config = config]
      BY <1>0 DEF RunState, AnyConfig
    <3> QED BY <1>0, <1>b, <3>1 DEF GenerateTokens, Continue, Stays
  <2>5. /\ AtRun("docker") \/ AtRun("kubernetes") => run.step = 6
        /\ ~AtRun("remote_kubernetes")
    <3>1. At("tokens")
      BY DEF GenerateTokens
    <3>2. AtRun("docker") \/ AtRun("kubernetes") \/ AtRun("generate")
      BY <1>0, <3>1, AtWhom
    <3> QED BY <1>0, <3>1, <3>2, AtNumbers DEF AtRun
  <2> HIDE DEF config
  <2> QED BY <1>0, <2>1, <2>2, <2>3, <2>4, <2>5, Provides
<1> QED BY <1>a, <1>b

LEMMA GatewayTokenStep == ASSUME WizardInv, GatewayToken PROVE WizardInv'
<1>0. run.pc = "running" /\ run \in RunState /\ run.config \in AnyConfig /\ fresh \in Nat
  BY Ongoing DEF GatewayToken, At, WizardInv, WizardTyped
<1> DEFINE config == [run.config EXCEPT !.gateway = IF @ = 0 THEN fresh + 1 ELSE @]
<1>1. /\ config \in AnyConfig /\ config.infrastructure = run.config.infrastructure
      /\ config.postgres = run.config.postgres /\ config.admin = run.config.admin
      /\ config.auth_key = run.config.auth_key
      /\ config.pub = run.config.pub /\ config.builder = run.config.builder
  BY <1>0 DEF AnyConfig
<1>2. Signed(config)
  BY <1>0, <1>1 DEF WizardInv, RunKnows, Signed
<1>3. run.config.infrastructure # "generate" => forgotten \/ Fits(config)
  BY <1>0, <1>1 DEF WizardInv, RunKnows, Fits, FitsIn
<1>4. run' = Following([run EXCEPT !.config = config], 1) /\ fresh' \in Nat /\ UNCHANGED <<setup, rendered, system, forgotten>>
  <2>1. [run EXCEPT !.config.gateway = IF @ = 0 THEN fresh + 1 ELSE @] = [run EXCEPT !.config = config]
    BY <1>0 DEF RunState, AnyConfig
  <2> QED BY <1>0, <2>1 DEF GatewayToken, Continue, Stays
<1>5. /\ ~(AtRun("docker") \/ AtRun("kubernetes"))
      /\ AtRun("remote_kubernetes") => run.step # 5
  <2>1. At("gateway") /\ ~At("clear")
    BY DEF GatewayToken, At
  <2>2. AtRun("remote_docker") \/ AtRun("remote_kubernetes")
    BY <1>0, <2>1, AtWhom
  <2> QED BY <1>0, <2>1, <2>2, AtNumbers DEF AtRun
<1> HIDE DEF config
<1> QED BY <1>0, <1>1, <1>2, <1>3, <1>4, <1>5, Provides

\* A step after which only the files that were rendered are others.
LEMMA Renders ==
    ASSUME WizardInv, run.pc = "running", NEW r \in RunState, run' = Following(r, 1), r.pc = "running",
           r.step = run.step, r.result = Unset, r.config = run.config, r.applied = run.applied,
           r.confirmed = run.confirmed, run.wanted \subseteq r.wanted, r.kept = run.kept \/ r.kept = TRUE,
           UNCHANGED <<setup, system, fresh, forgotten>>,
           AtRun("docker") => \/ run.step = 9 /\ "docker/compose" \in DOMAIN rendered' /\ rendered'["docker/compose"] = run.config
                              \/ run.step = 10 /\ \A f \in Docker : f \in DOMAIN rendered' /\ rendered'[f] = run.config,
           AtRun("kubernetes") => \/ run.step = 9
                                  \/ run.step = 10 /\ "generated/env" \in DOMAIN rendered' /\ rendered'["generated/env"] = run.config
                                  \/ run.step = 11 /\ \A f \in ServicesOf("kubernetes") : f \in DOMAIN rendered' /\ rendered'[f] = run.config,
           AtRun("remote_kubernetes") /\ run.step >= 5 => DOMAIN rendered' \cap Optional \subseteq r.wanted \/ r.kept
    PROVE  WizardInv'
<1>0. run \in RunState /\ run.result = Unset /\ run.step \in Nat
  BY Ongoing DEF RunState
<1>1. WizardTyped' /\ RunKnows' /\ AppliedIsWanted' /\ FailureIsExplained'
  <2>1. system' \in [Infra -> Systems] /\ fresh' \in Nat /\ Signed(r.config)
    BY DEF WizardInv, WizardTyped, RunKnows
  <2>2. run.config.infrastructure # "generate" => forgotten \/ FitsIn(r.config, system')
    BY DEF WizardInv, RunKnows, Fits
  <2>3. r.applied \cap Optional \subseteq r.wanted \/ r.kept
    BY <1>0 DEF WizardInv, AppliedIsWanted, RunState
  <2> QED BY <2>1, <2>2, <2>3, Routine
<1>2. /\ run'.config = run.config /\ run'.kept = r.kept /\ run'.wanted = r.wanted /\ run'.confirmed = run.confirmed
      /\ run'.pc = "running" => run'.step = run.step + 1 /\ \A i \in Kinds : AtRun(i)' <=> AtRun(i)
  BY Advances
<1>3. Sealed'
  BY <1>0, <1>2 DEF WizardInv, Sealed, AtRun, Kinds
<1>4. DockerRuns'
  BY <1>0, <1>2 DEF WizardInv, DockerRuns, HasRendered, AtRun, Kinds, Docker
<1>5. KubernetesRuns'
  BY <1>0, <1>2 DEF WizardInv, KubernetesRuns, HasRendered, AtRun, Kinds, ServicesOf
<1>6. RemoteRuns'
  BY <1>0, <1>2 DEF RemoteRuns, AtRun, Kinds
<1>7. SetupKnows' /\ TokensSigned' /\ FilesAgree'
  BY Unsaid
<1> QED BY <1>1, <1>3, <1>4, <1>5, <1>6, <1>7 DEF WizardInv

LEMMA GeneratedDirStep == ASSUME WizardInv, GeneratedDir PROVE WizardInv'
<1>0. run.pc = "running" /\ run \in RunState /\ run.result = Unset /\ At("clear") /\ UNCHANGED <<setup, system, fresh, forgotten>>
  BY Ongoing DEF GeneratedDir, At, Stays
<1>1. /\ AtRun("kubernetes") => run.step = 9
      /\ ~AtRun("docker")
  <2>1. AtRun("kubernetes") \/ AtRun("remote_kubernetes")
    BY <1>0, AtWhom
  <2> QED BY <1>0, <2>1, AtNumbers DEF AtRun
<1>2. CASE rendered' = Outside(Generated) /\ Continue(run)
  <2>1. DOMAIN rendered' \cap Optional = {}
    BY <1>2 DEF Outside, Generated
  <2> QED BY <1>0, <1>1, <1>2, <2>1, Renders DEF Continue
<1>3. CASE UNCHANGED rendered /\ Continue([run EXCEPT !.kept = TRUE])
  <2> DEFINE r == [run EXCEPT !.kept = TRUE]
  <2>1. /\ r \in RunState /\ r.pc = "running" /\ r.step = run.step /\ r.result = Unset /\ r.config = run.config
        /\ r.applied = run.applied /\ r.confirmed = run.confirmed /\ r.wanted = run.wanted /\ r.kept = TRUE
    BY <1>0 DEF RunState
  <2>2. run' = Following(r, 1)
    BY <1>3 DEF Continue
  <2> HIDE DEF r
  <2> QED BY <1>0, <1>1, <2>1, <2>2, Renders
<1> QED BY <1>2, <1>3 DEF GeneratedDir

LEMMA CleanStep == ASSUME WizardInv, Clean PROVE WizardInv'
<1>0. /\ run.pc = "running" /\ run \in RunState /\ run.result = Unset /\ At("clean") /\ run' = Following(run, 1)
      /\ UNCHANGED <<setup, system, fresh, forgotten>>
  BY Ongoing DEF Clean, At, Stays, Continue
<1>1. ~AtRun("docker") /\ ~AtRun("kubernetes") /\ ~AtRun("remote_kubernetes")
  BY <1>0, AtWhom DEF AtRun
<1> QED BY <1>0, <1>1, Renders

LEMMA RenderedFile ==
    ASSUME NEW f, rendered' = Rendered(f)
    PROVE  /\ DOMAIN rendered' = DOMAIN rendered \cup {f} /\ rendered'[f] = run.config
           /\ \A g : HasRendered(g) => g \in DOMAIN rendered' /\ rendered'[g] = run.config
BY DEF Rendered, HasRendered

LEMMA TemplateFileStep == ASSUME WizardInv, TemplateFile PROVE WizardInv'
<1>0. run.pc = "running" /\ run \in RunState /\ run.result = Unset /\ Steps[run.step] \in Templates /\ Stays
  BY Ongoing DEF TemplateFile
<1>1. CASE Failing
  BY <1>0, <1>1, Fails
<1>2. CASE ~Failing
  <2>1. /\ rendered' = Rendered(Steps[run.step]) /\ run' = Following(run, 1)
        /\ UNCHANGED <<setup, system, fresh, forgotten>>
    BY <1>0, <1>2 DEF TemplateFile, Continue, Stays
  <2>2. /\ DOMAIN rendered' = DOMAIN rendered \cup {Steps[run.step]} /\ rendered'[Steps[run.step]] = run.config
        /\ \A g : HasRendered(g) => g \in DOMAIN rendered' /\ rendered'[g] = run.config
    BY <2>1, RenderedFile
  <2>3. Steps[run.step] \in {"docker/compose", "docker/env", "generated/env", "generated/pub", "remote_pub",
                             "kustomize/env", "kustomize/pub", "plugin_config"}
    BY <1>0 DEF Templates, Docker, Generated, Kustomize, Optional
  <2>4. AtRun("docker") => \/ run.step = 9 /\ Steps[run.step] = "docker/compose"
                           \/ run.step = 10 /\ Steps[run.step] = "docker/env" /\ HasRendered("docker/compose")
    BY <2>3, DockerSteps DEF WizardInv, DockerRuns
  <2>5. AtRun("kubernetes") => \/ run.step = 10 /\ Steps[run.step] = "generated/env"
                               \/ run.step = 11 /\ Steps[run.step] = "generated/pub" /\ HasRendered("generated/env")
    BY <2>3, KubernetesSteps DEF WizardInv, KubernetesRuns
  <2>6. AtRun("remote_kubernetes") /\ run.step >= 5 => DOMAIN rendered' \cap Optional \subseteq run.wanted \/ run.kept
    <3>1. Steps[run.step] \notin Optional
      BY <2>3 DEF Optional
    <3>2. AtRun("remote_kubernetes") => run.step # 5 /\ run.step \in Nat
      BY <2>3, RemoteKubernetesSteps
    <3> QED BY <2>2, <3>1, <3>2 DEF WizardInv, RemoteRuns
  <2>7. AtRun("docker") => \/ run.step = 9 /\ "docker/compose" \in DOMAIN rendered' /\ rendered'["docker/compose"] = run.config
                           \/ run.step = 10 /\ \A f \in Docker : f \in DOMAIN rendered' /\ rendered'[f] = run.config
    BY <2>2, <2>4 DEF Docker
  <2>8. AtRun("kubernetes") =>
           \/ run.step = 10 /\ "generated/env" \in DOMAIN rendered' /\ rendered'["generated/env"] = run.config
           \/ run.step = 11 /\ \A f \in ServicesOf("kubernetes") : f \in DOMAIN rendered' /\ rendered'[f] = run.config
    BY <2>2, <2>5 DEF ServicesOf
  <2> QED BY <1>0, <2>1, <2>6, <2>7, <2>8, Renders
<1> QED BY <1>1, <1>2

LEMMA TemplateOptionalStep == ASSUME WizardInv, TemplateOptional PROVE WizardInv'
<1>0. run.pc = "running" /\ run \in RunState /\ run.result = Unset /\ Steps[run.step] \in Optional /\ Stays
  BY Ongoing DEF TemplateOptional
<1>a. /\ AtRun("remote_kubernetes") /\ ~AtRun("docker") /\ ~AtRun("kubernetes") /\ run.step # 5 /\ run.step \in Nat
  <2>1. At("namespace") \/ At("roles") \/ At("ingress")
    BY <1>0 DEF Optional, At
  <2>2. AtRun("remote_kubernetes")
    BY <1>0, <2>1, AtWhom
  <2>3. run.step # 5 /\ run.step \in Nat
    BY <1>0, <2>2, RemoteKubernetesSteps DEF Optional
  <2> QED BY <2>2, <2>3 DEF AtRun
<1>1. CASE Failing
  BY <1>0, <1>1, Fails
<1>2. CASE /\ rendered' = Rendered(Steps[run.step])
           /\ Continue([run EXCEPT !.wanted = @ \cup {Steps[run.step]}])
           /\ UNCHANGED <<setup, system, disturbances, fresh>>
  <2> DEFINE r == [run EXCEPT !.wanted = @ \cup {Steps[run.step]}]
  <2>1. /\ r \in RunState /\ r.pc = "running" /\ r.step = run.step /\ r.result = Unset /\ r.config = run.config
        /\ r.applied = run.applied /\ r.confirmed = run.confirmed /\ r.wanted = run.wanted \cup {Steps[run.step]}
        /\ r.kept = run.kept
    <3>1. run.wanted \cup {Steps[run.step]} \in SUBSET Optional
      BY <1>0 DEF RunState
    <3> QED BY <1>0, <3>1 DEF RunState
  <2>2. run' = Following(r, 1) /\ UNCHANGED <<setup, system, fresh, forgotten>>
    BY <1>0, <1>2 DEF Continue, Stays
  <2>3. DOMAIN rendered' = DOMAIN rendered \cup {Steps[run.step]}
    BY <1>2, RenderedFile
  <2>4. AtRun("remote_kubernetes") /\ run.step >= 5 => DOMAIN rendered' \cap Optional \subseteq r.wanted \/ r.kept
    BY <1>a, <2>1, <2>3 DEF WizardInv, RemoteRuns
  <2> HIDE DEF r
  <2> QED BY <1>0, <1>a, <2>1, <2>2, <2>4, Renders
<1>3. CASE Continue(run) /\ UNCHANGED <<setup, rendered, system, disturbances, fresh>>
  BY <1>0, <1>a, <1>3, Walks DEF Continue, Stays
<1> QED BY <1>1, <1>2, <1>3 DEF TemplateOptional

\* What a start makes of the services: their files are those of this invocation.
LEMMA StartsWhat ==
    ASSUME WizardInv, AtRun("docker") \/ AtRun("kubernetes"), \A f \in ServicesOf(Installed) : HasRendered(f),
           system' = Started
    PROVE  /\ Installed \in Infra /\ system' \in [Infra -> Systems]
           /\ system'[Installed].files = [f \in ServicesOf(Installed) |-> run.config]
           /\ system'[Installed].database = IF Services.database = 0 THEN run.config.postgres ELSE Services.database
           /\ system'[Installed].admin = Services.admin
           /\ \A i \in Infra \ {Installed} : system'[i] = system[i]
<1>1. Installed \in Infra /\ run.config \in AnyConfig /\ system \in [Infra -> Systems]
  BY Ongoing DEF Installed, AtRun, Infra, WizardInv, WizardTyped
<1>2. EnvOf(Installed) \in ServicesOf(Installed)
  BY <1>1 DEF EnvOf, ServicesOf, Docker, Infra
<1>3. [f \in ServicesOf(Installed) |-> rendered[f]] = [f \in ServicesOf(Installed) |-> run.config]
  BY DEF HasRendered
<1>4. rendered[EnvOf(Installed)] = run.config
  BY <1>2 DEF HasRendered
<1> DEFINE files == [f \in ServicesOf(Installed) |-> run.config]
           database == IF Services.database = 0 THEN run.config.postgres ELSE Services.database
<1>5. system' = [system EXCEPT ![Installed].files = files, ![Installed].database = database,
                                 ![Installed].cut = FALSE]
  BY <1>1, <1>3, <1>4 DEF Started, Services
<1>6. Services \in Systems /\ database \in Nat
  BY <1>1 DEF Services, Systems, AnyConfig
<1>7. files \in AnyFiles
  <2>1. files \in [ServicesOf(Installed) -> AnyConfig]
    BY <1>1
  <2>2. ServicesOf(Installed) \in SUBSET (Docker \cup ServicesOf("kubernetes"))
    BY <1>1 DEF ServicesOf, Infra
  <2> QED BY <2>1, <2>2 DEF AnyFiles
<1> HIDE DEF files, database
<1> DEFINE services == [Services EXCEPT !.files = files, !.database = database, !.cut = FALSE]
<1>a. system' = [system EXCEPT ![Installed] = services]
  BY <1>1, <1>5 DEF Services
<1>b. /\ services \in Systems /\ services.files = files /\ services.database = database
      /\ services.admin = Services.admin
  <2>1. PICK s \in Systems, f \in AnyFiles, d \in Nat : s = Services /\ f = files /\ d = database
    BY <1>6, <1>7
  <2> DEFINE t == [s EXCEPT !.files = f, !.database = d, !.cut = FALSE]
  <2>2. t \in Systems /\ t.files = f /\ t.database = d /\ t.admin = s.admin
    BY DEF Systems
  <2>3. services = t
    BY <2>1
  <2> HIDE DEF t, services
  <2> QED BY <2>1, <2>2, <2>3
<1> HIDE DEF services
<1>8. system' \in [Infra -> Systems]
  BY <1>1, <1>a, <1>b
<1>9. /\ system'[Installed].files = files /\ system'[Installed].database = database
      /\ system'[Installed].admin = Services.admin
      /\ \A i \in Infra \ {Installed} : system'[i] = system[i]
  BY <1>1, <1>a, <1>b
<1> QED BY <1>1, <1>8, <1>9 DEF files, database

LEMMA Starts ==
    ASSUME WizardInv, AtRun("docker") \/ AtRun("kubernetes"), run.step >= 9,
           \A f \in ServicesOf(Installed) : HasRendered(f),
           system' = Started, UNCHANGED <<setup, forgotten>>, run'.config = run.config
    PROVE  /\ system' \in [Infra -> Systems] /\ (forgotten \/ FitsIn(run.config, system'))
           /\ SetupKnows' /\ TokensSigned' /\ FilesAgree' /\ Launched'
<1>1. /\ Installed \in Infra /\ system' \in [Infra -> Systems]
      /\ system'[Installed].files = [f \in ServicesOf(Installed) |-> run.config]
      /\ system'[Installed].database = IF Services.database = 0 THEN run.config.postgres ELSE Services.database
      /\ system'[Installed].admin = Services.admin
      /\ \A i \in Infra \ {Installed} : system'[i] = system[i]
  BY StartsWhat
<1>2. /\ forgotten \/ Fits(run.config)
      /\ run.config.pub = run.config.auth_key /\ run.config.builder = run.config.auth_key
      /\ setup = Saved(run.config) /\ run.config \in AnyConfig /\ run.step \in Nat
  BY Ongoing DEF WizardInv, RunKnows, Sealed, AtRun, RunState
<1>3. forgotten \/ FitsIn(run.config, system')
  <2> SUFFICES ASSUME ~forgotten, NEW i \in Infra
               PROVE  /\ system'[i].database # 0 => run.config.postgres = system'[i].database
                      /\ system'[i].admin # 0 => run.config.admin = system'[i].admin
    BY DEF FitsIn
  <2> QED BY <1>1, <1>2 DEF Fits, FitsIn, Services
<1>4. SetupKnows'
  <2>1. setup'.config = run.config /\ run.config.infrastructure # "generate"
    BY <1>2 DEF Saved, AtRun
  <2> QED BY <1>2, <1>3, <2>1 DEF SetupKnows, Fits, FitsIn, WizardInv, RunKnows, Signed, AtRun
<1>5. TokensSigned'
  <2> SUFFICES ASSUME NEW i \in Infra, NEW f \in DOMAIN system'[i].files
               PROVE  system'[i].files[f].pub = system'[i].files[f].auth_key
                      /\ system'[i].files[f].builder = system'[i].files[f].auth_key
    BY <1>1 DEF TokensSigned
  <2>1. CASE i = Installed
    BY <1>1, <1>2, <2>1
  <2>2. CASE i # Installed
    BY <1>1, <2>2 DEF WizardInv, WizardTyped, TokensSigned
  <2> QED BY <2>1, <2>2
<1>6. FilesAgree'
  <2> SUFFICES ASSUME NEW i \in Infra, ~system'[i].cut,
                      NEW f \in DOMAIN system'[i].files, NEW g \in DOMAIN system'[i].files
               PROVE  system'[i].files[f] = system'[i].files[g]
    BY <1>1 DEF FilesAgree
  <2>1. CASE i = Installed
    BY <1>1, <2>1
  <2>2. CASE i # Installed
    BY <1>1, <2>2 DEF WizardInv, WizardTyped, FilesAgree
  <2> QED BY <2>1, <2>2
<1>7. Launched'
  <2>1. EnvOf(Installed) \in ServicesOf(Installed)
    BY <1>1 DEF EnvOf, ServicesOf, Docker, Infra
  <2>2. EnvOf(Installed) \in DOMAIN system'[Installed].files /\ system'[Installed].files[EnvOf(Installed)] = run.config
    BY <1>1, <2>1
  <2>3. forgotten \/ system'[Installed].database = run.config.postgres
    BY <1>1, <1>2 DEF Fits, FitsIn, Services
  <2>4. Installed' = Installed /\ Services' = system'[Installed]
    BY DEF Installed, Services
  <2> QED BY <2>2, <2>3, <2>4 DEF Launched, EnvOf
<1> QED BY <1>1, <1>3, <1>4, <1>5, <1>6, <1>7

\* A start, once everything is rendered.
LEMMA Launches ==
    ASSUME WizardInv, run.pc = "running",
           \/ AtRun("docker") /\ run.step = 11
           \/ AtRun("kubernetes") /\ run.step = 12,
           NEW r \in RunState, run' = Following(r, 1), r.pc = "running", r.step = run.step, r.result = Unset,
           r.config = run.config, r.applied \cap Optional \subseteq r.wanted \/ r.kept, system' = Started, UNCHANGED <<setup, rendered, fresh, forgotten>>
    PROVE  WizardInv'
<1>1. \A f \in ServicesOf(Installed) : HasRendered(f)
  <2>1. CASE AtRun("docker") /\ run.step = 11
    BY <2>1 DEF WizardInv, DockerRuns, AtRun, Installed, ServicesOf, Docker
  <2>2. CASE AtRun("kubernetes") /\ run.step = 12
    BY <2>2 DEF WizardInv, KubernetesRuns, AtRun, Installed, ServicesOf
  <2> QED BY <2>1, <2>2
<1>2. /\ run'.config = run.config
      /\ run'.pc = "running" => run'.step = run.step + 1 /\ \A i \in Kinds : AtRun(i)' <=> AtRun(i)
  BY Advances
<1>3. /\ system' \in [Infra -> Systems] /\ (forgotten \/ FitsIn(run.config, system'))
      /\ SetupKnows' /\ TokensSigned' /\ FilesAgree' /\ Launched'
  BY <1>1, <1>2, Starts
<1>4. WizardTyped' /\ RunKnows' /\ AppliedIsWanted' /\ FailureIsExplained'
  <2>1. fresh' \in Nat /\ Signed(r.config)
    BY DEF WizardInv, WizardTyped, RunKnows
  <2> QED BY <1>3, <2>1, Routine
<1>5. Sealed'
  BY <1>2 DEF WizardInv, Sealed, AtRun, Kinds
<1>6. DockerRuns'
  BY <1>2, <1>3 DEF WizardInv, DockerRuns, HasRendered, AtRun, Kinds
<1>7. KubernetesRuns'
  BY <1>2, <1>3 DEF WizardInv, KubernetesRuns, HasRendered, AtRun, Kinds
<1>8. RemoteRuns'
  BY <1>2 DEF RemoteRuns, AtRun, Kinds
<1> QED BY <1>3, <1>4, <1>5, <1>6, <1>7, <1>8 DEF WizardInv

\* A start that fails once it has started what some of the files describe.
LEMMA PartlyWhat ==
    ASSUME WizardInv, run.pc = "running",
           \/ AtRun("docker") /\ run.step = 11
           \/ AtRun("kubernetes") /\ run.step = 12,
           StartFailsPartly, Stays
    PROVE  /\ Installed \in Infra /\ run.config \in AnyConfig /\ system \in [Infra -> Systems] /\ run \in RunState
           /\ run' = Ended(run, "failed") /\ UNCHANGED <<setup, rendered, fresh, forgotten>>
           /\ system' \in [Infra -> Systems] /\ system'[Installed].cut = TRUE
           /\ \A f \in DOMAIN system'[Installed].files :
                  \/ system'[Installed].files[f] = run.config
                  \/ /\ f \in DOMAIN Services.files
                     /\ system'[Installed].files[f] = Services.files[f]
           /\ system'[Installed].database
                  \in {Services.database, IF Services.database = 0 THEN run.config.postgres ELSE Services.database}
           /\ system'[Installed].admin = Services.admin
           /\ \A i \in Infra \ {Installed} : system'[i] = system[i]
<1>0. /\ Installed \in Infra /\ run.config \in AnyConfig /\ system \in [Infra -> Systems] /\ run \in RunState
      /\ run' = Ended(run, "failed") /\ UNCHANGED <<setup, rendered, fresh, forgotten>>
  BY Ongoing DEF Installed, AtRun, Infra, WizardInv, WizardTyped, StartFailsPartly, Stays, End
<1>1. \A f \in ServicesOf(Installed) : HasRendered(f)
  <2>1. CASE AtRun("docker") /\ run.step = 11
    BY <2>1 DEF WizardInv, DockerRuns, AtRun, Installed, ServicesOf, Docker
  <2>2. CASE AtRun("kubernetes") /\ run.step = 12
    BY <2>2 DEF WizardInv, KubernetesRuns, AtRun, Installed, ServicesOf
  <2> QED BY <2>1, <2>2
<1>2. PICK files \in SUBSET ServicesOf(Installed) : \E initialised \in BOOLEAN : system' = Partly(files, initialised)
  BY DEF StartFailsPartly
<1> DEFINE now == [f \in DOMAIN Services.files \cup files |-> IF f \in files THEN run.config ELSE Services.files[f]]
<1>3. PICK database \in {Services.database, IF Services.database = 0 THEN run.config.postgres ELSE Services.database} :
        system' = [system EXCEPT ![Installed].files = now, ![Installed].database = database, ![Installed].cut = TRUE]
  <2>1. EnvOf(Installed) \in ServicesOf(Installed)
    BY <1>0 DEF EnvOf, ServicesOf, Docker, Infra
  <2>2. rendered[EnvOf(Installed)] = run.config /\ \A f \in files : rendered[f] = run.config
    BY <1>1, <2>1 DEF HasRendered
  <2>3. now = [f \in DOMAIN Services.files \cup files |-> IF f \in files THEN rendered[f] ELSE Services.files[f]]
    BY <2>2
  <2>4. PICK initialised \in BOOLEAN : system' = Partly(files, initialised)
    BY <1>2
  <2>5. system' = [system EXCEPT
                     ![Installed].files = now,
                     ![Installed].database = IF Services.database = 0 /\ initialised THEN run.config.postgres ELSE Services.database,
                     ![Installed].cut = TRUE]
    BY <1>0, <2>2, <2>3, <2>4 DEF Partly, Services
  <2>6. CASE initialised
    BY <2>5, <2>6
  <2>7. CASE ~initialised
    BY <2>5, <2>7
  <2> QED BY <2>6, <2>7, Zenon
<1>4. Services \in Systems /\ database \in Nat
  <2>1. Services \in Systems
    BY <1>0 DEF Services
  <2>2. run.config.postgres \in Nat /\ Services.database \in Nat
    BY <1>0, <2>1 DEF Systems, AnyConfig
  <2> QED BY <1>3, <2>1, <2>2
<1>5. now \in AnyFiles
  <2>1. PICK D \in SUBSET (Docker \cup ServicesOf("kubernetes")) : Services.files \in [D -> AnyConfig]
    BY <1>4 DEF Systems, AnyFiles
  <2>2. D \cup files \in SUBSET (Docker \cup ServicesOf("kubernetes"))
    BY <1>0, <2>1 DEF ServicesOf, Infra
  <2>3. now \in [D \cup files -> AnyConfig]
    BY <1>0, <2>1
  <2> QED BY <2>2, <2>3 DEF AnyFiles
<1>6. /\ DOMAIN now = DOMAIN Services.files \cup files
      /\ \A f \in DOMAIN now : \/ now[f] = run.config
                              \/ /\ f \in DOMAIN Services.files
                                 /\ now[f] = Services.files[f]
  <2>1. DOMAIN now = DOMAIN Services.files \cup files
    OBVIOUS
  <2>2. \A f \in DOMAIN Services.files \cup files :
          now[f] = IF f \in files THEN run.config ELSE Services.files[f]
    OBVIOUS
  <2> HIDE DEF now
  <2> QED BY <2>1, <2>2
<1> HIDE DEF now
<1> DEFINE services == [Services EXCEPT !.files = now, !.database = database, !.cut = TRUE]
<1>a. system' = [system EXCEPT ![Installed] = services]
  BY <1>0, <1>3 DEF Services
<1>b. /\ services \in Systems /\ services.files = now /\ services.database = database /\ services.cut = TRUE
      /\ services.admin = Services.admin
  <2>1. PICK s \in Systems, f \in AnyFiles, d \in Nat : s = Services /\ f = now /\ d = database
    BY <1>4, <1>5
  <2> DEFINE t == [s EXCEPT !.files = f, !.database = d, !.cut = TRUE]
  <2>2. t \in Systems /\ t.files = f /\ t.database = d /\ t.cut = TRUE /\ t.admin = s.admin
    BY DEF Systems
  <2>3. services = t
    BY <2>1
  <2> HIDE DEF t, services
  <2> QED BY <2>1, <2>2, <2>3
<1> HIDE DEF services
<1>7. /\ system' \in [Infra -> Systems]
      /\ system'[Installed].files = now /\ system'[Installed].database = database /\ system'[Installed].cut = TRUE
      /\ system'[Installed].admin = Services.admin
      /\ \A i \in Infra \ {Installed} : system'[i] = system[i]
  BY <1>0, <1>a, <1>b
<1> QED BY <1>0, <1>3, <1>6, <1>7

LEMMA StartsPartly ==
    ASSUME WizardInv, run.pc = "running",
           \/ AtRun("docker") /\ run.step = 11
           \/ AtRun("kubernetes") /\ run.step = 12,
           StartFailsPartly, Stays
    PROVE  WizardInv'
<1>0. /\ Installed \in Infra /\ run.config \in AnyConfig /\ system \in [Infra -> Systems] /\ run \in RunState
      /\ run' = Ended(run, "failed") /\ UNCHANGED <<setup, rendered, fresh, forgotten>>
  BY PartlyWhat
<1>7. /\ system' \in [Infra -> Systems] /\ system'[Installed].cut = TRUE
      /\ \A f \in DOMAIN system'[Installed].files :
             \/ system'[Installed].files[f] = run.config
             \/ /\ f \in DOMAIN Services.files
                /\ system'[Installed].files[f] = Services.files[f]
      /\ system'[Installed].database
             \in {Services.database, IF Services.database = 0 THEN run.config.postgres ELSE Services.database}
      /\ system'[Installed].admin = Services.admin
      /\ \A i \in Infra \ {Installed} : system'[i] = system[i]
  BY PartlyWhat
<1>8. /\ forgotten \/ Fits(run.config)
      /\ run.config.pub = run.config.auth_key /\ run.config.builder = run.config.auth_key
      /\ setup = Saved(run.config) /\ Signed(run.config) /\ run.config.infrastructure # "generate"
  BY DEF WizardInv, RunKnows, Sealed, AtRun
<1>9. forgotten \/ FitsIn(run.config, system')
  <2> SUFFICES ASSUME ~forgotten, NEW i \in Infra
               PROVE  /\ system'[i].database # 0 => run.config.postgres = system'[i].database
                      /\ system'[i].admin # 0 => run.config.admin = system'[i].admin
    BY DEF FitsIn
  <2> QED BY <1>7, <1>8 DEF Fits, FitsIn, Services
<1>10. SetupKnows'
  <2>1. setup'.config = run.config
    BY <1>0, <1>8 DEF Saved
  <2> QED BY <1>0, <1>8, <1>9, <2>1 DEF SetupKnows, Fits, FitsIn, Signed
<1>11. TokensSigned'
  <2> SUFFICES ASSUME NEW i \in Infra, NEW f \in DOMAIN system'[i].files
               PROVE  system'[i].files[f].pub = system'[i].files[f].auth_key
                      /\ system'[i].files[f].builder = system'[i].files[f].auth_key
    BY <1>7 DEF TokensSigned
  <2>1. CASE i = Installed
    BY <1>0, <1>7, <1>8, <2>1 DEF WizardInv, WizardTyped, TokensSigned, Services
  <2>2. CASE i # Installed
    BY <1>7, <2>2 DEF WizardInv, WizardTyped, TokensSigned
  <2> QED BY <2>1, <2>2
<1>12. FilesAgree'
  <2> SUFFICES ASSUME NEW i \in Infra, ~system'[i].cut,
                      NEW f \in DOMAIN system'[i].files, NEW g \in DOMAIN system'[i].files
               PROVE  system'[i].files[f] = system'[i].files[g]
    BY <1>7 DEF FilesAgree
  <2>1. i # Installed
    BY <1>7
  <2> QED BY <1>7, <2>1 DEF WizardInv, WizardTyped, FilesAgree
<1>13. /\ run' \in RunState /\ run'.pc = "idle" /\ run'.result = "failed" /\ run'.applied = run.applied
       /\ run'.wanted = run.wanted /\ run'.kept = run.kept
  BY <1>0 DEF Ended, RunState, Results
<1>14. WizardTyped' /\ AppliedIsWanted' /\ FailureIsExplained'
  BY <1>0, <1>7, <1>13 DEF WizardInv, WizardTyped, AppliedIsWanted, FailureIsExplained
<1> QED BY <1>10, <1>11, <1>12, <1>13, <1>14, Resting

LEMMA UpStep == ASSUME WizardInv, Up PROVE WizardInv'
<1>0. run.pc = "running" /\ run \in RunState /\ run.result = Unset /\ At("up") /\ Stays
  BY Ongoing DEF Up, At
<1>1. CASE Failing
  BY <1>0, <1>1, Fails
<1>2. CASE system' = Started /\ Continue(run) /\ UNCHANGED <<setup, rendered, disturbances, fresh>>
  <2>1. AtRun("docker") /\ run.step = 11
    BY <1>0, AtWhom, AtNumbers
  <2>2. run.applied \cap Optional \subseteq run.wanted \/ run.kept
    BY DEF WizardInv, AppliedIsWanted
  <2> QED BY <1>0, <1>2, <2>1, <2>2, Launches DEF Continue, Stays
<1>3. CASE StartFailsPartly
  <2>1. AtRun("docker") /\ run.step = 11
    BY <1>0, AtWhom, AtNumbers
  <2> QED BY <1>0, <1>3, <2>1, StartsPartly
<1> QED BY <1>1, <1>2, <1>3 DEF Up

\* Nothing of Racetrack is started: it is a remote Pub, or the user declined.
LEMMA LeavesAsIs ==
    ASSUME WizardInv, run.pc = "running",
           NEW r \in RunState, run' = Following(r, 1),
           \/ AtRun("remote_kubernetes") /\ run.step # 5
           \/ AtRun("remote_docker")
           \/ AtRun("kubernetes") /\ run.step = 12 /\ r.confirmed = FALSE,
           r.pc = "running", r.step = run.step, r.result = Unset,
           r.config = run.config, r.wanted = run.wanted, r.kept = run.kept,
           r.applied \cap Optional \subseteq r.wanted \/ r.kept,
           UNCHANGED <<setup, rendered, system, fresh, forgotten>>
    PROVE  WizardInv'
<1>1. /\ run'.config = run.config /\ run'.wanted = run.wanted /\ run'.kept = run.kept /\ run'.confirmed = r.confirmed
      /\ run'.pc = "running" => run'.step = run.step + 1 /\ \A i \in Kinds : AtRun(i)' <=> AtRun(i)
  BY Advances
<1>2. WizardTyped' /\ RunKnows' /\ AppliedIsWanted' /\ FailureIsExplained'
  <2>1. system' \in [Infra -> Systems] /\ fresh' \in Nat /\ Signed(r.config)
    BY DEF WizardInv, WizardTyped, RunKnows
  <2>2. run.config.infrastructure # "generate" => forgotten \/ FitsIn(r.config, system')
    BY DEF WizardInv, RunKnows, Fits
  <2> QED BY <2>1, <2>2, Routine
<1>3. Sealed' /\ DockerRuns'
  BY <1>1 DEF WizardInv, Sealed, DockerRuns, AtRun, Kinds
<1>4. KubernetesRuns'
  BY <1>1 DEF WizardInv, KubernetesRuns, HasRendered, AtRun, Kinds
<1>5. RemoteRuns'
  <2>1. run.step \in Nat
    BY Ongoing DEF RunState
  <2> QED BY <1>1, <2>1 DEF WizardInv, RemoteRuns, AtRun, Kinds
<1>6. SetupKnows' /\ TokensSigned' /\ FilesAgree'
  BY Unsaid
<1> QED BY <1>2, <1>3, <1>4, <1>5, <1>6 DEF WizardInv

LEMMA ApplyStep == ASSUME WizardInv, Apply PROVE WizardInv'
<1>0. /\ run.pc = "running" /\ run \in RunState /\ run.result = Unset /\ At("apply") /\ Stays
      /\ AtRun("kubernetes") /\ run.step = 12 /\ (run.applied \cap Optional \subseteq run.wanted \/ run.kept)
  <2>1. run.pc = "running" /\ run \in RunState /\ run.result = Unset /\ At("apply") /\ AtRun("kubernetes")
    BY Ongoing DEF Apply, At, Installed, AtRun
  <2> QED BY <2>1, AtNumbers DEF Apply, WizardInv, AppliedIsWanted
<1>1. CASE Failing
  BY <1>0, <1>1, Fails
<1>2. CASE StartFailsPartly
  BY <1>0, <1>2, StartsPartly
<1>3. CASE system' = Started /\ Continue(run) /\ UNCHANGED <<setup, rendered, disturbances, fresh>>
  BY <1>0, <1>3, Launches DEF Continue, Stays
<1>4. CASE Continue([run EXCEPT !.confirmed = FALSE]) /\ UNCHANGED <<setup, rendered, system, disturbances, fresh>>
  <2> DEFINE r == [run EXCEPT !.confirmed = FALSE]
  <2>1. /\ r \in RunState /\ r.pc = "running" /\ r.step = run.step /\ r.result = Unset
        /\ r.config = run.config /\ r.applied = run.applied
        /\ r.confirmed = FALSE /\ r.wanted = run.wanted /\ r.kept = run.kept
    BY <1>0 DEF RunState
  <2>2. run' = Following(r, 1) /\ (r.applied \cap Optional \subseteq r.wanted \/ r.kept)
    BY <1>0, <1>4, <2>1 DEF Continue
  <2> HIDE DEF r
  <2> QED BY <1>0, <1>4, <2>1, <2>2, LeavesAsIs DEF Stays
<1> QED BY <1>1, <1>2, <1>3, <1>4 DEF Apply

LEMMA ApplyRemoteStep == ASSUME WizardInv, ApplyRemote PROVE WizardInv'
<1>0. /\ run.pc = "running" /\ run \in RunState /\ run.result = Unset /\ At("apply")
      /\ AtRun("remote_kubernetes") /\ UNCHANGED <<setup, rendered, system, fresh, forgotten>>
  BY Ongoing DEF ApplyRemote, At, Installed, AtRun
<1>1. /\ run.step # 5
      /\ DOMAIN rendered \cap Optional \subseteq run.wanted \/ run.kept
      /\ run.applied \cap Optional \subseteq run.wanted \/ run.kept
  BY <1>0, RemoteKubernetesSteps DEF WizardInv, RemoteRuns, AppliedIsWanted, At
<1>2. ASSUME NEW files \in SUBSET (DOMAIN rendered \cap Generated), run' = Ended([run EXCEPT !.applied = files], "failed")
      PROVE  WizardInv'
  <2>1. /\ run' \in RunState /\ run'.pc = "idle" /\ run'.result = "failed" /\ run'.applied = files
        /\ run'.wanted = run.wanted /\ run'.kept = run.kept
    BY <1>0, <1>2 DEF Ended, RunState, Results
  <2>2. WizardTyped' /\ AppliedIsWanted' /\ FailureIsExplained'
    <3>1. files \cap Optional \subseteq run.wanted \/ run.kept
      BY <1>1
    <3> QED BY <1>0, <2>1, <3>1 DEF WizardInv, WizardTyped, AppliedIsWanted, FailureIsExplained
  <2>3. SetupKnows' /\ TokensSigned' /\ FilesAgree'
    BY <1>0, Unsaid
  <2> QED BY <2>1, <2>2, <2>3, Resting
<1>3. CASE Continue([run EXCEPT !.applied = DOMAIN rendered \cap Generated])
  <2> DEFINE r == [run EXCEPT !.applied = DOMAIN rendered \cap Generated]
  <2>1. /\ r \in RunState /\ r.pc = "running" /\ r.step = run.step /\ r.result = Unset
        /\ r.config = run.config /\ r.applied = DOMAIN rendered \cap Generated
        /\ r.confirmed = run.confirmed /\ r.wanted = run.wanted /\ r.kept = run.kept
    BY <1>0 DEF RunState
  <2>2. run' = Following(r, 1) /\ (r.applied \cap Optional \subseteq r.wanted \/ r.kept)
    BY <1>1, <1>3, <2>1 DEF Continue
  <2> HIDE DEF r
  <2> QED BY <1>0, <1>1, <2>1, <2>2, LeavesAsIs
<1>4. CASE Continue([run EXCEPT !.confirmed = FALSE])
  <2> DEFINE r == [run EXCEPT !.confirmed = FALSE]
  <2>1. /\ r \in RunState /\ r.pc = "running" /\ r.step = run.step /\ r.result = Unset
        /\ r.config = run.config /\ r.applied = run.applied /\ r.wanted = run.wanted /\ r.kept = run.kept
    BY <1>0 DEF RunState
  <2>2. run' = Following(r, 1) /\ (r.applied \cap Optional \subseteq r.wanted \/ r.kept)
    BY <1>1, <1>4, <2>1 DEF Continue
  <2> HIDE DEF r
  <2> QED BY <1>0, <1>1, <2>1, <2>2, LeavesAsIs
<1> QED BY <1>2, <1>3, <1>4 DEF ApplyRemote

\* The remote Pub is no part of the installation that the invariant is about.
LEMMA RemotePubSteps == ASSUME WizardInv, RemovePub \/ RunPub PROVE WizardInv'
<1>0. /\ run.pc = "running" /\ run \in RunState /\ run.result = Unset /\ (At("remove_pub") \/ At("run_pub"))
      /\ forgotten' = forgotten
  BY Ongoing DEF RemovePub, RunPub, At
<1>1. AtRun("remote_docker") /\ ~AtRun("docker") /\ ~AtRun("kubernetes") /\ ~AtRun("remote_kubernetes")
  BY <1>0, AtWhom DEF AtRun
<1>2. CASE Failing
  BY <1>0, <1>2, Over DEF Failing, End, Results, Unset
<1>3. CASE ~Failing
  <2>1. UNCHANGED <<setup, rendered, system, fresh>> /\ (Continue(run) \/ Continue([run EXCEPT !.confirmed = FALSE]))
    BY <1>3 DEF RemovePub, RunPub
  <2>2. CASE Continue(run)
    BY <1>0, <1>1, <2>1, <2>2, Walks DEF Continue
  <2>3. CASE Continue([run EXCEPT !.confirmed = FALSE])
    <3> DEFINE r == [run EXCEPT !.confirmed = FALSE]
    <3>1. /\ r \in RunState /\ r.pc = "running" /\ r.step = run.step /\ r.result = Unset
          /\ r.config = run.config /\ r.applied = run.applied /\ r.wanted = run.wanted /\ r.kept = run.kept
      BY <1>0 DEF RunState
    <3>2. run' = Following(r, 1) /\ (r.applied \cap Optional \subseteq r.wanted \/ r.kept)
      BY <2>3, <3>1 DEF Continue, WizardInv, AppliedIsWanted
    <3> HIDE DEF r
    <3> QED BY <1>0, <1>1, <2>1, <3>1, <3>2, LeavesAsIs
  <2> QED BY <2>1, <2>2, <2>3
<1> QED BY <1>2, <1>3

LEMMA WaitStep == ASSUME WizardInv, Wait PROVE WizardInv'
<1>0. run.pc = "running" /\ run \in RunState /\ run.result = Unset /\ At("wait") /\ Stays
      /\ UNCHANGED <<setup, rendered, system, fresh, forgotten>>
  BY Ongoing DEF Wait, At, Stays
<1>a. /\ AtRun("docker") \/ AtRun("kubernetes")
      /\ AtRun("docker") => run.step = 12 /\ Launched
      /\ AtRun("kubernetes") => run.step = 13 /\ (~run.confirmed \/ Launched)
      /\ ~AtRun("remote_kubernetes")
  BY <1>0, AtWhom, AtNumbers DEF WizardInv, DockerRuns, KubernetesRuns, AtRun
<1>1. CASE run' = Following(run, 1)
  BY <1>0, <1>1, <1>a, Walks
<1>3. CASE run' = Ended(run, "too_slow")
  BY <1>0, <1>3, Over DEF Results
<1>2. CASE run' = Ended(run, "not_ready") /\ ~(Operational /\ run.config.address # Unset)
  <2>1. run' = Ended(run, "not_ready")
    BY <1>2
  <2>2. Launched => Operational \/ forgotten
    BY DEF Launched, Operational
  <2>3. ~run.confirmed \/ run.config.address = Unset \/ forgotten
    BY <1>2, <1>a, <2>2
  <2>4. "not_ready" \in Results
    BY DEF Results
  <2> QED BY <1>0, <2>1, <2>3, <2>4, Over
<1> QED BY <1>1, <1>2, <1>3 DEF Wait, Continue, End

\* The administrator has the password of the configuration, once "admin" was changed.
LEMMA ChangeAdminPasswordStep == ASSUME WizardInv, ChangeAdminPassword PROVE WizardInv'
<1>0. run.pc = "running" /\ run \in RunState /\ run.result = Unset /\ run.config \in AnyConfig /\ At("password")
      /\ UNCHANGED <<setup, rendered, fresh, forgotten>>
  BY Ongoing DEF ChangeAdminPassword, At, Stays
<1>a. /\ AtRun("docker") \/ AtRun("kubernetes")
      /\ AtRun("docker") => run.step = 13
      /\ AtRun("kubernetes") => run.step = 14
      /\ ~AtRun("remote_kubernetes") /\ run.step \in Nat
  BY <1>0, AtWhom, AtNumbers DEF AtRun, RunState
<1> DEFINE owner == IF Services.admin = 0 THEN run.config.admin ELSE Services.admin
<1>b. /\ Installed \in Infra /\ system \in [Infra -> Systems] /\ Services \in Systems /\ owner \in Nat
      /\ system' = [system EXCEPT ![Installed].admin = owner]
  <2>1. Installed \in Infra /\ system \in [Infra -> Systems]
    BY <1>a DEF Installed, AtRun, Infra, WizardInv, WizardTyped
  <2>2. Services \in Systems /\ owner \in Nat
    BY <1>0, <2>1 DEF Services, Systems, AnyConfig
  <2>3. system' = [system EXCEPT ![Installed].admin = owner]
    BY <2>1 DEF ChangeAdminPassword, Services
  <2> QED BY <2>1, <2>2, <2>3
<1>c. /\ system' \in [Infra -> Systems] /\ system'[Installed].admin = owner
      /\ \A i \in Infra : /\ system'[i].files = system[i].files /\ system'[i].database = system[i].database
                          /\ system'[i].cut = system[i].cut
      /\ \A i \in Infra \ {Installed} : system'[i] = system[i]
  <2> HIDE DEF owner
  <2> QED BY <1>b DEF Systems, Services
<1>d. /\ setup = Saved(run.config) /\ Signed(run.config) /\ run.config.infrastructure # "generate"
      /\ forgotten \/ Fits(run.config)
  BY <1>0, <1>a DEF WizardInv, Sealed, RunKnows, AtRun
<1>e. /\ forgotten \/ FitsIn(run.config, system')
      /\ forgotten \/ owner = run.config.admin
  BY <1>b, <1>c, <1>d DEF Fits, FitsIn, Services
<1>f. TokensSigned' /\ FilesAgree' /\ SetupKnows'
  <2>1. SetupKnows'
    <3>1. setup'.config = run.config
      BY <1>0, <1>d DEF Saved
    <3> QED BY <1>0, <1>d, <1>e, <3>1 DEF SetupKnows, Fits, FitsIn, Signed
  <2> QED BY <1>c, <2>1, FilesStay
<1> HIDE DEF owner
<1>1. CASE run' = Ended(run, "failed")
  <2>1. /\ run' \in RunState /\ run'.pc = "idle" /\ run'.result = "failed" /\ run'.applied = run.applied
        /\ run'.wanted = run.wanted /\ run'.kept = run.kept
    BY <1>0, <1>1 DEF Ended, RunState, Results
  <2>2. WizardTyped' /\ AppliedIsWanted' /\ FailureIsExplained'
    BY <1>0, <1>c, <2>1 DEF WizardInv, WizardTyped, AppliedIsWanted, FailureIsExplained
  <2> QED BY <1>f, <2>1, <2>2, Resting
<1>2. CASE run' = Following(run, 1)
  <2>1. WizardTyped' /\ RunKnows' /\ AppliedIsWanted' /\ FailureIsExplained'
    <3>1. fresh' \in Nat /\ (run.applied \cap Optional \subseteq run.wanted \/ run.kept)
      BY <1>0 DEF WizardInv, WizardTyped, AppliedIsWanted
    <3> QED BY <1>0, <1>2, <1>c, <1>d, <1>e, <3>1, Routine
  <2>2. /\ run'.config = run.config /\ run'.confirmed = run.confirmed
        /\ run'.pc = "running" => run'.step = run.step + 1 /\ \A i \in Kinds : AtRun(i)' <=> AtRun(i)
    BY <1>0, <1>2, Advances
  <2>3. Installed' = Installed /\ Services' = system'[Installed]
    BY <2>2 DEF Installed, Services
  <2>4. Launched' <=> Launched
    BY <1>0, <1>b, <1>c, <2>2, <2>3 DEF Launched, Services
  <2>5. forgotten' \/ Services'.admin = run'.config.admin
    BY <1>0, <1>c, <1>e, <2>2, <2>3
  <2>6. Sealed'
    BY <1>0, <1>a, <2>2 DEF WizardInv, Sealed, AtRun, Kinds
  <2>7. DockerRuns'
    BY <1>0, <1>a, <2>2, <2>4, <2>5 DEF WizardInv, DockerRuns, HasRendered, AtRun, Kinds
  <2>8. KubernetesRuns'
    BY <1>0, <1>a, <2>2, <2>4, <2>5 DEF WizardInv, KubernetesRuns, HasRendered, AtRun, Kinds
  <2>9. RemoteRuns'
    BY <1>a, <2>2 DEF RemoteRuns, AtRun, Kinds
  <2> QED BY <1>f, <2>1, <2>6, <2>7, <2>8, <2>9 DEF WizardInv
<1> QED BY <1>1, <1>2 DEF ChangeAdminPassword, Continue, End

LEMMA LoginStep == ASSUME WizardInv, Login PROVE WizardInv'
<1>0. run.pc = "running" /\ run \in RunState /\ run.result = Unset /\ At("login") /\ Stays
  BY Ongoing DEF Login, At
<1>a. /\ AtRun("docker") \/ AtRun("kubernetes")
      /\ AtRun("docker") => run.step = 14
      /\ AtRun("kubernetes") => run.step = 15
      /\ ~AtRun("remote_kubernetes")
      /\ forgotten \/ Services.admin = run.config.admin
  BY <1>0, AtWhom, AtNumbers DEF WizardInv, DockerRuns, KubernetesRuns, AtRun
<1>1. CASE Failing
  BY <1>0, <1>1, Fails
<1>2. CASE UNCHANGED <<setup, rendered, system, disturbances, fresh>> /\ run' = Following(run, 1)
  BY <1>0, <1>2, <1>a, Walks DEF Stays
<1>3. CASE UNCHANGED <<setup, rendered, system, disturbances, fresh>> /\ run' = Ended(run, "unauthorized")
           /\ Services.admin # run.config.admin
  <2>1. "unauthorized" \in Results
    BY DEF Results
  <2> QED BY <1>0, <1>3, <1>a, <2>1, Over DEF Stays
<1> QED BY <1>1, <1>2, <1>3 DEF Login, Continue, End

LEMMA InstallPluginsStep == ASSUME WizardInv, InstallPlugins PROVE WizardInv'
<1>0. run.pc = "running" /\ run \in RunState /\ run.result = Unset /\ At("plugins") /\ Stays
  BY Ongoing DEF InstallPlugins, At
<1>a. /\ AtRun("docker") \/ AtRun("kubernetes")
      /\ AtRun("docker") => run.step = 15
      /\ AtRun("kubernetes") => run.step = 16
      /\ ~AtRun("remote_kubernetes")
  BY <1>0, AtWhom, AtNumbers DEF AtRun
<1>1. CASE Failing
  BY <1>0, <1>1, Fails
<1>2. CASE /\ system' = [system EXCEPT ![Installed].plugins = TRUE] /\ run' = Following(run, 1)
           /\ UNCHANGED <<setup, rendered, fresh, forgotten>>
  <2>1. Installed \in Infra /\ system \in [Infra -> Systems]
    BY <1>a DEF Installed, AtRun, Infra, WizardInv, WizardTyped
  <2>2. /\ system' \in [Infra -> Systems]
        /\ \A i \in Infra : /\ system'[i].files = system[i].files /\ system'[i].database = system[i].database
                            /\ system'[i].admin = system[i].admin /\ system'[i].cut = system[i].cut
    BY <1>2, <2>1 DEF Systems
  <2>3. WizardTyped' /\ RunKnows' /\ AppliedIsWanted' /\ FailureIsExplained'
    <3>1. fresh' \in Nat /\ (run.applied \cap Optional \subseteq run.wanted \/ run.kept) /\ Signed(run.config)
      BY <1>0, <1>2 DEF WizardInv, WizardTyped, AppliedIsWanted, RunKnows
    <3>2. run.config.infrastructure # "generate" => forgotten \/ FitsIn(run.config, system')
      BY <1>0, <2>2 DEF WizardInv, RunKnows, Fits, FitsIn
    <3> QED BY <1>0, <1>2, <2>2, <3>1, <3>2, Routine
  <2>4. /\ run'.config = run.config /\ run'.confirmed = run.confirmed /\ run'.kept = run.kept /\ run'.wanted = run.wanted
        /\ run'.pc = "running" => run'.step = run.step + 1 /\ \A i \in Kinds : AtRun(i)' <=> AtRun(i)
    BY <1>0, <1>2, Advances
  <2>5. Sealed' /\ DockerRuns' /\ KubernetesRuns' /\ RemoteRuns'
    BY <1>0, <1>2, <1>a, <2>2, <2>4, Onward
  <2>6. TokensSigned' /\ FilesAgree'
    BY <2>2, FilesStay
  <2>7. SetupKnows'
    BY <1>2, <2>2 DEF WizardInv, SetupKnows, Fits, FitsIn, Signed
  <2> QED BY <2>3, <2>5, <2>6, <2>7 DEF WizardInv
<1> QED BY <1>1, <1>2 DEF InstallPlugins, Continue, Stays

-----------------------------------------------------------------------------
LEMMA WizardStarts == ASSUME WizardInit PROVE WizardInv
<1>1. /\ run = NotRunning /\ setup = Missing /\ forgotten = FALSE /\ fresh = 0
      /\ DOMAIN system = Infra
      /\ \A i \in Infra : system[i] = [files |-> <<>>, database |-> 0, admin |-> 0, plugins |-> FALSE, cut |-> FALSE]
      /\ run.pc = "idle" /\ run.applied = {} /\ run.result = Unset
  BY DEF WizardInit, NotRunning, Infra
<1>2. system \in [Infra -> Systems]
  <2>1. <<>> \in AnyFiles
    BY DEF AnyFiles
  <2> QED BY <1>1, <2>1 DEF Systems, WizardInit, Infra
<1>3. WizardTyped
  BY <1>1, <1>2, SetupSet DEF WizardTyped
<1>4. SetupKnows /\ AppliedIsWanted /\ FailureIsExplained
  BY <1>1 DEF SetupKnows, AppliedIsWanted, FailureIsExplained, Unset
<1>5. TokensSigned /\ FilesAgree
  BY <1>1 DEF TokensSigned, FilesAgree
<1> QED BY <1>1, <1>3, <1>4, <1>5
     DEF WizardInv, RunKnows, Sealed, DockerRuns, KubernetesRuns, RemoteRuns, AtRun

LEMMA WizardSteps == ASSUME WizardInv, [WizardNext]_wizardVars PROVE WizardInv'
<1>1. CASE UNCHANGED wizardVars
  <2>1. /\ setup' = setup /\ run' = run /\ rendered' = rendered /\ system' = system /\ fresh' = fresh
        /\ forgotten' = forgotten
    BY <1>1 DEF wizardVars
  <2>2. WizardTyped' /\ AppliedIsWanted' /\ FailureIsExplained' /\ SetupKnows' /\ TokensSigned' /\ FilesAgree'
    BY <2>1, Unsaid DEF WizardInv, WizardTyped, AppliedIsWanted, FailureIsExplained
  <2>3. RunKnows' /\ Sealed'
    BY <2>1 DEF WizardInv, RunKnows, Sealed, Steps, AtRun, Fits, FitsIn, Signed
  <2>4. DockerRuns' /\ KubernetesRuns' /\ RemoteRuns'
    BY <2>1 DEF WizardInv, DockerRuns, KubernetesRuns, RemoteRuns, AtRun, HasRendered, Launched, Services, Installed, EnvOf
  <2> QED BY <2>2, <2>3, <2>4 DEF WizardInv
<1> QED
  BY <1>1, StartWizardStep, StartGeneratorStep, AskStep, FileTruncate, FileWrite, VerifyStep, GenerateSecretsStep,
     GenerateTokensStep, GatewayTokenStep, GeneratedDirStep, CleanStep, TemplateFileStep, TemplateOptionalStep,
     UpStep, ApplyStep, ApplyRemoteStep, RemotePubSteps, WaitStep, ChangeAdminPasswordStep, LoginStep, InstallPluginsStep, KillWizardStep,
     RemoveSetupStep, ChangePasswordStep
     DEF WizardNext

-----------------------------------------------------------------------------
(* The keys and tokens that are in use, while setup.json is not lost       *)

Remotes == {"remote_docker", "remote_kubernetes"}

\* A configuration has the key and the token of whatever runs.
KnownIn(config, services, pubs) ==
    /\ \A i \in Infra : \A f \in DOMAIN services[i].files : services[i].files[f].auth_key = config.auth_key
    /\ \A i \in Remotes : pubs[i] # 0 => config.gateway = pubs[i]
Known(config) == KnownIn(config, system, remotePub)

NothingRuns == (\A i \in Infra : system[i].files = <<>>) /\ (\A i \in Remotes : remotePub[i] = 0)

\* Whatever runs has one key, in setup.json whenever it can be read.
OneKey ==
    /\ \A i \in Infra : \A f \in DOMAIN system[i].files : system[i].files[f].auth_key # 0
    /\ \A i, j \in Infra : \A f \in DOMAIN system[i].files : \A g \in DOMAIN system[j].files :
           system[i].files[f].auth_key = system[j].files[g].auth_key
    /\ setup = Missing => NothingRuns
    /\ setup \notin {Missing, Torn} => Known(setup.config)
    /\ run.pc = "running" /\ run.config.infrastructure # "generate" => Known(run.config)

\* What is about to start has a key and a token that are saved.
KeysSaved ==
    /\ (AtRun("docker") \/ AtRun("kubernetes")) /\ run.step >= 6 => run.config.auth_key # 0
    /\ (AtRun("remote_docker") \/ AtRun("remote_kubernetes")) /\ run.step >= 5 => setup = Saved(run.config)
    /\ AtRun("remote_kubernetes") /\ run.step >= 10 => HasRendered("remote_pub")

KeysInv == remotePub \in [Remotes -> Nat] /\ KeysSaved /\ (forgotten \/ OneKey)

LEMMA KeysStart == ASSUME WizardInit PROVE KeysInv
<1>1. remotePub = [i \in Remotes |-> 0]
  BY DEF WizardInit, Remotes
<1>2. run.pc = "idle" /\ setup = Missing /\ \A i \in Infra : system[i].files = <<>> /\ DOMAIN system[i].files = {}
  BY DEF WizardInit, NotRunning, Infra
<1>3. OneKey
  BY <1>1, <1>2 DEF OneKey, NothingRuns
<1>4. KeysSaved
  BY <1>2 DEF KeysSaved, AtRun
<1> QED BY <1>1, <1>3, <1>4 DEF KeysInv

\* What runs is the same, and what is saved or in hand knows it.
LEMMA SameKeys ==
    ASSUME OneKey, \A i \in Infra : system'[i].files = system[i].files, remotePub' = remotePub,
           \/ setup' \in {setup, Torn}
           \/ \E config : setup' = Saved(config) /\ Known(config),
           run'.pc = "running" /\ run'.config.infrastructure # "generate" => Known(run'.config)
    PROVE  OneKey'
<1>1. ASSUME NEW config, Known(config)
      PROVE  KnownIn(config, system', remotePub')
  BY <1>1 DEF Known, KnownIn
<1>2. setup' \notin {Missing, Torn} => KnownIn(setup'.config, system', remotePub')
  <2>1. CASE setup' \in {setup, Torn}
    BY <1>1, <2>1 DEF OneKey
  <2>2. ASSUME NEW config, setup' = Saved(config), Known(config)
        PROVE  KnownIn(setup'.config, system', remotePub')
    <3>1. setup'.config = config
      BY <2>2 DEF Saved
    <3> QED BY <1>1, <2>2, <3>1
  <2> QED BY <2>1, <2>2
<1>3. run'.pc = "running" /\ run'.config.infrastructure # "generate" => KnownIn(run'.config, system', remotePub')
  BY <1>1
<1>4. setup' = Missing => NothingRuns'
  <2>1. ASSUME setup' = Missing PROVE setup = Missing
    BY <2>1 DEF Missing, Torn, Saved
  <2> QED BY <2>1 DEF OneKey, NothingRuns
<1>5. /\ \A i \in Infra : \A f \in DOMAIN system'[i].files : system'[i].files[f].auth_key # 0
      /\ \A i, j \in Infra : \A f \in DOMAIN system'[i].files : \A g \in DOMAIN system'[j].files :
             system'[i].files[f].auth_key = system'[j].files[g].auth_key
  BY DEF OneKey
<1> QED BY <1>2, <1>3, <1>4, <1>5 DEF OneKey, Known

\* What starts has the key and the token of a configuration that is saved.
LEMMA NewKeys ==
    ASSUME OneKey, Known(run.config), setup' = Saved(run.config), run'.config = run.config,
           \A i \in Infra : \A f \in DOMAIN system'[i].files :
               \/ /\ f \in DOMAIN system[i].files
                  /\ system'[i].files[f] = system[i].files[f]
               \/ system'[i].files[f] = run.config /\ run.config.auth_key # 0,
           \A i \in Remotes : remotePub'[i] \in {0, remotePub[i], run.config.gateway}
    PROVE  OneKey'
<1>1. \A i \in Infra : \A f \in DOMAIN system'[i].files :
        system'[i].files[f].auth_key = run.config.auth_key /\ system'[i].files[f].auth_key # 0
  BY DEF OneKey, Known, KnownIn
<1>2. KnownIn(run.config, system', remotePub')
  BY <1>1 DEF Known, KnownIn
<1>3. setup'.config = run.config /\ setup' # Missing
  BY DEF Saved, Missing
<1>4. /\ setup' \notin {Missing, Torn} => KnownIn(setup'.config, system', remotePub')
      /\ KnownIn(run'.config, system', remotePub')
  BY <1>2, <1>3
<1> QED BY <1>1, <1>3, <1>4 DEF OneKey, Known

\* An invocation is over, or was none.
LEMMA KeysRest ==
    ASSUME KeysInv, run'.pc = "idle", remotePub' = remotePub,
           \/ forgotten' = TRUE
           \/ /\ forgotten' = forgotten /\ setup' \in {setup, Torn}
              /\ \A i \in Infra : system'[i].files = system[i].files
    PROVE  KeysInv'
<1>1. KeysSaved' /\ remotePub' \in [Remotes -> Nat]
  BY DEF KeysSaved, AtRun, KeysInv
<1>2. CASE forgotten' = TRUE
  BY <1>1, <1>2 DEF KeysInv
<1>3. CASE forgotten' = forgotten /\ setup' \in {setup, Torn} /\ \A i \in Infra : system'[i].files = system[i].files
  <2>1. forgotten \/ OneKey'
    BY <1>3, SameKeys DEF KeysInv
  <2> QED BY <1>1, <1>3, <2>1 DEF KeysInv
<1> QED BY <1>2, <1>3

\* What follows for what is saved when an invocation goes on with its configuration.
LEMMA KeysGoOn ==
    ASSUME WizardInv, KeysInv, run.pc = "running", NEW r \in RunState, run' = Following(r, 1), r.pc = "running",
           r.step = run.step, r.result = Unset, r.config = run.config, setup' = setup,
           AtRun("remote_docker") \/ AtRun("remote_kubernetes") => run.step # 4,
           AtRun("docker") \/ AtRun("kubernetes") => run.step # 5,
           AtRun("remote_kubernetes") /\ run.step >= 9 =>
               \/ HasRendered("remote_pub") /\ rendered' = rendered
               \/ "remote_pub" \in DOMAIN rendered' /\ rendered'["remote_pub"] = run.config
    PROVE  KeysSaved' /\ run'.config = run.config
<1>1. run.step \in Nat
  BY Ongoing DEF RunState
<1>2. /\ run'.config = run.config
      /\ run'.pc = "running" => run'.step = run.step + 1 /\ \A i \in Kinds : AtRun(i)' <=> AtRun(i)
  BY Advances
<1>3. \A i \in Kinds : AtRun(i)' => AtRun(i) /\ run'.step = run.step + 1
  BY <1>2 DEF AtRun
<1> QED BY <1>1, <1>2, <1>3 DEF KeysSaved, KeysInv, HasRendered, Kinds

\* A step that starts nothing and saves nothing.
LEMMA KeysWalk ==
    ASSUME WizardInv, KeysInv, run.pc = "running", NEW r \in RunState, run' = Following(r, 1), r.pc = "running",
           r.step = run.step, r.result = Unset, r.config = run.config,
           UNCHANGED <<setup, remotePub, forgotten>>, \A i \in Infra : system'[i].files = system[i].files,
           AtRun("remote_docker") \/ AtRun("remote_kubernetes") => run.step # 4,
           AtRun("docker") \/ AtRun("kubernetes") => run.step # 5,
           AtRun("remote_kubernetes") /\ run.step >= 9 =>
               \/ HasRendered("remote_pub") /\ rendered' = rendered
               \/ "remote_pub" \in DOMAIN rendered' /\ rendered'["remote_pub"] = run.config
    PROVE  KeysInv'
<1>1. KeysSaved' /\ run'.config = run.config
  BY KeysGoOn
<1>2. forgotten \/ OneKey'
  <2>1. OneKey /\ run.config.infrastructure # "generate" => Known(run.config)
    BY DEF OneKey
  <2> QED BY <1>1, <2>1, SameKeys DEF KeysInv
<1> QED BY <1>1, <1>2 DEF KeysInv

\* A step of an invocation that may change its configuration or save it, before anything is started.
LEMMA KeysProvide ==
    ASSUME KeysInv, run.pc = "running", UNCHANGED <<system, remotePub, forgotten>>,
           \/ setup' \in {setup, Torn}
           \/ setup' = Saved(run.config) /\ run.config.infrastructure # "generate",
           run'.config.infrastructure = run.config.infrastructure,
           run.config.auth_key # 0 => run'.config.auth_key = run.config.auth_key,
           run.config.gateway # 0 => run'.config.gateway = run.config.gateway,
           KeysSaved'
    PROVE  KeysInv'
<1>1. ASSUME OneKey
      PROVE  OneKey'
  <2>1. run.config.infrastructure # "generate" => Known(run.config)
    BY <1>1 DEF OneKey
  <2>2. run.config.infrastructure # "generate" => Known(run'.config)
    BY <1>1, <2>1 DEF Known, KnownIn, OneKey
  <2> QED BY <1>1, <2>1, <2>2, SameKeys
<1> QED BY <1>1 DEF KeysInv

LEMMA StartWizardKeys == ASSUME WizardInv, KeysInv, StartWizard PROVE KeysInv'
<1>0. UNCHANGED <<system, remotePub, forgotten>>
  BY DEF StartWizard
<1>1. CASE setup = Torn
  <2>1. run'.pc = "idle" /\ setup' = setup
    BY <1>1, SetupSet DEF StartWizard, Ended, RunState
  <2> QED BY <1>0, <2>1, KeysRest
<1>2. CASE setup # Torn
  <2> DEFINE config == IF setup = Missing THEN SetupConfig ELSE setup.config
  <2>1. setup' = Saved(config) /\ config \in AnyConfig
    <3>1. CASE setup = Missing
      BY <1>2, <3>1, SetupSet DEF StartWizard
    <3>2. CASE setup # Missing
      BY <1>2, <3>2 DEF StartWizard, WizardInv, SetupKnows
    <3> QED BY <3>1, <3>2
  <2>2. PICK choice \in ChoicesOf(config) :
          LET read == [NotRunning EXCEPT !.pc = "running", !.config = [config EXCEPT !.infrastructure = choice]]
          IN  run' = IF choice \in DOMAIN Installation THEN read ELSE Ended(read, "unsupported")
    BY <1>2 DEF StartWizard
  <2>3. OneKey => Known(config)
    <3>1. CASE setup = Missing
      BY <3>1 DEF OneKey, NothingRuns, Known, KnownIn
    <3>2. CASE setup # Missing
      BY <1>2, <3>2 DEF OneKey
    <3> QED BY <3>1, <3>2
  <2> HIDE DEF config
  <2>4. run'.step = 1 /\ run'.config = [config EXCEPT !.infrastructure = choice]
    <3>1. NotRunning \in RunState /\ NotRunning.step = 1
      BY SetupSet DEF NotRunning
    <3> QED BY <2>2, <3>1 DEF Ended, RunState
  <2>5. run'.config.auth_key = config.auth_key /\ run'.config.gateway = config.gateway
    BY <2>1, <2>4 DEF AnyConfig
  <2>6. KeysSaved'
    BY <2>4 DEF KeysSaved, AtRun
  <2>7. OneKey => Known(run'.config)
    BY <2>3, <2>5 DEF Known, KnownIn
  <2>8. OneKey => OneKey'
    BY <1>0, <2>1, <2>3, <2>7, SameKeys
  <2> QED BY <1>0, <2>6, <2>8 DEF KeysInv
<1> QED BY <1>1, <1>2

LEMMA StartGeneratorKeys == ASSUME WizardInv, KeysInv, StartGenerator PROVE KeysInv'
<1>0. UNCHANGED <<setup, system, remotePub, forgotten>>
  BY DEF StartGenerator
<1>1. run'.step = 1 /\ run'.config.infrastructure = "generate"
  BY SetupSet DEF StartGenerator, NotRunning, SetupConfig
<1>2. KeysSaved'
  BY <1>1 DEF KeysSaved, AtRun
<1>3. OneKey => OneKey'
  BY <1>0, <1>1, SameKeys
<1> QED BY <1>0, <1>2, <1>3 DEF KeysInv

LEMMA AskKeys == ASSUME WizardInv, KeysInv, Ask PROVE KeysInv'
<1>0. /\ run.pc = "running" /\ run \in RunState /\ run.config \in AnyConfig /\ run.result = Unset /\ At("ask")
      /\ UNCHANGED <<setup, system, remotePub, forgotten>>
  BY Ongoing DEF Ask, At, Stays
<1>1. PICK answer \in {"host", Unset}, n \in {1, 3} : run' = Following([run EXCEPT !.config.address = answer], n)
  BY <1>0 DEF Ask, AnyConfig
<1> DEFINE r == [run EXCEPT !.config.address = answer]
<1>2. /\ r \in RunState /\ r.step = run.step
      /\ r.config.infrastructure = run.config.infrastructure /\ r.config.auth_key = run.config.auth_key
      /\ r.config.gateway = run.config.gateway
  BY <1>0 DEF RunState, AnyConfig
<1>3. ~AtRun("generate") => run.step = 1
  BY <1>0, Ongoing, AtNumbers, RemoteDockerSteps, RemoteKubernetesSteps DEF At
<1>4. run'.config = r.config /\ (run'.pc = "running" => run'.step \in {run.step + 1, run.step + 3})
  <2>1. CASE r.step + n > Len(Steps)
    BY <1>1, <1>2, <2>1 DEF Following, Ended, RunState
  <2>2. CASE ~(r.step + n > Len(Steps))
    BY <1>1, <1>2, <2>2 DEF Following, RunState
  <2> QED BY <2>1, <2>2
<1> HIDE DEF r
<1>5. KeysSaved'
  BY <1>2, <1>3, <1>4 DEF KeysSaved, AtRun
<1> QED BY <1>0, <1>2, <1>4, <1>5, KeysProvide

LEMMA SavesKeys == ASSUME WizardInv, KeysInv, TruncateSetup \/ WriteSetup PROVE KeysInv'
<1>0. /\ run.pc = "running" /\ run \in RunState /\ run.result = Unset /\ run.step \in Nat
      /\ UNCHANGED <<system, remotePub, forgotten>> /\ run' = Following(run, 1) /\ ~AtRun("generate")
  <2>1. At("truncate") \/ At("write")
    BY DEF TruncateSetup, WriteSetup
  <2>2. run.pc = "running" /\ run \in RunState /\ run.result = Unset
    BY <2>1, Ongoing DEF At
  <2> QED BY <2>1, <2>2, AtWhom DEF TruncateSetup, WriteSetup, Stays, Continue, RunState
<1>1. /\ run'.config = run.config
      /\ run'.pc = "running" => run'.step = run.step + 1 /\ \A i \in Kinds : AtRun(i)' <=> AtRun(i)
  BY <1>0, Advances
<1>2. CASE TruncateSetup
  <2>1. At("truncate") /\ setup' = Torn
    BY <1>2 DEF TruncateSetup
  <2>2. /\ AtRun("docker") \/ AtRun("kubernetes") => run.step \in {2, 7}
        /\ AtRun("remote_docker") \/ AtRun("remote_kubernetes") => run.step = 3
    BY <1>0, <2>1, AtNumbers, RemoteDockerSteps, RemoteKubernetesSteps DEF At
  <2>3. KeysSaved'
    BY <1>0, <1>1, <2>2 DEF KeysInv, KeysSaved, AtRun, Kinds
  <2> QED BY <1>0, <1>1, <2>1, <2>3, KeysProvide
<1>3. CASE WriteSetup
  <2>1. At("write") /\ setup' = Saved(run.config)
    BY <1>3 DEF WriteSetup
  <2>2. /\ AtRun("docker") \/ AtRun("kubernetes") => run.step \in {3, 8}
        /\ AtRun("remote_docker") \/ AtRun("remote_kubernetes") => run.step = 4
    BY <1>0, <2>1, AtNumbers, RemoteDockerSteps, RemoteKubernetesSteps DEF At
  <2>3. KeysSaved'
    BY <1>0, <1>1, <2>1, <2>2 DEF KeysInv, KeysSaved, AtRun, Kinds
  <2>4. run.config.infrastructure # "generate"
    BY <1>0 DEF AtRun
  <2> QED BY <1>0, <1>1, <2>1, <2>3, <2>4, KeysProvide
<1> QED BY <1>2, <1>3

LEMMA SecretsKeys == ASSUME WizardInv, KeysInv, GenerateSecrets PROVE KeysInv'
<1>0. /\ run.pc = "running" /\ run \in RunState /\ run.config \in AnyConfig /\ fresh \in Nat /\ run.result = Unset
      /\ At("secrets") /\ UNCHANGED <<setup, system, remotePub, forgotten>>
  BY Ongoing DEF GenerateSecrets, At, WizardInv, WizardTyped, Stays
<1> DEFINE r == [run EXCEPT !.config = Generate(run.config)]
<1>1. /\ Generate(run.config) \in AnyConfig /\ Generate(run.config).infrastructure = run.config.infrastructure
      /\ Generate(run.config).auth_key = IF run.config.auth_key = 0 THEN fresh + 2 ELSE run.config.auth_key
      /\ Generate(run.config).gateway = run.config.gateway
  <2> DEFINE Secret(old, n) == IF old = 0 THEN fresh + n ELSE old
  <2>1. /\ Secret(run.config.postgres, 1) \in Nat /\ Secret(run.config.auth_key, 2) \in Nat
        /\ Secret(run.config.admin, 3) \in Nat
    BY <1>0 DEF AnyConfig
  <2>2. Generate(run.config) = [run.config EXCEPT !.postgres = Secret(run.config.postgres, 1),
                                                  !.auth_key = Secret(run.config.auth_key, 2),
                                                  !.admin = Secret(run.config.admin, 3)]
    BY <1>0 DEF Generate, AnyConfig
  <2>3. Secret(run.config.auth_key, 2) = IF run.config.auth_key = 0 THEN fresh + 2 ELSE run.config.auth_key
    OBVIOUS
  <2> HIDE DEF Secret
  <2> QED BY <1>0, <2>1, <2>2, <2>3 DEF AnyConfig
<1>2. /\ r \in RunState /\ r.pc = "running" /\ r.step = run.step /\ r.result = Unset /\ r.config = Generate(run.config)
  BY <1>0, <1>1 DEF RunState
<1>3. run' = Following(r, 1)
  BY <1>0 DEF GenerateSecrets, Continue, RunState
<1> HIDE DEF r
<1>4. /\ run'.config = r.config
      /\ run'.pc = "running" => run'.step = run.step + 1 /\ \A i \in Kinds : AtRun(i)' <=> AtRun(i)
  BY <1>0, <1>1, <1>2, <1>3, Advances
<1>5. /\ AtRun("docker") \/ AtRun("kubernetes") \/ AtRun("generate")
      /\ ~AtRun("remote_docker") /\ ~AtRun("remote_kubernetes")
  BY <1>0, AtWhom DEF AtRun
<1>6. KeysSaved'
  <2>1. r.config.auth_key # 0
    BY <1>0, <1>1, <1>2 DEF AnyConfig
  <2>2. \A i \in Kinds : AtRun(i)' => AtRun(i)
    BY <1>4 DEF AtRun
  <2> QED BY <1>4, <1>5, <2>1, <2>2 DEF KeysSaved, Kinds
<1>7. /\ run.config.auth_key # 0 => r.config.auth_key = run.config.auth_key
      /\ r.config.gateway = run.config.gateway /\ r.config.infrastructure = run.config.infrastructure
  BY <1>1, <1>2
<1> QED BY <1>0, <1>4, <1>6, <1>7, KeysProvide

LEMMA TokensKeys == ASSUME WizardInv, KeysInv, GenerateTokens PROVE KeysInv'
<1>0. /\ run.pc = "running" /\ run \in RunState /\ run.config \in AnyConfig /\ run.result = Unset /\ run.step \in Nat
      /\ At("tokens") /\ UNCHANGED <<setup, system, remotePub, forgotten>>
  BY Ongoing DEF GenerateTokens, At, Stays, Failing, RunState
<1>a. CASE Failing
  BY <1>0, <1>a, KeysRest DEF Failing, End, Ended, RunState
<1>b. CASE ~Failing
  <2> DEFINE r == [run EXCEPT !.config.pub = IF @ = 0 THEN run.config.auth_key ELSE @,
                              !.config.builder = IF @ = 0 THEN run.config.auth_key ELSE @]
  <2>1. /\ r \in RunState /\ r.pc = "running" /\ r.step = run.step /\ r.result = Unset
        /\ r.config.infrastructure = run.config.infrastructure
        /\ r.config.auth_key = run.config.auth_key /\ r.config.gateway = run.config.gateway
    BY <1>0 DEF RunState, AnyConfig
  <2>2. run' = Following(r, 1)
    BY <1>b DEF GenerateTokens, Continue
  <2> HIDE DEF r
  <2>3. /\ run'.config = r.config
        /\ run'.pc = "running" => run'.step = run.step + 1 /\ \A i \in Kinds : AtRun(i)' <=> AtRun(i)
    BY <1>0, <2>1, <2>2, Advances
  <2>4. /\ AtRun("docker") \/ AtRun("kubernetes") => run.step = 6
        /\ ~AtRun("remote_docker") /\ ~AtRun("remote_kubernetes")
    BY <1>0, AtWhom, AtNumbers DEF AtRun
  <2>5. KeysSaved'
    <3>1. \A i \in Kinds : AtRun(i)' => AtRun(i) /\ run'.step = run.step + 1
      BY <2>3 DEF AtRun
    <3> QED BY <2>1, <2>3, <2>4, <3>1 DEF KeysInv, KeysSaved, Kinds
  <2> QED BY <1>0, <2>1, <2>3, <2>5, KeysProvide
<1> QED BY <1>a, <1>b

LEMMA GatewayKeys == ASSUME WizardInv, KeysInv, GatewayToken PROVE KeysInv'
<1>0. /\ run.pc = "running" /\ run \in RunState /\ run.config \in AnyConfig /\ fresh \in Nat /\ run.result = Unset
      /\ At("gateway") /\ UNCHANGED <<setup, system, remotePub, forgotten>>
  BY Ongoing DEF GatewayToken, At, WizardInv, WizardTyped, Stays
<1> DEFINE r == [run EXCEPT !.config.gateway = IF @ = 0 THEN fresh + 1 ELSE @]
<1>1. /\ r \in RunState /\ r.pc = "running" /\ r.step = run.step /\ r.result = Unset
      /\ r.config.infrastructure = run.config.infrastructure
      /\ r.config.auth_key = run.config.auth_key
      /\ run.config.gateway # 0 => r.config.gateway = run.config.gateway
  BY <1>0 DEF RunState, AnyConfig
<1>2. run' = Following(r, 1)
  BY DEF GatewayToken, Continue
<1> HIDE DEF r
<1>3. /\ run'.config = r.config
      /\ run'.pc = "running" => run'.step = run.step + 1 /\ \A i \in Kinds : AtRun(i)' <=> AtRun(i)
  BY <1>0, <1>1, <1>2, Advances
<1>4. /\ ~AtRun("docker") /\ ~AtRun("kubernetes")
      /\ AtRun("remote_docker") \/ AtRun("remote_kubernetes") => run.step = 2
  <2>1. AtRun("remote_docker") \/ AtRun("remote_kubernetes")
    BY <1>0, AtWhom
  <2> QED BY <1>0, <2>1, RemoteDockerSteps, RemoteKubernetesSteps DEF At, AtRun
<1>5. KeysSaved'
  <2>1. \A i \in Kinds : AtRun(i)' => AtRun(i) /\ run'.step = run.step + 1
    BY <1>3 DEF AtRun
  <2> QED BY <1>4, <2>1 DEF KeysSaved, Kinds
<1> QED BY <1>0, <1>1, <1>3, <1>5, KeysProvide

LEMMA QuietKeys ==
    ASSUME WizardInv, KeysInv,
           Verify \/ GeneratedDir \/ Clean \/ TemplateOptional \/ Wait \/ ChangeAdminPassword \/ Login \/ InstallPlugins
    PROVE  KeysInv'
<1>0. /\ run.pc = "running" /\ run \in RunState /\ run.result = Unset /\ run.step \in Nat
      /\ UNCHANGED <<setup, remotePub, forgotten>> /\ \A i \in Infra : system'[i].files = system[i].files
  <2>1. run.pc = "running"
    BY DEF Verify, GeneratedDir, Clean, TemplateOptional, Wait, ChangeAdminPassword, Login, InstallPlugins, At
  <2>2. system \in [Infra -> Systems]
    BY DEF WizardInv, WizardTyped
  <2>3. \A i \in Infra : system'[i].files = system[i].files
    <3>1. CASE system' = system
      BY <3>1
    <3>2. ASSUME NEW n, system' = [system EXCEPT ![Installed].admin = n]
          PROVE  \A i \in Infra : system'[i].files = system[i].files
      BY <2>2, <3>2 DEF Systems
    <3>3. CASE system' = [system EXCEPT ![Installed].plugins = TRUE]
      BY <2>2, <3>3 DEF Systems
    <3>4. ChangeAdminPassword => \E n : system' = [system EXCEPT ![Installed].admin = n]
      BY DEF ChangeAdminPassword
    <3> QED BY <3>1, <3>2, <3>3, <3>4
            DEF Verify, GeneratedDir, Clean, TemplateOptional, Wait, Login, InstallPlugins, Failing
  <2>4. UNCHANGED <<setup, remotePub, forgotten>>
    BY DEF Verify, GeneratedDir, Clean, TemplateOptional, Wait, ChangeAdminPassword, Login, InstallPlugins, Failing, Stays
  <2> QED BY <2>1, <2>3, <2>4, Ongoing DEF RunState
<1>1. \/ \E result : run' = Ended(run, result)
      \/ \E r \in RunState : /\ run' = Following(r, 1) /\ r.pc = "running" /\ r.step = run.step
                             /\ r.result = Unset /\ r.config = run.config
  <2>1. /\ [run EXCEPT !.kept = TRUE] \in RunState /\ [run EXCEPT !.kept = TRUE].pc = "running"
        /\ [run EXCEPT !.kept = TRUE].step = run.step /\ [run EXCEPT !.kept = TRUE].result = Unset
        /\ [run EXCEPT !.kept = TRUE].config = run.config
    BY <1>0 DEF RunState
  <2>2. ASSUME NEW f \in Optional
        PROVE  /\ [run EXCEPT !.wanted = @ \cup {f}] \in RunState /\ [run EXCEPT !.wanted = @ \cup {f}].pc = "running"
               /\ [run EXCEPT !.wanted = @ \cup {f}].step = run.step /\ [run EXCEPT !.wanted = @ \cup {f}].result = Unset
               /\ [run EXCEPT !.wanted = @ \cup {f}].config = run.config
    <3>1. run.wanted \cup {f} \in SUBSET Optional
      BY <1>0 DEF RunState
    <3> QED BY <1>0, <3>1 DEF RunState
  <2>3. \/ \E result : run' = Ended(run, result)
        \/ run' = Following(run, 1)
        \/ run' = Following([run EXCEPT !.kept = TRUE], 1)
        \/ \E f \in Optional : run' = Following([run EXCEPT !.wanted = @ \cup {f}], 1)
    BY DEF Verify, GeneratedDir, Clean, TemplateOptional, Wait, ChangeAdminPassword, Login, InstallPlugins, Failing,
           End, Continue
  <2> QED BY <1>0, <2>1, <2>2, <2>3
<1>2. CASE \E result : run' = Ended(run, result)
  <2>1. run'.pc = "idle"
    BY <1>0, <1>2 DEF Ended, RunState
  <2> QED BY <1>0, <2>1, KeysRest
<1>3. CASE \E r \in RunState : /\ run' = Following(r, 1) /\ r.pc = "running" /\ r.step = run.step
                               /\ r.result = Unset /\ r.config = run.config
  <2>1. At("verify") \/ At("clear") \/ At("clean") \/ At("namespace") \/ At("roles") \/ At("ingress") \/ At("wait")
        \/ At("password") \/ At("login") \/ At("plugins")
    BY DEF Verify, GeneratedDir, Clean, TemplateOptional, Wait, ChangeAdminPassword, Login, InstallPlugins, At, Optional
  <2>2. /\ AtRun("docker") \/ AtRun("kubernetes") => run.step # 5
        /\ AtRun("remote_docker") \/ AtRun("remote_kubernetes") => run.step # 4
        /\ AtRun("remote_kubernetes") => run.step < 9
    <3>1. AtRun("docker") => run.step # 5
      BY <2>1, DockerSteps DEF At
    <3>2. AtRun("kubernetes") => run.step # 5
      BY <2>1, KubernetesSteps DEF At
    <3>3. AtRun("remote_docker") => run.step # 4
      BY <2>1, RemoteDockerSteps DEF At
    <3>4. AtRun("remote_kubernetes") => run.step \in {5, 6, 7, 8}
      BY <2>1, RemoteKubernetesSteps DEF At
    <3> QED BY <3>1, <3>2, <3>3, <3>4
  <2>3. ~(AtRun("remote_kubernetes") /\ run.step >= 9)
    BY <1>0, <2>2
  <2> QED BY <1>0, <1>3, <2>2, <2>3, KeysWalk
<1> QED BY <1>1, <1>2, <1>3

LEMMA TemplateKeys == ASSUME WizardInv, KeysInv, TemplateFile PROVE KeysInv'
<1>0. /\ run.pc = "running" /\ run \in RunState /\ run.result = Unset /\ run.step \in Nat
      /\ Steps[run.step] \in Templates /\ UNCHANGED <<setup, system, remotePub, forgotten>>
  BY Ongoing DEF TemplateFile, Stays, Failing, RunState
<1>1. CASE Failing
  BY <1>0, <1>1, KeysRest DEF Failing, End, Ended, RunState
<1>2. CASE ~Failing
  <2>1. rendered' = Rendered(Steps[run.step]) /\ run' = Following(run, 1)
    BY <1>2 DEF TemplateFile, Continue
  <2>2. /\ rendered'[Steps[run.step]] = run.config /\ Steps[run.step] \in DOMAIN rendered'
        /\ \A g : HasRendered(g) => g \in DOMAIN rendered' /\ rendered'[g] = run.config
    BY <2>1, RenderedFile
  <2>3. Steps[run.step] \in {"docker/compose", "docker/env", "generated/env", "generated/pub", "remote_pub",
                             "kustomize/env", "kustomize/pub", "plugin_config"}
    BY <1>0 DEF Templates, Docker, Generated, Kustomize, Optional
  <2>4. /\ AtRun("docker") => run.step # 5
        /\ AtRun("kubernetes") => run.step # 5
        /\ AtRun("remote_docker") => run.step # 4
        /\ AtRun("remote_kubernetes") => \/ run.step = 9 /\ Steps[run.step] = "remote_pub"
                                         \/ run.step = 11
    <3>1. AtRun("docker") => run.step # 5
      BY <2>3, DockerSteps
    <3>2. AtRun("kubernetes") => run.step # 5
      BY <2>3, KubernetesSteps
    <3>3. AtRun("remote_docker") => run.step # 4
      BY <2>3, RemoteDockerSteps
    <3>4. AtRun("remote_kubernetes") => \/ run.step = 9 /\ Steps[run.step] = "remote_pub"
                                        \/ run.step = 11
      BY <2>3, RemoteKubernetesSteps DEF Optional
    <3> QED BY <3>1, <3>2, <3>3, <3>4
  <2>5. AtRun("remote_kubernetes") => "remote_pub" \in DOMAIN rendered' /\ rendered'["remote_pub"] = run.config
    BY <2>2, <2>4 DEF KeysInv, KeysSaved
  <2> QED BY <1>0, <2>1, <2>4, <2>5, KeysWalk
<1> QED BY <1>1, <1>2

\* A start of services or of a remote Pub, whole or in part.
LEMMA StartKeys ==
    ASSUME WizardInv, KeysInv, run.pc = "running", run.config.infrastructure # "generate",
           setup = Saved(run.config), UNCHANGED <<setup, forgotten>>, run'.config = run.config,
           \A i \in Infra : \A f \in DOMAIN system'[i].files :
               \/ /\ f \in DOMAIN system[i].files
                  /\ system'[i].files[f] = system[i].files[f]
               \/ system'[i].files[f] = run.config /\ run.config.auth_key # 0,
           remotePub' \in [Remotes -> Nat],
           \A i \in Remotes : remotePub'[i] \in {0, remotePub[i], run.config.gateway},
           KeysSaved'
    PROVE  KeysInv'
<1>1. ASSUME OneKey
      PROVE  OneKey'
  <2>1. Known(run.config)
    BY <1>1 DEF OneKey
  <2> QED BY <1>1, <2>1, NewKeys
<1> QED BY <1>1 DEF KeysInv

LEMMA LaunchKeys == ASSUME WizardInv, KeysInv, Up \/ Apply PROVE KeysInv'
<1>0. /\ run.pc = "running" /\ run \in RunState /\ run.result = Unset /\ run.config \in AnyConfig
      /\ \/ AtRun("docker") /\ run.step = 11
         \/ AtRun("kubernetes") /\ run.step = 12
      /\ UNCHANGED <<setup, remotePub, forgotten>> /\ Stays
  <2>1. run.pc = "running" /\ run \in RunState /\ run.result = Unset /\ run.config \in AnyConfig
    BY Ongoing DEF Up, Apply, At
  <2>2. CASE Up
    <3>1. At("up") /\ UNCHANGED <<setup, remotePub, forgotten>> /\ Stays
      BY <2>2 DEF Up, Stays, Failing, StartFailsPartly
    <3>2. AtRun("docker")
      BY <2>1, <3>1, AtWhom
    <3> QED BY <2>1, <3>1, <3>2, AtNumbers
  <2>3. CASE Apply
    <3>1. AtRun("kubernetes")
      BY <2>1, <2>3 DEF Apply, Installed, AtRun
    <3>2. At("apply") /\ UNCHANGED <<setup, remotePub, forgotten>> /\ Stays
      BY <2>3 DEF Apply, Stays, Failing, StartFailsPartly
    <3> QED BY <2>1, <3>1, <3>2, AtNumbers
  <2> QED BY <2>2, <2>3
<1>1. /\ setup = Saved(run.config) /\ run.config.auth_key # 0 /\ run.config.infrastructure # "generate"
      /\ ~AtRun("remote_docker") /\ ~AtRun("remote_kubernetes")
  BY <1>0 DEF WizardInv, Sealed, KeysInv, KeysSaved, AtRun
<1>2. CASE Failing
  BY <1>0, <1>2, KeysRest DEF Failing, End, Ended, RunState
<1>3. CASE StartFailsPartly
  <2>1. /\ Installed \in Infra /\ run' = Ended(run, "failed")
        /\ \A f \in DOMAIN system'[Installed].files :
               \/ system'[Installed].files[f] = run.config
               \/ /\ f \in DOMAIN Services.files
                  /\ system'[Installed].files[f] = Services.files[f]
        /\ \A i \in Infra \ {Installed} : system'[i] = system[i]
    BY <1>0, <1>3, PartlyWhat
  <2>2. run'.pc = "idle" /\ run'.config = run.config
    BY <1>0, <2>1 DEF Ended, RunState
  <2>3. KeysSaved'
    BY <2>2 DEF KeysSaved, AtRun
  <2>4. \A i \in Infra : \A f \in DOMAIN system'[i].files :
               \/ /\ f \in DOMAIN system[i].files
                  /\ system'[i].files[f] = system[i].files[f]
               \/ system'[i].files[f] = run.config /\ run.config.auth_key # 0
    BY <1>1, <2>1 DEF Services
  <2> QED BY <1>0, <1>1, <2>2, <2>3, <2>4, StartKeys DEF KeysInv
<1>4. CASE system' = Started /\ Continue(run)
  <2>1. run' = Following(run, 1)
    BY <1>4 DEF Continue
  <2>2. KeysSaved' /\ run'.config = run.config
    BY <1>0, <1>1, <2>1, KeysGoOn
  <2>3. \A f \in ServicesOf(Installed) : HasRendered(f)
    <3>1. CASE AtRun("docker") /\ run.step = 11
      BY <3>1 DEF WizardInv, DockerRuns, AtRun, Installed, ServicesOf, Docker
    <3>2. CASE AtRun("kubernetes") /\ run.step = 12
      BY <3>2 DEF WizardInv, KubernetesRuns, AtRun, Installed, ServicesOf
    <3> QED BY <1>0, <3>1, <3>2
  <2>4. /\ Installed \in Infra /\ system'[Installed].files = [f \in ServicesOf(Installed) |-> run.config]
        /\ \A i \in Infra \ {Installed} : system'[i] = system[i]
    BY <1>0, <1>4, <2>3, StartsWhat
  <2>5. \A i \in Infra : \A f \in DOMAIN system'[i].files :
               \/ /\ f \in DOMAIN system[i].files
                  /\ system'[i].files[f] = system[i].files[f]
               \/ system'[i].files[f] = run.config /\ run.config.auth_key # 0
    BY <1>1, <2>4
  <2> QED BY <1>0, <1>1, <2>2, <2>5, StartKeys DEF KeysInv
<1>5. CASE Continue([run EXCEPT !.confirmed = FALSE]) /\ UNCHANGED <<setup, rendered, system, disturbances, fresh>>
  <2> DEFINE r == [run EXCEPT !.confirmed = FALSE]
  <2>1. r \in RunState /\ r.pc = "running" /\ r.step = run.step /\ r.result = Unset /\ r.config = run.config
    BY <1>0 DEF RunState
  <2>2. run' = Following(r, 1)
    BY <1>5 DEF Continue
  <2> HIDE DEF r
  <2> QED BY <1>0, <1>1, <1>5, <2>1, <2>2, KeysWalk
<1> QED BY <1>2, <1>3, <1>4, <1>5 DEF Up, Apply

LEMMA RemoteKeys == ASSUME WizardInv, KeysInv, ApplyRemote \/ RemovePub \/ RunPub PROVE KeysInv'
<1>0. /\ run.pc = "running" /\ run \in RunState /\ run.result = Unset /\ run.config \in AnyConfig /\ run.step \in Nat
      /\ At("apply") \/ At("remove_pub") \/ At("run_pub")
      /\ UNCHANGED <<setup, rendered, system, forgotten>>
  BY Ongoing DEF ApplyRemote, RemovePub, RunPub, Failing, At, RunState
<1>1. /\ \/ AtRun("remote_docker") /\ run.step \in {7, 8}
         \/ AtRun("remote_kubernetes") /\ run.step = 10 /\ At("apply")
      /\ ~AtRun("docker") /\ ~AtRun("kubernetes")
  <2>1. CASE ApplyRemote
    <3>1. AtRun("remote_kubernetes") /\ At("apply")
      BY <1>0, <2>1 DEF ApplyRemote, Installed, AtRun
    <3> QED BY <3>1, RemoteKubernetesSteps DEF At, AtRun
  <2>2. CASE RemovePub \/ RunPub
    <3>1. At("remove_pub") \/ At("run_pub")
      BY <2>2 DEF RemovePub, RunPub
    <3>2. AtRun("remote_docker")
      BY <1>0, <3>1, AtWhom
    <3> QED BY <3>1, <3>2, RemoteDockerSteps DEF At, AtRun
  <2> QED BY <2>1, <2>2
<1>2. setup = Saved(run.config) /\ run.config.infrastructure # "generate" /\ Installed \in Remotes
  BY <1>1 DEF KeysInv, KeysSaved, AtRun, Installed, Remotes
<1>3. /\ remotePub' \in [Remotes -> Nat]
      /\ \A i \in Remotes : remotePub'[i] \in {0, remotePub[i], run.config.gateway}
  <2>1. AtRun("remote_kubernetes") => rendered["remote_pub"] = run.config
    BY <1>1 DEF KeysInv, KeysSaved, HasRendered, AtRun
  <2>2. run.config.gateway \in Nat /\ remotePub \in [Remotes -> Nat]
    BY <1>0 DEF AnyConfig, KeysInv
  <2>3. \/ remotePub' = remotePub
        \/ remotePub' = [remotePub EXCEPT ![Installed] = 0]
        \/ remotePub' = [remotePub EXCEPT ![Installed] = run.config.gateway]
    <3>1. CASE ApplyRemote
      <4>1. AtRun("remote_kubernetes")
        BY <1>0, <3>1 DEF ApplyRemote, Installed, AtRun
      <4> QED BY <2>1, <3>1, <4>1 DEF ApplyRemote, Applied
    <3>2. CASE RemovePub \/ RunPub
      BY <3>2 DEF RemovePub, RunPub
    <3> QED BY <3>1, <3>2
  <2> QED BY <1>2, <2>2, <2>3
<1>4. /\ run'.config = run.config /\ KeysSaved'
  <2>1. \/ \E r \in RunState : run' = Ended(r, "failed") /\ r.config = run.config
        \/ \E r \in RunState : /\ run' = Following(r, 1) /\ r.pc = "running" /\ r.step = run.step
                               /\ r.result = Unset /\ r.config = run.config
    <3>1. ASSUME NEW files \in SUBSET Generated
          PROVE  /\ [run EXCEPT !.applied = files] \in RunState /\ [run EXCEPT !.applied = files].config = run.config
                 /\ [run EXCEPT !.applied = files].pc = "running" /\ [run EXCEPT !.applied = files].step = run.step
                 /\ [run EXCEPT !.applied = files].result = Unset
      BY <1>0 DEF RunState
    <3>2. /\ [run EXCEPT !.confirmed = FALSE] \in RunState /\ [run EXCEPT !.confirmed = FALSE].config = run.config
          /\ [run EXCEPT !.confirmed = FALSE].pc = "running" /\ [run EXCEPT !.confirmed = FALSE].step = run.step
          /\ [run EXCEPT !.confirmed = FALSE].result = Unset
      BY <1>0 DEF RunState
    <3>3. \/ \E files \in SUBSET Generated : run' = Ended([run EXCEPT !.applied = files], "failed")
          \/ \E files \in SUBSET Generated : run' = Following([run EXCEPT !.applied = files], 1)
          \/ run' = Following([run EXCEPT !.confirmed = FALSE], 1)
          \/ run' = Following(run, 1)
          \/ run' = Ended(run, "failed")
      BY DEF ApplyRemote, RemovePub, RunPub, Failing, End, Continue
    <3> QED BY <1>0, <3>1, <3>2, <3>3
  <2>2. CASE \E r \in RunState : run' = Ended(r, "failed") /\ r.config = run.config
    <3>1. run'.pc = "idle" /\ run'.config = run.config
      BY <2>2 DEF Ended, RunState
    <3> QED BY <3>1 DEF KeysSaved, AtRun
  <2>3. CASE \E r \in RunState : /\ run' = Following(r, 1) /\ r.pc = "running" /\ r.step = run.step
                                 /\ r.result = Unset /\ r.config = run.config
    <3>1. AtRun("remote_kubernetes") => HasRendered("remote_pub")
      BY <1>1 DEF KeysInv, KeysSaved, AtRun
    <3>2. AtRun("remote_docker") \/ AtRun("remote_kubernetes") => run.step # 4
      BY <1>1
    <3> QED BY <1>0, <1>1, <2>3, <3>1, <3>2, KeysGoOn
  <2> QED BY <2>1, <2>2, <2>3
<1> QED BY <1>0, <1>2, <1>3, <1>4, StartKeys

LEMMA EndedKeys == ASSUME WizardInv, KeysInv, KillWizard \/ RemoveSetup \/ ChangePassword PROVE KeysInv'
<1>1. CASE KillWizard
  <2>1. run'.pc = "idle"
    BY <1>1, Ongoing DEF KillWizard, End, Ended, RunState
  <2> QED BY <1>1, <2>1, KeysRest DEF KillWizard
<1>2. CASE RemoveSetup \/ ChangePassword
  BY <1>2, KeysRest DEF RemoveSetup, ChangePassword
<1> QED BY <1>1, <1>2

LEMMA KeysStep == ASSUME WizardInv, KeysInv, [WizardNext]_wizardVars PROVE KeysInv'
<1>1. CASE UNCHANGED wizardVars
  <2>1. /\ setup' = setup /\ run' = run /\ rendered' = rendered /\ system' = system /\ remotePub' = remotePub
        /\ forgotten' = forgotten
    BY <1>1 DEF wizardVars
  <2>2. KeysSaved'
    BY <2>1 DEF KeysInv, KeysSaved, AtRun, HasRendered
  <2>3. OneKey => OneKey'
    BY <2>1 DEF OneKey, NothingRuns, Known, KnownIn
  <2> QED BY <2>1, <2>2, <2>3 DEF KeysInv
<1> QED
  BY <1>1, StartWizardKeys, StartGeneratorKeys, AskKeys, SavesKeys, SecretsKeys, TokensKeys, GatewayKeys, QuietKeys,
     TemplateKeys, LaunchKeys, RemoteKeys, EndedKeys
     DEF WizardNext

LEMMA WizardPromise == ASSUME WizardInv, KeysInv PROVE InstallationIsResumed
<1>1. ASSUME setup # Missing, ~Forgotten
      PROVE  /\ \A i \in Infra : /\ system[i].database # 0 => setup.config.postgres = system[i].database
                                 /\ system[i].admin # 0 => setup.config.admin = system[i].admin
             /\ \A i \in Remotes : remotePub[i] # 0 => setup.config.gateway = remotePub[i]
  <2>1. setup = Saved(setup.config) /\ Fits(setup.config) /\ ~forgotten
    BY <1>1 DEF WizardInv, SetupKnows, Forgotten
  <2>2. setup \notin {Missing, Torn}
    BY <1>1 DEF Forgotten
  <2>3. Known(setup.config)
    BY <2>1, <2>2 DEF KeysInv, OneKey
  <2> QED BY <2>1, <2>3 DEF Known, KnownIn, Fits, FitsIn
<1>2. DOMAIN system = Infra /\ DOMAIN remotePub = Remotes
  BY DEF WizardInv, WizardTyped, KeysInv
<1>3. PasswordsAreKept
  BY <1>1, <1>2 DEF PasswordsAreKept
<1>4. TokensFitKey
  <2> SUFFICES ASSUME NEW i \in Infra, ~(system[i].cut /\ forgotten),
                      NEW f \in DOMAIN system[i].files, NEW g \in DOMAIN system[i].files
               PROVE  system[i].files[f].auth_key = system[i].files[g].auth_key
    BY <1>2 DEF TokensFitKey, WizardInv, TokensSigned
  <2>1. CASE forgotten
    BY <1>2, <2>1 DEF WizardInv, FilesAgree
  <2>2. CASE ~forgotten
    BY <2>2 DEF KeysInv, OneKey
  <2> QED BY <2>1, <2>2
<1> QED BY <1>3, <1>4 DEF WizardInv, InstallationIsResumed

(* Whatever ends the invocations of the installer, and wherever: what has   *)
(* been started keeps its passwords within reach of setup.json, its tokens  *)
(* fit its key, its files were rendered with one set of secrets, and an     *)
(* installation that reaches its last steps completes or has an excuse.     *)
THEOREM InstallationsAreResumed == WizardInit /\ [][WizardNext]_wizardVars => []InstallationIsResumed
<1>1. WizardInit => WizardInv /\ KeysInv
  BY WizardStarts, KeysStart
<1>2. WizardInv /\ KeysInv /\ [WizardNext]_wizardVars => (WizardInv /\ KeysInv)'
  BY WizardSteps, KeysStep
<1>3. WizardInv /\ KeysInv => InstallationIsResumed
  BY WizardPromise
<1> QED BY <1>1, <1>2, <1>3, PTL

-----------------------------------------------------------------------------
(***************************************************************************)
(* The maintainers' tools.                                                 *)
(***************************************************************************)
-----------------------------------------------------------------------------
(* The cleaner                                                             *)

AllNames == ({"core"} \X Core) \cup ({"job-entrypoint", "job-1"} \X Jobs)
Repos == [name : AllNames, tags : SUBSET ((-1)..MaxTag)]
Chosen == {"jobs", "confirm", "delete", "done", "failed"}

CleanerTyped ==
    /\ images \in Seq(Repos) /\ pushes \in Nat
    /\ running \in [Environment -> [core : Int, jobs : [Jobs -> Int]]]
    /\ cleaner = [pc |-> cleaner.pc, page |-> cleaner.page, listed |-> cleaner.listed, kept |-> cleaner.kept,
                  todo |-> cleaner.todo, asked |-> cleaner.asked]
    /\ cleaner.pc \in {"idle", "list", "core"} \cup Chosen
    /\ cleaner.page \in Nat \ {0} /\ cleaner.listed \in Seq(Repos)

\* What an environment runs is kept, or was deployed after it was asked.
Safe == {d \in Environment \X Jobs :
            LET path == <<Entrypoint(d[2]), running[d[1]].jobs[d[2]]>>
            IN  path \in cleaner.kept \/ <<d[1], path>> \in later}

\* What the cleaner knows not to delete once it has asked: what the environments
\* run, and the newest versions of Racetrack.
CleanerKnows ==
    /\ cleaner.pc = "core" =>
          /\ cleaner.asked # {} => LatestRacetrackTags(cleaner.listed) \subseteq cleaner.kept
          /\ \A e \in cleaner.asked : DeployedRacetrackTags(e) \subseteq cleaner.kept
    /\ cleaner.pc \in Chosen =>
          /\ LatestRacetrackTags(cleaner.listed) \subseteq cleaner.kept
          /\ \A e \in Environment : DeployedRacetrackTags(e) \subseteq cleaner.kept
    /\ cleaner.pc = "jobs" => cleaner.asked \X Jobs \subseteq Safe
    /\ cleaner.pc \in Chosen \ {"jobs"} => Environment \X Jobs \subseteq Safe
    /\ cleaner.pc \notin {"delete", "done", "failed"} => removed = {}
    /\ cleaner.pc \in {"idle", "list", "core", "jobs"} => cleaner.todo = {}
    /\ cleaner.pc \in {"idle", "list"} => cleaner.asked = {}
    /\ cleaner.asked \subseteq Environment
    /\ cleaner.todo \subseteq Paths(cleaner.listed) \ cleaner.kept

CleanerInv == CleanerTyped /\ CleanerKnows /\ RemovedIsUnused /\ NewestAreKept

\* What is to be deleted may be deleted.
LEMMA CandidatesAreUnused ==
    ASSUME CleanerTyped, CleanerKnows, NEW path \in cleaner.todo, cleaner.pc \in Chosen
    PROVE  /\ \A e \in Users(path) : path[1][1] = "job-1" \/ <<e, path>> \in later
           /\ path[1][1] = "core" => /\ Users(path) = {} /\ Spare # 0
                                     /\ Cardinality({t \in 1..MaxTag : t > path[2]}) >= Spare
<1>1. /\ path \in Paths(cleaner.listed) /\ path \notin cleaner.kept
  BY DEF CleanerKnows
<1>2. PICK i \in DOMAIN cleaner.listed : \E t \in cleaner.listed[i].tags : path = <<cleaner.listed[i].name, t>>
  BY <1>1 DEF Paths
<1>3. PICK name, tags : cleaner.listed[i].name = name /\ cleaner.listed[i].tags = tags
  OBVIOUS
<1>4. name \in AllNames /\ tags \subseteq (-1)..MaxTag
  <2>1. cleaner.listed[i] \in Repos
    BY <1>2 DEF CleanerTyped
  <2> QED BY <2>1, <1>3 DEF Repos
<1>5. PICK t \in tags : path = <<name, t>>
  BY <1>2, <1>3
<1>6. path[1] = name /\ path[2] = t
  BY <1>5
<1>7. \A e \in Environment : running[e].jobs \in [Jobs -> Int]
  BY DEF CleanerTyped
<1>8. cleaner.pc # "jobs"
  BY DEF CleanerKnows
<1>9. CASE name[1] = "core"
  <2>1. PICK c \in Core : name = <<"core", c>>
    BY <1>4, <1>9 DEF AllNames
  <2>2. Users(path) = {}
    <3>1. \A e \in Environment : path \notin DeployedRacetrackTags(e)
      BY <1>1 DEF CleanerKnows
    <3>2. \A e \in Environment : running[e].core # t
      BY <3>1, <2>1, <1>5 DEF DeployedRacetrackTags
    <3> QED BY <3>2, <1>6, <2>1 DEF Users
  <2>3. t \notin LastTags(tags, Spare) \cup {LatestTag}
    <3>1. path \notin LatestRacetrackTags(cleaner.listed)
      BY <1>1 DEF CleanerKnows
    <3>2. i \in {k \in DOMAIN cleaner.listed : cleaner.listed[k].name[1] = "core"}
      BY <1>2, <1>3, <1>9
    <3> QED BY <3>1, <3>2, <1>3, <1>5 DEF LatestRacetrackTags
  <2>4. Spare # 0 /\ ~(Cardinality(After(tags, t)) < Spare)
    BY <2>3 DEF LastTags
  <2>5. t \in Int /\ t >= 0
    BY <1>4, <2>3, MaintenanceAssumption DEF LatestTag
  <2> DEFINE higher == {u \in 1..MaxTag : u > t}
  <2>6. After(tags, t) \subseteq higher
    <3> SUFFICES ASSUME NEW u \in After(tags, t) PROVE u \in 1..MaxTag /\ u > t
      OBVIOUS
    <3>1. u \in tags /\ u > t
      BY DEF After
    <3>2. u \in (-1)..MaxTag
      BY <3>1, <1>4
    <3> QED BY <3>1, <3>2, <2>5, MaintenanceAssumption
  <2>7. IsFiniteSet(higher)
    <3>1. IsFiniteSet(1..MaxTag)
      BY FS_Interval, MaintenanceAssumption
    <3> QED BY <3>1, FS_Subset
  <2>8. /\ IsFiniteSet(After(tags, t)) /\ Cardinality(After(tags, t)) <= Cardinality(higher)
    BY <2>6, <2>7, FS_Subset
  <2>9. Cardinality(After(tags, t)) \in Nat /\ Cardinality(higher) \in Nat
    BY <2>7, <2>8, FS_CardinalityType
  <2>10. Cardinality(higher) >= Spare
    <3> HIDE DEF higher
    <3> QED BY <2>4, <2>8, <2>9, MaintenanceAssumption
  <2> QED BY <2>2, <2>4, <2>10, <1>6
<1>10. CASE name[1] # "core"
  <2>1. SUFFICES ASSUME NEW e \in Users(path), name[1] # "job-1" PROVE <<e, path>> \in later
    BY <1>6, <1>10
  <2>2. PICK j \in Jobs : name = <<"job-entrypoint", j>>
    BY <1>4, <1>10, <2>1 DEF AllNames
  <2>3. e \in Environment /\ running[e].jobs[j] = t
    BY <2>1, <2>2, <1>6 DEF Users
  <2>4. path = <<Entrypoint(j), running[e].jobs[j]>>
    BY <2>2, <2>3, <1>5 DEF Entrypoint
  <2>5. <<e, j>> \in Safe
    BY <2>3, <1>8 DEF CleanerKnows
  <2> QED BY <2>4, <2>5, <1>1 DEF Safe
<1> QED BY <1>9, <1>10

LEMMA NamesAreFinite == IsFiniteSet({<<"core", c>> : c \in Core} \cup UNION {NamesOfJob(j) : j \in Jobs})
<1> DEFINE A == {<<"core", c>> : c \in Core}
           B == {Entrypoint(j) : j \in Jobs}
           C == {Auxiliary(j) : j \in Jobs}
<1>1. IsFiniteSet(A)
  <2>1. [c \in Core |-> <<"core", c>>] \in Surjection(Core, A)
    BY DEF Surjection
  <2> QED BY <2>1, FS_Surjection, MaintenanceAssumption DEF ExistsSurjection
<1>2. IsFiniteSet(B)
  <2>1. [j \in Jobs |-> Entrypoint(j)] \in Surjection(Jobs, B)
    BY DEF Surjection
  <2> QED BY <2>1, FS_Surjection, MaintenanceAssumption DEF ExistsSurjection
<1>3. IsFiniteSet(C)
  <2>1. [j \in Jobs |-> Auxiliary(j)] \in Surjection(Jobs, C)
    BY DEF Surjection
  <2> QED BY <2>1, FS_Surjection, MaintenanceAssumption DEF ExistsSurjection
<1>4. IsFiniteSet(A \cup (B \cup C))
  <2> HIDE DEF A, B, C
  <2> QED BY <1>1, <1>2, <1>3, FS_Union
<1>5. UNION {NamesOfJob(j) : j \in Jobs} = B \cup C
  BY DEF NamesOfJob
<1> QED BY <1>4, <1>5

LEMMA NamesAreListed ==
    ASSUME NEW S, IsFiniteSet(S) PROVE SetToSeq(S) \in Seq(S)
<1>1. Cardinality(S) \in Nat /\ \E f : f \in Bijection(1..Cardinality(S), S)
  BY FS_CardinalityType DEF ExistsBijection
<1>2. PICK f : f \in Bijection(1..Cardinality(S), S)
  BY <1>1
<1>3. f \in [1..Cardinality(S) -> S] /\ IsInjective(f)
  BY <1>2 DEF Bijection, Injection, IsInjective
<1>4. SetToSeq(S) \in [1..Cardinality(S) -> S]
  BY <1>3 DEF SetToSeq
<1> QED BY <1>1, <1>4

LEMMA CleanerStarts == ASSUME CleanerInit PROVE CleanerInv
<1> DEFINE S == {<<"core", c>> : c \in Core} \cup UNION {NamesOfJob(j) : j \in Jobs}
           repo(name) == Image(name, (1..MaxTag) \cup IF name[1] = "core" THEN {LatestTag, 0} ELSE {})
<1>1. SetToSeq(S) \in Seq(S)
  BY NamesAreFinite, NamesAreListed
<1>2. PICK names \in Seq(S) : images = [i \in 1..Len(names) |-> repo(names[i])]
  BY <1>1 DEF CleanerInit
<1>3. S \subseteq AllNames
  BY DEF AllNames, NamesOfJob, Entrypoint, Auxiliary
<1>4. \A i \in 1..Len(names) : repo(names[i]) \in Repos
  <2> SUFFICES ASSUME NEW i \in 1..Len(names) PROVE repo(names[i]) \in Repos
    OBVIOUS
  <2>1. names[i] \in AllNames
    BY <1>3
  <2>2. (1..MaxTag) \cup (IF names[i][1] = "core" THEN {LatestTag, 0} ELSE {}) \subseteq (-1)..MaxTag
    BY MaintenanceAssumption DEF LatestTag
  <2> QED BY <2>1, <2>2 DEF Repos, Image
<1>5. images \in Seq(Repos)
  <2> HIDE DEF repo
  <2> QED BY <1>2, <1>4
<1>6. running \in [Environment -> [core : Int, jobs : [Jobs -> Int]]]
  BY DEF CleanerInit, NoTag
<1>7. CleanerTyped
  <2>1. <<>> \in Seq(Repos)
    OBVIOUS
  <2>2. PICK none \in Seq(Repos) : none = <<>>
    BY <2>1
  <2>3. cleaner = [pc |-> "idle", page |-> 1, listed |-> none, kept |-> {}, todo |-> {}, asked |-> {}] /\ pushes = 0
    BY <2>2 DEF CleanerInit
  <2> QED BY <1>5, <1>6, <2>3 DEF CleanerTyped
<1>8. CleanerKnows
  BY DEF CleanerInit, CleanerKnows, Chosen
<1> QED BY <1>7, <1>8 DEF CleanerInit, CleanerInv, RemovedIsUnused, NewestAreKept

LEMMA SameAnswers ==
    ASSUME running' = running
    PROVE  \A e \in Environment : DeployedRacetrackTags(e)' = DeployedRacetrackTags(e)
BY DEF DeployedRacetrackTags

LEMMA KeptIsKept ==
    ASSUME running' = running, later' = later, cleaner.kept \subseteq cleaner'.kept
    PROVE  Safe \subseteq Safe'
BY DEF Safe

LEMMA StartCleanerStep == ASSUME CleanerInv, StartCleaner PROVE CleanerInv'
<1>1. PICK c : c = cleaner
  OBVIOUS
<1>2. cleaner' = [pc |-> "list", page |-> c.page, listed |-> c.listed, kept |-> c.kept, todo |-> c.todo, asked |-> c.asked]
      /\ UNCHANGED <<images, running, removed, later, pushes>> /\ c.pc = "idle"
  BY <1>1 DEF CleanerInv, CleanerTyped, StartCleaner, Goes
<1>3. CleanerTyped' /\ CleanerKnows'
  BY <1>1, <1>2 DEF CleanerInv, CleanerTyped, CleanerKnows, Chosen
<1> QED BY <1>2, <1>3 DEF CleanerInv, RemovedIsUnused, NewestAreKept

LEMMA ConfirmStep == ASSUME CleanerInv, Confirm PROVE CleanerInv'
<1>1. PICK c : c = cleaner
  OBVIOUS
<1>2. cleaner' = [pc |-> "delete", page |-> c.page, listed |-> c.listed, kept |-> c.kept, todo |-> c.todo, asked |-> c.asked]
      /\ UNCHANGED <<images, running, removed, later, pushes>> /\ c.pc = "confirm"
  BY <1>1 DEF CleanerInv, CleanerTyped, Confirm, Goes
<1>3. CleanerTyped'
  BY <1>1, <1>2 DEF CleanerInv, CleanerTyped, Chosen
<1>4. Safe \subseteq Safe' /\ \A e \in Environment : DeployedRacetrackTags(e)' = DeployedRacetrackTags(e)
  BY <1>1, <1>2, SameAnswers, KeptIsKept
<1>5. CleanerKnows'
  BY <1>1, <1>2, <1>4 DEF CleanerInv, CleanerKnows, Chosen
<1> QED BY <1>2, <1>3, <1>5 DEF CleanerInv, RemovedIsUnused, NewestAreKept

LEMMA ListStep == ASSUME CleanerInv, ListRegistryImages PROVE CleanerInv'
<1>1. PICK c : c = cleaner
  OBVIOUS
<1> DEFINE first == (c.page - 1) * PerPage + 1
           last == c.page * PerPage
           end == IF last < Len(images) THEN last ELSE Len(images)
           page == SubSeq(images, first, end)
<1>2. PICK q \in {"list", "core"} :
         /\ cleaner' = [pc |-> q, page |-> c.page + 1, listed |-> c.listed \o page, kept |-> c.kept,
                        todo |-> c.todo, asked |-> c.asked]
         /\ UNCHANGED <<images, running, removed, later, pushes>> /\ c.pc = "list"
  BY <1>1 DEF CleanerInv, CleanerTyped, ListRegistryImages
<1>3. page \in Seq(Repos)
  <2>1. Len(images) \in Nat /\ \A i \in 1..Len(images) : images[i] \in Repos
    BY DEF CleanerInv, CleanerTyped
  <2>2. c.page \in Nat \ {0}
    BY <1>1 DEF CleanerInv, CleanerTyped
  <2>3. PICK n \in Nat, k \in Nat \ {0} : n = c.page - 1 /\ k = PerPage
    BY <2>2, MaintenanceAssumption
  <2>4. n * k \in Nat /\ (n + 1) * k \in Nat
    BY <2>3
  <2>5. first = n * k + 1 /\ last = (n + 1) * k
    BY <2>2, <2>3
  <2>6. first \in Int /\ end \in Int /\ first >= 1 /\ end <= Len(images)
    BY <2>1, <2>4, <2>5
  <2>7. \A i \in first..end : images[i] \in Repos
    BY <2>1, <2>6
  <2> HIDE DEF first, last, end
  <2> QED BY <2>6, <2>7, SubSeqProperties
<1>4. c.listed \o page \in Seq(Repos)
  <2>1. c.listed \in Seq(Repos)
    BY <1>1 DEF CleanerInv, CleanerTyped
  <2> HIDE DEF page
  <2> QED BY <1>3, <2>1
<1> HIDE DEF first, last, end, page
<1>5. CleanerTyped'
  BY <1>1, <1>2, <1>4 DEF CleanerInv, CleanerTyped
<1>6. c.todo = {} /\ c.asked = {} /\ removed = {}
  BY <1>1, <1>2 DEF CleanerInv, CleanerKnows
<1>7. CleanerKnows'
  BY <1>2, <1>6 DEF CleanerKnows, Chosen
<1> QED BY <1>2, <1>5, <1>7 DEF CleanerInv, RemovedIsUnused, NewestAreKept

LEMMA ReadCoreStep == ASSUME CleanerInv, NEW e \in Environment, ReadCore(e) PROVE CleanerInv'
<1>1. PICK c : c = cleaner
  OBVIOUS
<1> DEFINE asked == c.asked \cup {e}
           kept == c.kept \cup DeployedRacetrackTags(e) \cup LatestRacetrackTags(c.listed)
           full == asked = Environment
<1>2. /\ cleaner' = [pc |-> IF full THEN "jobs" ELSE "core", page |-> c.page, listed |-> c.listed, kept |-> kept,
                     todo |-> c.todo, asked |-> IF full THEN {} ELSE asked]
      /\ UNCHANGED <<images, running, removed, later, pushes>> /\ c.pc = "core"
  BY <1>1 DEF CleanerInv, CleanerTyped, ReadCore
<1>3. CleanerTyped'
  BY <1>1, <1>2 DEF CleanerInv, CleanerTyped, Chosen
<1>4. \A d \in Environment : DeployedRacetrackTags(d)' = DeployedRacetrackTags(d)
  BY <1>2, SameAnswers
<1>5. /\ LatestRacetrackTags(c.listed) \subseteq kept
      /\ \A d \in asked : DeployedRacetrackTags(d) \subseteq kept
      /\ c.todo = {} /\ removed = {}
  BY <1>1, <1>2 DEF CleanerInv, CleanerKnows
<1>6. asked \subseteq Environment
  BY <1>1, <1>2 DEF CleanerInv, CleanerKnows
<1>7. CleanerKnows'
  <2> HIDE DEF kept
  <2>1. CASE full
    BY <1>2, <1>4, <1>5, <2>1 DEF CleanerKnows, Chosen
  <2>2. CASE ~full
    BY <1>2, <1>4, <1>5, <1>6, <2>2 DEF CleanerKnows, Chosen
  <2> QED BY <2>1, <2>2
<1> QED BY <1>2, <1>3, <1>7 DEF CleanerInv, RemovedIsUnused, NewestAreKept

LEMMA ReadJobsStep == ASSUME CleanerInv, NEW e \in Environment, ReadJobs(e) PROVE CleanerInv'
<1>1. PICK c : c = cleaner
  OBVIOUS
<1> DEFINE asked == c.asked \cup {e}
           kept == c.kept \cup DeployedJobTags(e)
           full == asked = Environment
<1>2. /\ cleaner' = [pc |-> IF full THEN "confirm" ELSE "jobs", page |-> c.page, listed |-> c.listed, kept |-> kept,
                     todo |-> IF full THEN Paths(c.listed) \ kept ELSE {}, asked |-> asked]
      /\ UNCHANGED <<images, running, removed, pushes>> /\ c.pc = "jobs"
      /\ later' = {d \in later : d[1] # e}
  BY <1>1 DEF CleanerInv, CleanerTyped, ReadJobs
<1>3. CleanerTyped'
  BY <1>1, <1>2 DEF CleanerInv, CleanerTyped, Chosen
<1>4. \A d \in Environment : DeployedRacetrackTags(d)' = DeployedRacetrackTags(d)
  BY <1>2, SameAnswers
<1>5. /\ LatestRacetrackTags(c.listed) \subseteq kept
      /\ \A d \in Environment : DeployedRacetrackTags(d) \subseteq kept
      /\ removed = {}
  BY <1>1, <1>2 DEF CleanerInv, CleanerKnows, Chosen
<1>6. c.asked \subseteq Environment
  BY <1>1, <1>2 DEF CleanerInv, CleanerKnows
<1>8. asked \X Jobs \subseteq Safe'
  <2> SUFFICES ASSUME NEW d \in asked, NEW j \in Jobs, NEW path, path = <<Entrypoint(j), running[d].jobs[j]>>
               PROVE  path \in kept \/ <<d, path>> \in later'
    BY <1>2, <1>6 DEF Safe
  <2>1. CASE d = e
    BY <2>1 DEF DeployedJobTags
  <2>2. CASE d # e
    <3>1. <<d, j>> \in Safe
      BY <1>1, <1>2, <2>2 DEF CleanerInv, CleanerKnows
    <3>2. path \in c.kept \/ <<d, path>> \in later
      BY <3>1, <1>1 DEF Safe
    <3> QED BY <3>2, <2>2, <1>2
  <2> QED BY <2>1, <2>2
<1>7. CleanerKnows'
  <2> HIDE DEF kept
  <2>1. CASE full
    BY <1>2, <1>4, <1>5, <1>8, <2>1 DEF CleanerKnows, Chosen
  <2>2. CASE ~full
    BY <1>2, <1>4, <1>5, <1>6, <1>8, <2>2 DEF CleanerKnows, Chosen
  <2> QED BY <2>1, <2>2
<1> QED BY <1>2, <1>3, <1>5, <1>7 DEF CleanerInv, RemovedIsUnused, NewestAreKept

LEMMA DeleteTagStep == ASSUME CleanerInv, NEW path \in cleaner.todo, DeleteTag(path) PROVE CleanerInv'
<1>1. PICK c : c = cleaner
  OBVIOUS
<1>2. c.pc = "delete" /\ running' = running /\ pushes' = pushes /\ later' = later
  BY <1>1 DEF DeleteTag
<1>3. /\ \A d \in Environment : DeployedRacetrackTags(d)' = DeployedRacetrackTags(d)
      /\ cleaner'.kept = c.kept => Safe \subseteq Safe'
  BY <1>1, <1>2, SameAnswers, KeptIsKept
<1>4. CASE ~HasTag(path) /\ cleaner' = Goes("failed") /\ UNCHANGED <<images, removed>>
  <2>1. cleaner' = [pc |-> "failed", page |-> c.page, listed |-> c.listed, kept |-> c.kept, todo |-> c.todo, asked |-> c.asked]
    BY <1>1, <1>4 DEF CleanerInv, CleanerTyped, Goes
  <2>2. CleanerTyped'
    BY <1>1, <1>2, <1>4, <2>1 DEF CleanerInv, CleanerTyped, Chosen
  <2>3. CleanerKnows'
    BY <1>1, <1>2, <1>3, <2>1 DEF CleanerInv, CleanerKnows, Chosen
  <2> QED BY <1>2, <1>4, <2>2, <2>3 DEF CleanerInv, RemovedIsUnused, NewestAreKept
<1>5. CASE HasTag(path) /\ ~(~HasTag(path) /\ cleaner' = Goes("failed") /\ UNCHANGED <<images, removed>>)
  <2> DEFINE lesser(r) == [r EXCEPT !.tags = @ \ {path[2]}]
             new == [path |-> path, users |-> Users(path)]
  <2>1. /\ images' = [i \in DOMAIN images |-> IF images[i].name = path[1] THEN lesser(images[i]) ELSE images[i]]
        /\ removed' = removed \cup {new}
    BY <1>5 DEF DeleteTag
  <2>2. PICK q \in {"delete", "done"} :
           cleaner' = [pc |-> q, page |-> c.page, listed |-> c.listed, kept |-> c.kept, todo |-> c.todo \ {path}, asked |-> c.asked]
    BY <1>1, <1>2, <1>5 DEF CleanerInv, CleanerTyped, DeleteTag
  <2>3. images' \in Seq(Repos)
    <3>1. images \in Seq(Repos)
      BY DEF CleanerInv, CleanerTyped
    <3>2. \A r \in Repos : lesser(r) \in Repos
      BY DEF Repos
    <3> HIDE DEF lesser
    <3> QED BY <2>1, <3>1, <3>2
  <2>4. CleanerTyped'
    BY <1>1, <1>2, <2>2, <2>3 DEF CleanerInv, CleanerTyped, Chosen
  <2>5. CleanerKnows'
    BY <1>1, <1>2, <1>3, <2>2 DEF CleanerInv, CleanerKnows, Chosen
  <2>6. /\ \A e \in Users(path) : path[1][1] = "job-1" \/ <<e, path>> \in later
        /\ path[1][1] = "core" => /\ Users(path) = {} /\ Spare # 0
                                  /\ Cardinality({t \in 1..MaxTag : t > path[2]}) >= Spare
    BY <1>1, <1>2, CandidatesAreUnused DEF CleanerInv, Chosen
  <2>7. new.path = path /\ new.users = Users(path)
    OBVIOUS
  <2>8. RemovedIsUnused'
    <3> SUFFICES ASSUME NEW r \in removed', NEW e \in r.users PROVE r.path[1][1] = "job-1" \/ <<e, r.path>> \in later
      BY <1>2 DEF RemovedIsUnused
    <3>1. CASE r \in removed
      BY <3>1 DEF CleanerInv, RemovedIsUnused
    <3>2. CASE r = new
      BY <3>2, <2>6, <2>7
    <3> QED BY <2>1, <3>1, <3>2
  <2>9. NewestAreKept'
    <3> SUFFICES ASSUME NEW r \in removed', r.path[1][1] = "core"
                 PROVE  /\ r.users = {} /\ Spare # 0
                        /\ Cardinality({t \in 1..MaxTag : t > r.path[2]}) >= Spare
      BY DEF NewestAreKept
    <3>1. CASE r \in removed
      BY <3>1 DEF CleanerInv, NewestAreKept
    <3>2. CASE r = new
      BY <3>2, <2>6, <2>7
    <3> QED BY <2>1, <3>1, <3>2
  <2> QED BY <2>4, <2>5, <2>8, <2>9 DEF CleanerInv
<1> QED BY <1>4, <1>5 DEF DeleteTag

LEMMA DeployMeanwhileStep ==
    ASSUME CleanerInv, NEW e \in Environment, NEW j \in Jobs, NEW t \in 1..MaxTag, DeployMeanwhile(e, j, t)
    PROVE  CleanerInv'
<1> DEFINE more(r) == [r EXCEPT !.tags = @ \cup {t}]
<1>1. /\ images' = [i \in DOMAIN images |-> IF images[i].name \in NamesOfJob(j) THEN more(images[i]) ELSE images[i]]
      /\ running' = [running EXCEPT ![e].jobs[j] = t]
      /\ pushes' = pushes + 1 /\ cleaner' = cleaner /\ removed' = removed
      /\ later' = later \cup {<<e, <<Entrypoint(j), t>>>>}
  BY DEF DeployMeanwhile
<1>2. pushes' \in Nat
  BY <1>1 DEF CleanerInv, CleanerTyped
<1>3. images' \in Seq(Repos)
  <2>1. images \in Seq(Repos)
    BY DEF CleanerInv, CleanerTyped
  <2>2. t \in (-1)..MaxTag
    BY MaintenanceAssumption
  <2>3. \A r \in Repos : more(r) \in Repos
    BY <2>2 DEF Repos
  <2> HIDE DEF more
  <2> QED BY <1>1, <2>1, <2>3
<1>4. running \in [Environment -> [core : Int, jobs : [Jobs -> Int]]] /\ t \in Int
  BY DEF CleanerInv, CleanerTyped
<1>5. running' \in [Environment -> [core : Int, jobs : [Jobs -> Int]]] /\ \A d \in Environment : running'[d].core = running[d].core
  BY <1>1, <1>4
<1>6. CleanerTyped'
  BY <1>1, <1>2, <1>3, <1>5 DEF CleanerInv, CleanerTyped
<1>7. \A d \in Environment : DeployedRacetrackTags(d)' = DeployedRacetrackTags(d)
  BY <1>5 DEF DeployedRacetrackTags
<1>10. Safe \subseteq Safe'
  <2> SUFFICES ASSUME NEW d \in Environment, NEW k \in Jobs, <<d, k>> \in Safe,
                      NEW path, path = <<Entrypoint(k), running'[d].jobs[k]>>
               PROVE  path \in cleaner.kept \/ <<d, path>> \in later'
    BY <1>1 DEF Safe
  <2>1. CASE d = e /\ k = j
    BY <1>1, <1>4, <2>1
  <2>2. CASE ~(d = e /\ k = j)
    <3>1. running'[d].jobs[k] = running[d].jobs[k]
      BY <1>1, <1>4, <2>2
    <3> QED BY <3>1, <1>1 DEF Safe
  <2> QED BY <2>1, <2>2
<1>8. CleanerKnows'
  BY <1>1, <1>2, <1>7, <1>10 DEF CleanerInv, CleanerKnows
<1>9. RemovedIsUnused'
  BY <1>1 DEF CleanerInv, RemovedIsUnused
<1> QED BY <1>1, <1>6, <1>8, <1>9 DEF CleanerInv, NewestAreKept

LEMMA RemoveRepositoryStep == ASSUME CleanerInv, NEW i \in DOMAIN images, RemoveRepository(i) PROVE CleanerInv'
<1>1. /\ images' = SubSeq(images, 1, i - 1) \o SubSeq(images, i + 1, Len(images))
      /\ running' = running /\ pushes' = pushes + 1 /\ cleaner' = cleaner /\ removed' = removed /\ later' = later
  BY DEF RemoveRepository, RemoveAt
<1>2. pushes' \in Nat
  BY <1>1 DEF CleanerInv, CleanerTyped
<1>3. images' \in Seq(Repos)
  <2>1. images \in Seq(Repos) /\ i \in 1..Len(images)
    BY DEF CleanerInv, CleanerTyped
  <2>2. SubSeq(images, 1, i - 1) \in Seq(Repos)
    BY <2>1, SubSeqProperties
  <2>3. SubSeq(images, i + 1, Len(images)) \in Seq(Repos)
    BY <2>1, SubSeqProperties
  <2> QED BY <1>1, <2>2, <2>3
<1>4. CleanerTyped'
  BY <1>1, <1>2, <1>3 DEF CleanerInv, CleanerTyped
<1>5. \A d \in Environment : DeployedRacetrackTags(d)' = DeployedRacetrackTags(d) /\ Safe \subseteq Safe'
  BY <1>1, SameAnswers, KeptIsKept
<1>6. CleanerKnows'
  BY <1>1, <1>2, <1>5 DEF CleanerInv, CleanerKnows
<1>7. RemovedIsUnused'
  BY <1>1 DEF CleanerInv, RemovedIsUnused
<1> QED BY <1>1, <1>4, <1>6, <1>7 DEF CleanerInv, NewestAreKept

LEMMA CleanerStep == ASSUME CleanerInv, [CleanerNext]_cleanerVars PROVE CleanerInv'
<1>1. CASE CleanerNext
  <2>1. CASE StartCleaner \/ ListRegistryImages \/ Confirm
    BY <2>1, StartCleanerStep, ListStep, ConfirmStep
  <2>2. CASE \E e \in Environment : ReadCore(e) \/ ReadJobs(e)
    BY <2>2, ReadCoreStep, ReadJobsStep
  <2>3. CASE \E path \in cleaner.todo : DeleteTag(path)
    BY <2>3, DeleteTagStep
  <2>4. CASE \E e \in Environment, j \in Jobs : \E t \in 1..MaxTag : DeployMeanwhile(e, j, t)
    BY <2>4, DeployMeanwhileStep
  <2>5. CASE \E i \in DOMAIN images : RemoveRepository(i)
    BY <2>5, RemoveRepositoryStep
  <2> QED BY <1>1, <2>1, <2>2, <2>3, <2>4, <2>5 DEF CleanerNext
<1>2. CASE UNCHANGED cleanerVars
  <2>1. UNCHANGED <<images, running, cleaner, removed, later, pushes>>
    BY <1>2 DEF cleanerVars
  <2>2. \A d \in Environment : DeployedRacetrackTags(d)' = DeployedRacetrackTags(d) /\ Safe \subseteq Safe'
    BY <2>1, SameAnswers, KeptIsKept
  <2>3. CleanerTyped' /\ CleanerKnows'
    BY <2>1, <2>2 DEF CleanerInv, CleanerTyped, CleanerKnows
  <2> QED BY <2>1, <2>3 DEF CleanerInv, RemovedIsUnused, NewestAreKept
<1> QED BY <1>1, <1>2

-----------------------------------------------------------------------------
(* The bumper                                                              *)

Texts == [base : Nat \X Nat \X Nat, tail : Seq(Nat)]
Numbers == [major : Nat, minor : Nat, patch : Nat, mr : Nat, dev : Nat]
Short == {<<>>, <<1>>, <<1, 1>>}
Detailed(tail) == tail \in Seq(Nat) /\ Len(tail) >= 2 /\ tail[1] >= 1 /\ tail[2] >= 1 /\ (tail[1] # 1 \/ tail[2] >= 2)

\* The Makefile and the client's package name one version, or the Makefile names
\* a merge request which the client's package does not know.
Alike(m, i) == m = i /\ m \in Texts /\ m.tail \in Short
Apart(m, i) == m \in Texts /\ Detailed(m.tail) /\ i \in Texts /\ i.tail \in Short
Matched(m, i) == Alike(m, i) \/ Apart(m, i)

BumperInv ==
    \/ reported
    \/ bumper.pc = "idle" /\ Matched(makefile, init)
    \/ /\ bumper.pc = "makefile" /\ Matched(makefile, init)
       /\ \E args \in Arguments :
             LET new == NewVersion(args) IN
             bumper = [pc |-> "makefile", old |-> Parse(makefile), new |-> new, official |-> Official(args, new)]
    \/ /\ bumper.pc = "init" /\ init \in Texts
       /\ Found(init, bumper.old) => Alike(makefile, Replace(init, bumper.old, bumper.new))

LEMMA Pair ==
    ASSUME NEW n \in Nat, NEW k \in Nat, NEW s \in Seq(Nat), Len(s) = 2, s[1] = n, s[2] = k PROVE s = <<n, k>>
OBVIOUS

LEMMA PairIsConcatenation == ASSUME NEW n \in Nat, NEW k \in Nat PROVE <<n>> \o <<k>> = <<n, k>>
<1>1. <<n>> \in Seq(Nat) /\ <<k>> \in Seq(Nat)
  OBVIOUS
<1>2. Len(<<n>>) = 1 /\ Len(<<k>>) = 1 /\ <<n>>[1] = n /\ <<k>>[1] = k
  OBVIOUS
<1>3. PICK a \in Seq(Nat), b \in Seq(Nat) : a = <<n>> /\ b = <<k>>
  BY <1>1
<1>4. Len(a) = 1 /\ Len(b) = 1 /\ a[1] = n /\ b[1] = k
  BY <1>2, <1>3
<1>5. /\ a \o b \in Seq(Nat)
      /\ Len(a \o b) = Len(a) + Len(b)
      /\ \A i \in 1 .. Len(a) + Len(b) : (a \o b)[i] = IF i <= Len(a) THEN a[i] ELSE b[i - Len(a)]
  BY ConcatProperties
<1>6. PICK s \in Seq(Nat) : s = a \o b
  BY <1>5
<1>7. Len(s) = 2 /\ s[1] = n /\ s[2] = k
  BY <1>4, <1>5, <1>6
<1> QED BY <1>3, <1>6, <1>7, Pair

LEMMA TailOfNumbers ==
    ASSUME NEW mr \in Nat, NEW dev \in Nat
    PROVE  Positive(mr) \o Positive(dev) =
              IF mr = 0 THEN IF dev = 0 THEN <<>> ELSE <<dev>> ELSE IF dev = 0 THEN <<mr>> ELSE <<mr, dev>>
<1>1. CASE mr = 0 /\ dev = 0
  BY <1>1 DEF Positive
<1>2. CASE mr = 0 /\ dev # 0
  BY <1>2 DEF Positive
<1>3. CASE mr # 0 /\ dev = 0
  BY <1>3 DEF Positive
<1>4. CASE mr # 0 /\ dev # 0
  <2>1. Positive(mr) = <<mr>> /\ Positive(dev) = <<dev>>
    BY <1>4 DEF Positive
  <2>2. <<mr>> \o <<dev>> = <<mr, dev>>
    BY PairIsConcatenation
  <2> QED BY <1>4, <2>1, <2>2
<1> QED BY <1>1, <1>2, <1>3, <1>4

LEMMA ParsedNumbers ==
    ASSUME NEW m \in Texts
    PROVE  /\ Parse(m) \in Numbers
           /\ Len(m.tail) < 2 => Parse(m).mr = 0 /\ Parse(m).dev = 0
           /\ Len(m.tail) >= 2 => Parse(m).mr = m.tail[1] /\ Parse(m).dev = m.tail[2]
<1>1. m.base \in Nat \X Nat \X Nat /\ m.tail \in Seq(Nat)
  BY DEF Texts
<1>2. Len(m.tail) >= 2 => m.tail[1] \in Nat /\ m.tail[2] \in Nat
  BY <1>1
<1> QED BY <1>1, <1>2 DEF Parse, Numbers

\* A version without a merge request has no number after it but the first one
\* that was asked for; a version with one is not the first of merge request 1.
Fine(m, new) ==
    /\ new \in Numbers
    /\ new.mr = 0 => new.dev \in {0, 1} /\ (Len(m.tail) >= 2 => new.dev = 0)
    /\ new.mr # 0 => new.dev # 0 /\ (new.mr # 1 \/ new.dev >= 2)

LEMMA Bumped ==
    ASSUME NEW v \in Numbers, NEW part \in Part
    PROVE  /\ Bump(v, part) \in Numbers /\ Bump(v, part).mr = v.mr
           /\ Bump(v, part).dev = IF part = "dev" THEN v.dev + 1 ELSE v.dev
<1>1. v = [major |-> v.major, minor |-> v.minor, patch |-> v.patch, mr |-> v.mr, dev |-> v.dev]
      /\ v.major \in Nat /\ v.minor \in Nat /\ v.patch \in Nat /\ v.mr \in Nat /\ v.dev \in Nat
  BY DEF Numbers
<1>2. CASE part = "major"
  <2>1. Bump(v, part) = [major |-> v.major + 1, minor |-> 0, patch |-> 0, mr |-> v.mr, dev |-> v.dev]
    BY <1>1, <1>2 DEF Bump
  <2> QED BY <1>1, <1>2, <2>1 DEF Numbers
<1>3. CASE part = "minor"
  <2>1. Bump(v, part) = [major |-> v.major, minor |-> v.minor + 1, patch |-> 0, mr |-> v.mr, dev |-> v.dev]
    BY <1>1, <1>3 DEF Bump
  <2> QED BY <1>1, <1>3, <2>1 DEF Numbers
<1>4. CASE part = "patch"
  <2>1. Bump(v, part) = [major |-> v.major, minor |-> v.minor, patch |-> v.patch + 1, mr |-> v.mr, dev |-> v.dev]
    BY <1>1, <1>4 DEF Bump
  <2> QED BY <1>1, <1>4, <2>1 DEF Numbers
<1>5. CASE part = "dev"
  <2>1. Bump(v, part) = [major |-> v.major, minor |-> v.minor, patch |-> v.patch, mr |-> v.mr, dev |-> v.dev + 1]
    BY <1>1, <1>5 DEF Bump
  <2> QED BY <1>1, <1>5, <2>1 DEF Numbers
<1> QED BY <1>2, <1>3, <1>4, <1>5 DEF Part

LEMMA NewVersionIsFine ==
    ASSUME NEW args \in Arguments, Matched(makefile, init) PROVE Fine(makefile, NewVersion(args))
<1>1. PICK m \in Texts : m = makefile
  BY DEF Matched, Alike, Apart
<1>2. PICK old \in Numbers : old = Parse(makefile)
  BY <1>1, ParsedNumbers
<1>3. m.tail \in Seq(Nat) /\ (m.tail \in Short \/ Detailed(m.tail))
  BY <1>1 DEF Matched, Alike, Apart, Texts
<1>4. \/ Len(m.tail) < 2 /\ old.mr = 0 /\ old.dev = 0
      \/ Len(m.tail) >= 2 /\ old.mr # 0 /\ old.dev >= 1
  <2>1. Len(m.tail) < 2 \/ (Len(m.tail) >= 2 /\ m.tail[1] >= 1 /\ m.tail[2] >= 1)
    BY <1>3 DEF Short, Detailed
  <2> QED BY <1>1, <1>2, <1>3, <2>1, ParsedNumbers
<1>5. old.mr \in Nat /\ old.dev \in Nat
  BY DEF Numbers
<1>6. args.part \in Part /\ args.mr \in {0, 7} /\ args.exact \in Exact \cup {NoExact}
  BY DEF Arguments
<1>7. "dev" \in Part
  BY DEF Part
<1>8. CASE args.exact = NoExact
  <2>1. PICK asked \in Numbers : /\ asked = (IF args.mr # 0 THEN [old EXCEPT !.mr = args.mr] ELSE old)
                                 /\ asked.mr = (IF args.mr # 0 THEN 7 ELSE old.mr) /\ asked.dev = old.dev
    <3>1. CASE args.mr = 0
      BY <3>1
    <3>2. CASE args.mr = 7
      <4>1. [old EXCEPT !.mr = 7] \in Numbers /\ [old EXCEPT !.mr = 7].mr = 7 /\ [old EXCEPT !.mr = 7].dev = old.dev
        BY DEF Numbers
      <4> QED BY <3>2, <4>1
    <3> QED BY <1>6, <3>1, <3>2
  <2>2. NewVersion(args) = IF asked.mr # 0 THEN Bump(asked, "dev") ELSE Bump(asked, args.part)
    BY <1>2, <1>8, <2>1 DEF NewVersion
  <2>3. CASE asked.mr # 0
    <3>a. Bump(asked, "dev") \in Numbers /\ Bump(asked, "dev").mr = asked.mr /\ Bump(asked, "dev").dev = asked.dev + 1
      BY <1>7, Bumped
    <3>1. PICK new \in Numbers : new = NewVersion(args) /\ new.mr = asked.mr /\ new.dev = old.dev + 1
      BY <2>1, <2>2, <2>3, <3>a
    <3> QED BY <1>1, <1>4, <1>5, <2>1, <2>3, <3>1 DEF Fine
  <2>4. CASE asked.mr = 0
    <3>1. PICK new \in Numbers : new = NewVersion(args) /\ new.mr = 0 /\ new.dev \in {old.dev, old.dev + 1}
      BY <1>6, <2>1, <2>2, <2>4, Bumped
    <3>2. Len(m.tail) < 2 /\ old.dev = 0
      BY <1>4, <2>1, <2>4
    <3> QED BY <1>1, <1>3, <3>1, <3>2 DEF Fine
  <2> QED BY <2>3, <2>4
<1>9. CASE args.exact = [base |-> <<1, 0, 1>>, tail |-> <<>>]
  <2>1. PICK exact \in Numbers : exact = Parse(args.exact) /\ exact.mr = 0 /\ exact.dev = 0
    <3>1. args.exact \in Texts /\ Len(args.exact.tail) = 0
      BY <1>9 DEF Texts
    <3> QED BY <3>1, ParsedNumbers
  <2>2. args.exact # NoExact
    <3>1. Len(args.exact.base) = 3
      BY <1>9
    <3>2. Len(NoExact.base) = 0
      BY DEF NoExact
    <3>3. 3 # 0
      OBVIOUS
    <3>4. args.exact = NoExact => Len(args.exact.base) = Len(NoExact.base)
      BY Zenon
    <3> QED BY <3>1, <3>2, <3>3, <3>4, Zenon
  <2>3. NewVersion(args) = exact
    BY <2>1, <2>2 DEF NewVersion
  <2> QED BY <1>1, <2>1, <2>3 DEF Fine
<1>10. CASE args.exact = [base |-> <<2, 0, 0>>, tail |-> <<7, 1>>]
  <2>1. PICK exact \in Numbers : exact = Parse(args.exact) /\ exact.mr = 7 /\ exact.dev = 1
    <3>1. args.exact \in Texts /\ Len(args.exact.tail) = 2 /\ args.exact.tail[1] = 7 /\ args.exact.tail[2] = 1
      BY <1>10 DEF Texts
    <3> QED BY <3>1, ParsedNumbers
  <2>2. args.exact # NoExact
    <3>1. Len(args.exact.base) = 3
      BY <1>10
    <3>2. Len(NoExact.base) = 0
      BY DEF NoExact
    <3>3. 3 # 0
      OBVIOUS
    <3>4. args.exact = NoExact => Len(args.exact.base) = Len(NoExact.base)
      BY Zenon
    <3> QED BY <3>1, <3>2, <3>3, <3>4, Zenon
  <2>3. NewVersion(args) = Bump(exact, "dev")
    BY <2>1, <2>2 DEF NewVersion
  <2>4. PICK new \in Numbers : new = NewVersion(args) /\ new.mr = 7 /\ new.dev = 2
    BY <1>7, <2>1, <2>3, Bumped
  <2> QED BY <1>1, <2>4 DEF Fine
<1> QED BY <1>6, <1>8, <1>9, <1>10 DEF Exact

LEMMA ReplacedIsText ==
    ASSUME NEW m \in Texts, NEW old \in Numbers, NEW new \in Numbers
    PROVE  /\ Replace(m, old, new) \in Texts
           /\ Replace(m, old, new).tail =
                 VersionText(new).tail \o SubSeq(m.tail, Len(VersionText(old).tail) + 1, Len(m.tail))
           /\ VersionText(new).tail \in Seq(Nat)
           /\ SubSeq(m.tail, Len(VersionText(old).tail) + 1, Len(m.tail)) \in Seq(Nat)
<1>1. \A v \in Numbers : /\ VersionText(v).base \in Nat \X Nat \X Nat /\ VersionText(v).tail \in Seq(Nat)
                         /\ Len(VersionText(v).tail) \in Nat
  <2> SUFFICES ASSUME NEW v \in Numbers
               PROVE  /\ VersionText(v).base \in Nat \X Nat \X Nat /\ VersionText(v).tail \in Seq(Nat)
                      /\ Len(VersionText(v).tail) \in Nat
    OBVIOUS
  <2>1. v.major \in Nat /\ v.minor \in Nat /\ v.patch \in Nat /\ v.mr \in Nat /\ v.dev \in Nat
    BY DEF Numbers
  <2>2. PICK tail \in Seq(Nat) : tail = Positive(v.mr) \o Positive(v.dev)
    <3>1. PICK mr \in Nat, dev \in Nat : mr = v.mr /\ dev = v.dev
      BY <2>1
    <3>2. <<>> \in Seq(Nat) /\ <<mr>> \in Seq(Nat) /\ <<dev>> \in Seq(Nat) /\ <<mr, dev>> \in Seq(Nat)
      OBVIOUS
    <3>3. Positive(mr) \o Positive(dev) \in Seq(Nat)
      BY <3>2, TailOfNumbers
    <3> QED BY <3>1, <3>3
  <2>3. VersionText(v) = [base |-> <<v.major, v.minor, v.patch>>, tail |-> tail]
    BY <2>2 DEF VersionText
  <2>4. Len(tail) \in Nat
    BY <2>2
  <2> QED BY <2>1, <2>2, <2>3, <2>4
<1>2. PICK k \in Nat : k = Len(VersionText(old).tail)
  BY <1>1
<1>3. m.tail \in Seq(Nat) /\ Len(m.tail) \in Nat
  BY DEF Texts
<1>4. PICK rest : rest = SubSeq(m.tail, k + 1, Len(m.tail)) /\ rest \in Seq(Nat)
  <2>1. PICK own \in Seq(Nat) : own = m.tail
    BY <1>3
  <2>2. \A i \in (k + 1)..Len(own) : own[i] \in Nat
    OBVIOUS
  <2>3. SubSeq(own, k + 1, Len(own)) \in Seq(Nat)
    <3>1. k + 1 \in Int /\ Len(own) \in Int
      OBVIOUS
    <3> QED BY <2>2, <3>1, SubSeqProperties
  <2> QED BY <2>1, <2>3
<1>5. PICK base, tail : /\ base = VersionText(new).base /\ base \in Nat \X Nat \X Nat
                        /\ tail = VersionText(new).tail /\ tail \in Seq(Nat)
  BY <1>1
<1>6. Replace(m, old, new) = [base |-> base, tail |-> tail \o rest]
  BY <1>2, <1>4, <1>5 DEF Replace
<1>7. tail \o rest \in Seq(Nat)
  BY <1>4, <1>5
<1>8. Replace(m, old, new) \in Texts
  BY <1>5, <1>6, <1>7 DEF Texts
<1>9. Replace(m, old, new).tail = tail \o rest
  BY <1>6
<1> QED BY <1>2, <1>4, <1>5, <1>8, <1>9

LEMMA VersionTail ==
    ASSUME NEW v \in Numbers
    PROVE  VersionText(v).tail =
              IF v.mr = 0 THEN IF v.dev = 0 THEN <<>> ELSE <<v.dev>> ELSE IF v.dev = 0 THEN <<v.mr>> ELSE <<v.mr, v.dev>>
<1>1. v.mr \in Nat /\ v.dev \in Nat
  BY DEF Numbers
<1>2. PICK tail : tail = Positive(v.mr) \o Positive(v.dev)
  OBVIOUS
<1>3. VersionText(v).tail = tail
  BY <1>2 DEF VersionText
<1> QED BY <1>1, <1>2, <1>3, TailOfNumbers

\* An official version keeps the texts short.
LEMMA OfficialIsShort ==
    ASSUME NEW m \in Texts, m.tail \in Short, NEW new \in Numbers, Fine(m, new), new.mr = 0
    PROVE  Replace(m, Parse(m), new).tail \in Short
<1>1. PICK old \in Numbers : old = Parse(m)
  BY ParsedNumbers
<1>2. PICK rest, tail : /\ Replace(m, old, new).tail = tail \o rest /\ rest \in Seq(Nat) /\ tail \in Seq(Nat)
                        /\ tail = VersionText(new).tail
                        /\ rest = SubSeq(m.tail, Len(VersionText(old).tail) + 1, Len(m.tail))
  BY ReplacedIsText
<1>3. tail \in {<<>>, <<1>>} /\ (Len(m.tail) >= 2 => tail = <<>>)
  BY <1>2, VersionTail DEF Fine
<1>4. CASE m.tail = <<>>
  <2>1. Len(m.tail) = 0 /\ old.mr = 0 /\ old.dev = 0
    BY <1>1, <1>4, ParsedNumbers
  <2>2. VersionText(old).tail = <<>>
    BY <2>1, VersionTail
  <2>3. rest = SubSeq(<<>>, 1, 0)
    BY <1>2, <1>4, <2>1, <2>2
  <2>4. rest = <<>>
    BY <2>3, SubSeqEmpty
  <2>5. tail \o rest = tail
    BY <1>2, <2>4, ConcatEmptySeq
  <2> QED BY <1>1, <1>2, <1>3, <2>5 DEF Short
<1>5. CASE m.tail = <<1>>
  <2>1. Len(m.tail) = 1 /\ old.mr = 0 /\ old.dev = 0
    BY <1>1, <1>5, ParsedNumbers
  <2>2. VersionText(old).tail = <<>>
    BY <2>1, VersionTail
  <2>3. rest = SubSeq(<<1>>, 1, 1)
    BY <1>2, <1>5, <2>1, <2>2
  <2>4. rest = <<1>>
    <3>1. <<1>> \in Seq(Nat) /\ Len(<<1>>) = 1 /\ <<1>>[1] = 1
      OBVIOUS
    <3>2. PICK one \in Seq(Nat) : one = <<1>>
      BY <3>1
    <3>3. Len(one) = 1 /\ one[1] = 1
      BY <3>1, <3>2
    <3>4. SubSeq(one, 1, 1) \in Seq(Nat) /\ Len(SubSeq(one, 1, 1)) = 1 /\ SubSeq(one, 1, 1)[1] = 1
      BY <3>3, SubSeqProperties
    <3>5. SubSeq(one, 1, 1) = one
      BY <3>3, <3>4, SeqEqual
    <3> QED BY <2>3, <3>2, <3>5
  <2>5. CASE tail = <<>>
    <3>1. tail \o rest = rest
      BY <1>2, <2>5, ConcatEmptySeq
    <3> QED BY <1>1, <1>2, <2>4, <3>1 DEF Short
  <2>6. CASE tail = <<1>>
    <3>1. Positive(1) = <<1>>
      BY DEF Positive
    <3>2. <<1>> \o <<1>> = <<1, 1>>
      BY <3>1, TailOfNumbers
    <3> QED BY <1>1, <1>2, <2>4, <2>6, <3>2 DEF Short
  <2> QED BY <1>3, <2>5, <2>6
<1>6. CASE m.tail = <<1, 1>>
  <2>1. Len(m.tail) = 2 /\ old.mr = 1 /\ old.dev = 1
    <3>1. Len(m.tail) = 2 /\ m.tail[1] = 1 /\ m.tail[2] = 1
      BY <1>6
    <3> QED BY <1>1, <3>1, ParsedNumbers
  <2>2. VersionText(old).tail = <<1, 1>>
    <3>1. VersionText(old).tail = IF old.mr = 0 THEN IF old.dev = 0 THEN <<>> ELSE <<old.dev>>
                                  ELSE IF old.dev = 0 THEN <<old.mr>> ELSE <<old.mr, old.dev>>
      BY VersionTail
    <3> QED BY <2>1, <3>1
  <2>3. rest = SubSeq(<<1, 1>>, 3, 2)
    BY <1>2, <1>6, <2>1, <2>2
  <2>4. rest = <<>>
    BY <2>3, SubSeqEmpty
  <2>5. tail = <<>>
    BY <1>3, <2>1
  <2>6. tail \o rest = <<>>
    BY <1>2, <2>4, <2>5, ConcatEmptySeq
  <2> QED BY <1>1, <1>2, <2>6 DEF Short
<1> QED BY <1>4, <1>5, <1>6 DEF Short

\* The version of a merge request is found again as it was written.
LEMMA RequestIsDetailed ==
    ASSUME NEW m \in Texts, NEW old \in Numbers, NEW new \in Numbers, Fine(m, new), new.mr # 0
    PROVE  Detailed(Replace(m, old, new).tail)
<1>1. PICK rest, tail, result : /\ Replace(m, old, new).tail = result /\ result = tail \o rest
                                /\ rest \in Seq(Nat) /\ tail \in Seq(Nat) /\ tail = VersionText(new).tail
  BY ReplacedIsText
<1>2. new.mr \in Nat /\ new.dev \in Nat
  BY DEF Numbers
<1>3. Len(tail) = 2 /\ tail[1] = new.mr /\ tail[2] = new.dev
  <2>1. tail = <<new.mr, new.dev>>
    BY <1>1, VersionTail DEF Fine
  <2> QED BY <2>1
<1>4. /\ result \in Seq(Nat) /\ Len(result) = Len(tail) + Len(rest) /\ Len(rest) \in Nat
      /\ \A i \in 1..(Len(tail) + Len(rest)) : result[i] = IF i <= Len(tail) THEN tail[i] ELSE rest[i - Len(tail)]
  BY <1>1, ConcatProperties
<1>5. Len(result) >= 2 /\ result[1] = new.mr /\ result[2] = new.dev
  BY <1>3, <1>4
<1>6. new.mr >= 1 /\ new.dev >= 1 /\ (new.mr # 1 \/ new.dev >= 2)
  BY <1>2 DEF Fine
<1>7. Detailed(result)
  BY <1>4, <1>5, <1>6 DEF Detailed
<1> QED BY <1>1, <1>7

\* The client's package does not know a merge request of the Makefile.
LEMMA ApartIsNotFound ==
    ASSUME Apart(makefile, init) PROVE ~Found(init, Parse(makefile)) /\ Parse(makefile).mr # 0
<1>1. PICK m \in Texts : m = makefile
  BY DEF Apart
<1>2. PICK old \in Numbers : old = Parse(makefile)
  BY <1>1, ParsedNumbers
<1>3. PICK tail : tail = m.tail /\ Detailed(tail)
  BY <1>1 DEF Apart
<1>4. tail[1] \in Nat /\ tail[2] \in Nat /\ tail[1] # 0 /\ tail[2] # 0 /\ old.mr = tail[1] /\ old.dev = tail[2]
  BY <1>1, <1>2, <1>3, ParsedNumbers DEF Detailed
<1>5. VersionText(old).tail = <<tail[1], tail[2]>>
  BY <1>4, VersionTail
<1>6. PICK own : own = init.tail /\ own \in Short
  BY DEF Apart
<1>7. ASSUME IsPrefix(<<tail[1], tail[2]>>, own) PROVE FALSE
  <2>1. Len(own) >= 2 /\ SubSeq(<<tail[1], tail[2]>>, 1, 2) = SubSeq(own, 1, 2)
    BY <1>7 DEF IsPrefix
  <2>2. own = <<1, 1>>
    BY <1>6, <2>1 DEF Short
  <2>3. SubSeq(<<tail[1], tail[2]>>, 1, 2)[1] = tail[1] /\ SubSeq(<<tail[1], tail[2]>>, 1, 2)[2] = tail[2]
    BY <1>4
  <2>4. SubSeq(own, 1, 2)[1] = 1 /\ SubSeq(own, 1, 2)[2] = 1
    BY <2>2
  <2> QED BY <1>3, <2>1, <2>3, <2>4 DEF Detailed
<1> QED BY <1>2, <1>4, <1>5, <1>6, <1>7 DEF Found

LEMMA BumperStarts == ASSUME BumperInit PROVE BumperInv
<1>1. makefile \in Texts /\ makefile.tail \in Short /\ init = makefile /\ bumper.pc = "idle"
  BY DEF BumperInit, Texts, Short
<1> QED BY <1>1 DEF BumperInv, Matched, Alike

LEMMA ReadVersionStep == ASSUME BumperInv, NEW args \in Arguments, ReadVersion(args) PROVE BumperInv'
<1>1. UNCHANGED <<makefile, init, reported>> /\ bumper.pc = "idle"
  BY DEF ReadVersion
<1>2. CASE reported
  BY <1>1, <1>2 DEF BumperInv
<1>3. CASE ~reported
  <2>1. Matched(makefile, init)
    BY <1>1, <1>3 DEF BumperInv
  <2>2. Matched(makefile', init')
    BY <1>1, <2>1
  <2>3. NewVersion(args)' = NewVersion(args) /\ Parse(makefile)' = Parse(makefile)
    BY <1>1 DEF NewVersion
  <2>4. CASE UNCHANGED bumper
    BY <1>1, <2>2, <2>4 DEF BumperInv
  <2>5. CASE bumper' = [pc |-> "makefile", old |-> Parse(makefile), new |-> NewVersion(args),
                        official |-> Official(args, NewVersion(args))]
    <3>1. PICK new, old, official : /\ new = NewVersion(args) /\ old = Parse(makefile) /\ official = Official(args, new)
      OBVIOUS
    <3>2. bumper' = [pc |-> "makefile", old |-> old, new |-> new, official |-> official] /\ bumper'.pc = "makefile"
      BY <2>5, <3>1
    <3>3. new = NewVersion(args)' /\ old = Parse(makefile)'
      BY <2>3, <3>1
    <3> QED BY <2>2, <3>1, <3>2, <3>3 DEF BumperInv
  <2> QED BY <2>4, <2>5 DEF ReadVersion
<1> QED BY <1>2, <1>3

LEMMA ReplaceInMakefileStep == ASSUME BumperInv, ReplaceInMakefile PROVE BumperInv'
<1>1. UNCHANGED <<init, reported>> /\ bumper.pc = "makefile"
  BY DEF ReplaceInMakefile
<1>2. CASE reported
  BY <1>1, <1>2 DEF BumperInv
<1>3. CASE ~reported
  <2>1. Matched(makefile, init)
    BY <1>1, <1>3 DEF BumperInv
  <2>2. PICK args \in Arguments :
           bumper = [pc |-> "makefile", old |-> Parse(makefile), new |-> NewVersion(args), official |-> Official(args, NewVersion(args))]
    BY <1>1, <1>3 DEF BumperInv
  <2>3. PICK m \in Texts, old \in Numbers, new \in Numbers :
           /\ m = makefile /\ old = Parse(m) /\ new = NewVersion(args) /\ Fine(m, new)
           /\ bumper = [pc |-> "makefile", old |-> old, new |-> new, official |-> (new.mr = 0)]
    <3>1. makefile \in Texts
      BY <2>1 DEF Matched, Alike, Apart
    <3>2. Fine(makefile, NewVersion(args))
      BY <2>1, NewVersionIsFine
    <3> QED BY <2>2, <3>1, <3>2, ParsedNumbers DEF Fine, Official
  <2>4. bumper.old = old /\ bumper.new = new /\ (bumper.official <=> new.mr = 0)
    BY <2>3
  <2>5. makefile' = Replace(m, old, new)
    BY <2>3, <2>4 DEF ReplaceInMakefile
  <2>6. makefile' \in Texts
    BY <2>5, ReplacedIsText
  <2>7. init \in Texts /\ init.tail \in Short
    BY <2>1 DEF Matched, Alike, Apart
  <2>8. CASE new.mr = 0
    <3>1. bumper'.pc = "init" /\ bumper'.old = old /\ bumper'.new = new
      <4>1. bumper' = [bumper EXCEPT !.pc = "init"]
        BY <2>4, <2>8 DEF ReplaceInMakefile
      <4> QED BY <2>3, <4>1
    <3>2. ASSUME Found(init, old) PROVE Alike(makefile', Replace(init, old, new))
      <4>1. Alike(makefile, init)
        BY <2>1, <2>3, <3>2, ApartIsNotFound DEF Matched
      <4>2. m.tail \in Short /\ init = m
        BY <2>3, <4>1 DEF Alike
      <4>3. makefile'.tail \in Short
        BY <2>3, <2>5, <2>8, <4>2, OfficialIsShort
      <4> QED BY <2>5, <2>6, <4>2, <4>3 DEF Alike
    <3> QED BY <1>1, <2>7, <3>1, <3>2 DEF BumperInv
  <2>9. CASE new.mr # 0
    <3>1. bumper'.pc = "idle"
      BY <2>4, <2>9 DEF ReplaceInMakefile
    <3>2. Detailed(makefile'.tail)
      BY <2>3, <2>5, <2>9, RequestIsDetailed
    <3>3. Apart(makefile', init')
      BY <1>1, <2>6, <2>7, <3>2 DEF Apart
    <3> QED BY <3>1, <3>3 DEF BumperInv, Matched
  <2> QED BY <2>8, <2>9
<1> QED BY <1>2, <1>3

LEMMA ReplaceInInitStep == ASSUME BumperInv, ReplaceInInit PROVE BumperInv'
<1>1. /\ bumper.pc = "init" /\ makefile' = makefile /\ bumper'.pc = "idle"
      /\ \/ Found(init, bumper.old) /\ init' = Replace(init, bumper.old, bumper.new) /\ reported' = reported
         \/ reported' = TRUE
  BY DEF ReplaceInInit
<1>2. CASE reported \/ reported'
  BY <1>1, <1>2 DEF BumperInv
<1>3. CASE ~reported /\ ~reported'
  <2>1. Found(init, bumper.old) /\ init' = Replace(init, bumper.old, bumper.new)
    BY <1>1, <1>3
  <2>2. Alike(makefile, init')
    BY <1>1, <1>3, <2>1 DEF BumperInv
  <2> QED BY <1>1, <2>2 DEF BumperInv, Matched
<1> QED BY <1>2, <1>3

LEMMA BumperStep == ASSUME BumperInv, [BumperNext]_bumperVars PROVE BumperInv'
<1>1. CASE \E args \in Arguments : ReadVersion(args)
  BY <1>1, ReadVersionStep
<1>2. CASE ReplaceInMakefile \/ ReplaceInInit
  BY <1>2, ReplaceInMakefileStep, ReplaceInInitStep
<1>3. CASE UNCHANGED bumperVars
  <2>1. UNCHANGED <<makefile, init, bumper, reported>>
    BY <1>3 DEF bumperVars
  <2>2. \A args \in Arguments : NewVersion(args)' = NewVersion(args)
    BY <2>1 DEF NewVersion
  <2>3. Parse(makefile)' = Parse(makefile)
    BY <2>1
  <2> QED BY <2>1, <2>2, <2>3 DEF BumperInv
<1> QED BY <1>1, <1>2, <1>3 DEF BumperNext

LEMMA BumperInvGivesRelease == ASSUME BumperInv PROVE ReleasedTogether
<1>1. SUFFICES ASSUME bumper.pc = "idle", makefile # init, ~reported PROVE Parse(makefile).mr # 0
  BY DEF ReleasedTogether
<1>2. Apart(makefile, init)
  BY <1>1 DEF BumperInv, Matched, Alike
<1> QED BY <1>2, ApartIsNotFound

-----------------------------------------------------------------------------
(* The cleaner of the registry deletes no image that was in use when it      *)
(* asked, but for those it asks for under another name, and none of the      *)
(* newest versions of Racetrack, however the pages moved (_list,             *)
(* get_latest_racetrack_tags); and the bumper of versions leaves the client  *)
(* with the version of the Makefile unless it said that it failed            *)
(* (bump_version_in_files, replace_in_file).                                 *)
THEOREM MaintenanceStaysSafe ==
    /\ CleanerInit /\ [][CleanerNext]_cleanerVars
    /\ BumperInit /\ [][BumperNext]_bumperVars
    => []MaintenanceIsSafe
<1>1. CleanerInv /\ BumperInv => MaintenanceIsSafe
  BY BumperInvGivesRelease DEF CleanerInv, MaintenanceIsSafe
<1> QED BY <1>1, CleanerStarts, CleanerStep, BumperStarts, BumperStep, PTL

==============================================================================
