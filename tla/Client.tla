------------------------------- MODULE Client -------------------------------
(***************************************************************************)
(* The command line client and the endpoints of Lifecycle that it calls.   *)
(*                                                                         *)
(* Every invocation of racetrack is a process of its own. It loads the     *)
(* whole configuration of the user (~/.racetrack/config.yaml), resolves    *)
(* the name of the remote, finds the token for it, sends its requests one  *)
(* after the other, waits for a deployment by polling, and, when it sets   *)
(* an option, overwrites the whole file. Nothing orders two invocations.   *)
(* A request may be refused, or be served while its answer is lost; a      *)
(* process may be killed at any point.                                     *)
(***************************************************************************)
EXTENDS Naturals, Sequences, FiniteSets, FiniteSetsExt

CONSTANTS
    Proc,           \* the invocations
    Command,        \* the commands that may be invoked, see CommandOK
    Config,         \* the configurations that the user may start with
    Host,           \* the hosts that run a Lifecycle
    JobVersion,        \* the versions of the job
    Infrastructure, \* the infrastructure targets
    MaxFailures,    \* bound on requests that are refused or not answered
    MaxKills,       \* bound on processes that are killed
    MaxAdmin        \* bound on the actions of an administrator of a remote

VARIABLES
    file,           \* the configuration file: a sequence of at most one content
    proc,           \* the invocations
    server,         \* the Lifecycle of each host
    tmp,            \* the temporary files of piped manifests, by their process
    failures, kills, admin,
    clock,          \* counts loads and saves of the file
    effects,        \* the processes whose change was completed by the server
    halfway         \* the processes whose change the server began and then failed

clientVars == <<file, proc, server, tmp, failures, kills, admin, clock, effects, halfway>>

-----------------------------------------------------------------------------
(* Names of remotes. The name of an alias is a word like the one of a host *)
Absent == "absent"
Url(s, h, p) == [scheme |-> s, host |-> h, path |-> p]
Unnamed == Url(Absent, Absent, Absent)
Remote == [scheme: {Absent, "http", "https"}, host: STRING, path: {Absent, "lifecycle"}]

Infer(url) ==
    Url(IF url.scheme = Absent THEN "https" ELSE url.scheme, url.host, IF url.path = Absent THEN "lifecycle" ELSE url.path)

(* A token is known by the host that issued it and by its generation *)
NoToken == <<Absent, 0>>

With(f, x, v) == [y \in DOMAIN f \cup {x} |-> IF y = x THEN v ELSE f[y]]
Without(f, x) == [y \in DOMAIN f \ {x} |-> f[y]]

ClientConfig == [
    lifecycle_url |-> Url("http", "127.0.0.1", Absent),
    git_credentials |-> <<>>,
    lifecycle_url_aliases |-> <<>>,
    user_auths |-> <<>>]

\* A configuration that the client may have left: an alias is a short name,
\* and a token is one of the remote that it is for.
ConfigOK(c) ==
    /\ c = [lifecycle_url |-> c.lifecycle_url, git_credentials |-> c.git_credentials,
            lifecycle_url_aliases |-> c.lifecycle_url_aliases, user_auths |-> c.user_auths]
    /\ c.lifecycle_url \in Remote
    /\ \A name \in DOMAIN c.lifecycle_url_aliases : name.scheme = Absent /\ c.lifecycle_url_aliases[name] \in Remote
    /\ \A url \in DOMAIN c.user_auths : c.user_auths[url][1] = url.host

ResolveShort(config, name) ==
    LET chosen == IF name = Unnamed THEN config.lifecycle_url ELSE name
        aliases == config.lifecycle_url_aliases
    IN  IF chosen \in DOMAIN aliases THEN aliases[chosen] ELSE chosen

ResolveLifecycleUrl(config, name) == Infer(ResolveShort(config, name))

-----------------------------------------------------------------------------
(* The changes of the configuration; trim_url drops the slash at the end *)
SetCredentials(config, cmd) ==
    [config EXCEPT !.git_credentials = With(@, cmd.arg, "password")]

SetCurrentRemote(config, cmd) == [config EXCEPT !.lifecycle_url = cmd.arg]

SetUrlAlias(config, cmd) ==
    [config EXCEPT !.lifecycle_url_aliases = With(@, cmd.remote, cmd.arg)]

SetUserAuth(config, url, token) ==
    LET key == ResolveLifecycleUrl(config, url)
    IN  [config EXCEPT !.user_auths = IF token = NoToken THEN Without(@, key) ELSE With(@, key, token)]

LoggedIn(config, url) == ResolveLifecycleUrl(config, url) \in DOMAIN config.user_auths

\* The mutant starts from the default configuration
ChangedDefault(r) ==
    IF r.cmd.op = "set_remote" THEN SetCurrentRemote(ClientConfig, r.cmd)
    ELSE CASE r.cmd.op = "set_credentials" -> SetCredentials(r.config, r.cmd)
           [] r.cmd.op = "set_alias" -> SetUrlAlias(r.config, r.cmd)
           [] r.cmd.op = "logout" -> SetUserAuth(r.config, r.url, NoToken)
           [] OTHER -> SetUserAuth(r.config, r.url, r.token)

(* What a command makes of the configuration that it loaded *)
Changed(r) ==
    CASE r.cmd.op = "set_credentials" -> SetCredentials(r.config, r.cmd)
      [] r.cmd.op = "set_remote" -> SetCurrentRemote(r.config, r.cmd)
      [] r.cmd.op = "set_alias" -> SetUrlAlias(r.config, r.cmd)
      [] r.cmd.op = "logout" -> SetUserAuth(r.config, r.url, NoToken)
      [] OTHER -> SetUserAuth(r.config, r.url, r.token)

Settings == {"set_credentials", "set_remote", "set_alias", "logout", "login", "login_username"}

-----------------------------------------------------------------------------
(* The endpoints. The answer of a server is its status and its next state. *)
Answer(status, state, version) == [status |-> status, state |-> state, version |-> version]
Error(s) == Answer(500, s, 0)
Unauthorized(s) == Answer(401, s, 0)

Authenticated(s, token) == token = <<s.host, s.generation>>

(* check_auth before, and ensure_no_maintenance before it where there are changes *)
Checked(s, token, answer) == IF Authenticated(s, token) THEN answer ELSE Unauthorized(s)
Maintained(s, token, answer) == IF s.maintenance THEN Error(s) ELSE Checked(s, token, answer)

\* A job is where it was placed, or still recorded with its instance gone
Unserved == "unserved"
Deployed(s) == {v \in JobVersion : s.jobs[v] # Absent}
ResolveVersion(s, v) == IF v = 0 /\ Deployed(s) # {} THEN Max(Deployed(s)) ELSE v
OfJob(s, v, answer) == IF ResolveVersion(s, v) \in Deployed(s) THEN answer ELSE Answer(404, s, 0)

Running(s, v) == \E q \in DOMAIN s.deployments :
                    s.deployments[q].status = "in_progress" /\ s.deployments[q].version = v

ServeInfo(s) == Answer(200, s, 0)
ServeValidate(s, token) == Checked(s, token, Answer(200, s, 0))
ServeLogin(s, correct) == IF correct THEN Answer(200, s, 0) ELSE Unauthorized(s)
ServeList(s, token) == Checked(s, token, Answer(200, s, 0))
ServeJob(s, token, v) == Checked(s, token, OfJob(s, v, Answer(200, s, ResolveVersion(s, v))))
ServeLogs(s, token, v) == Checked(s, token, OfJob(s, v, Answer(200, s, ResolveVersion(s, v))))
ServeCall(s, token, v) == Checked(s, token, IF v \in Deployed(s) /\ s.jobs[v] # Unserved
                                              THEN Answer(200, s, v) ELSE Answer(404, s, 0))

ServeDelete(s, token, v) ==
    Maintained(s, token, IF v \in Deployed(s)
                         THEN Answer(200, [s EXCEPT !.jobs[v] = Absent], v)
                         ELSE Answer(404, s, 0))

ServeMove(s, token, v, target) ==
    Maintained(s, token,
        IF v \in Deployed(s) /\ s.jobs[v] # target /\ ~Running(s, v)
        THEN Answer(200, [s EXCEPT !.jobs[v] = target], v) ELSE Error(s))

Requested(s, p, v, build) ==
    [s EXCEPT !.deployments = With(@, p, [status |-> "in_progress", version |-> v, build |-> build])]

ServeDeploy(s, token, p, v) ==
    Maintained(s, token, IF Running(s, v) THEN Error(s) ELSE Answer(200, Requested(s, p, v, FALSE), v))

ServeBuild(s, token, p, v) ==
    Checked(s, token, IF Running(s, v) THEN Error(s) ELSE Answer(200, Requested(s, p, v, TRUE), v))

ServeDeployment(s, token) == Checked(s, token, Answer(200, s, 0))

ServeUpload(s, token) == Checked(s, token, Answer(200, [s EXCEPT !.plugin = TRUE], 0))
ServeUninstall(s, token) ==
    Checked(s, token, IF s.plugin THEN Answer(200, [s EXCEPT !.plugin = FALSE], 0) ELSE Error(s))
ServePlugins(s) == Answer(200, s, 0)

(* What a change may leave when a later call of it raises. delete_job removes *)
(* the instance, then writes to the audit log, the trash and the registry,   *)
(* and calls the plugins. move_job places the job anew, which rolls back the *)
(* job if it does not come up, and then removes the former instance. An      *)
(* upload deletes older plugins first; the plugins are loaded again after a  *)
(* file was written or removed.                                              *)
JobLeft(s, v, places) == {[s EXCEPT !.jobs[v] = i] : i \in places}
DeleteLeaves(s, v) == JobLeft(s, v, {Unserved, Absent})
MoveLeaves(s, v, target) == JobLeft(s, v, {target, Absent})

Leaves(s, r, request) ==
    CASE request = "DELETE_job" -> DeleteLeaves(s, r.version)
      [] request = "POST_move" -> MoveLeaves(s, r.version, r.cmd.arg)
      [] request = "POST_upload" -> {[s EXCEPT !.plugin = TRUE], [s EXCEPT !.plugin = FALSE]}
      [] request = "DELETE_plugin" -> {[s EXCEPT !.plugin = FALSE]}

(* The requests that a command sends, in their order *)
ListJobs == <<"GET_job">>
DeleteJob == <<"DELETE_job">>
MoveJob == <<"POST_move">>
CallJob == <<"GET_job/version", "POST_call">>
ShowRuntimeLogs == <<"GET_job/version", "GET_logs">>
ShowBuildLogs == <<"GET_logs">>
SendDeployRequest == <<"POST_deploy">>
RunJobLocally == <<"POST_build">>
InstallPlugin == <<"POST_upload">>
UninstallPlugin == <<"DELETE_plugin">>
ListInstalledPlugins == <<"GET_plugin">>
GetCurrentPubAddress == <<"GET_info">>
LoginUserAuth == <<"GET_validate_user_auth">>
LoginWithUsername == <<"POST_login">>

PluginRequests(op) ==
    CASE op = "plugin_install" -> InstallPlugin [] op = "plugin_uninstall" -> UninstallPlugin
      [] op = "plugin_list" -> ListInstalledPlugins [] op = "get_pub" -> GetCurrentPubAddress
      [] op = "call" -> CallJob
      [] op = "login" -> LoginUserAuth [] op = "login_username" -> LoginWithUsername
      [] OTHER -> <<>>

RequestsOf(op) ==
    CASE op = "list" -> ListJobs [] op = "delete" -> DeleteJob [] op = "move" -> MoveJob
      [] op = "logs" -> ShowRuntimeLogs [] op = "build-logs" -> ShowBuildLogs
      [] op = "deploy" -> SendDeployRequest [] op = "run-local" -> RunJobLocally
      [] OTHER -> PluginRequests(op)

Serve(s, p, r, request) ==
    CASE request = "GET_info" -> ServeInfo(s)
      [] request = "GET_job" -> ServeList(s, r.token)
      [] request = "DELETE_job" -> ServeDelete(s, r.token, r.version)
      [] request = "POST_move" -> ServeMove(s, r.token, r.version, r.cmd.arg)
      [] request = "GET_job/version" -> ServeJob(s, r.token, r.version)
      [] request = "POST_call" -> ServeCall(s, r.token, r.version)
      [] request = "GET_logs" -> ServeLogs(s, r.token, r.version)
      [] request = "POST_deploy" -> ServeDeploy(s, r.token, p, r.version)
      [] request = "POST_build" -> ServeBuild(s, r.token, p, r.version)
      [] request = "GET_deploy" -> ServeDeployment(s, r.token)
      [] request = "POST_upload" -> ServeUpload(s, r.token)
      [] request = "DELETE_plugin" -> ServeUninstall(s, r.token)
      [] request = "GET_plugin" -> ServePlugins(s)
      [] request = "GET_validate_user_auth" -> ServeValidate(s, r.token)
      [] request = "POST_login" -> ServeLogin(s, r.cmd.flag)

Changes == {"DELETE_job", "POST_move", "POST_upload", "DELETE_plugin"}
Changing == {"delete", "move", "plugin_install", "plugin_uninstall", "deploy"}

-----------------------------------------------------------------------------
(* The processes *)
Ops == Settings \cup Changing \cup {"list", "call", "logs", "build-logs", "get_pub", "plugin_list", "run-local"}
CommandOK(cmd) ==
    /\ cmd.op \in Ops /\ cmd.remote \in Remote
    /\ cmd.op \in {"set_remote", "set_alias"} => cmd.arg \in Remote
    /\ cmd.op = "set_alias" => cmd.remote.scheme = Absent

ASSUME ClientAssumption ==
    /\ IsFiniteSet(JobVersion) /\ JobVersion \subseteq Nat \ {0}
    /\ \A cmd \in Command : CommandOK(cmd)
    /\ \A config \in Config : ConfigOK(config)

NotStarted(cmd) == [pc |-> "idle", cmd |-> cmd, config |-> ClientConfig, url |-> Unnamed, token |-> NoToken,
              version |-> 0, step |-> 1, exit |-> Absent, unsure |-> FALSE, loaded |-> 0, saved |-> 0]

Lifecycle(h) == [host |-> h, generation |-> 1, maintenance |-> FALSE, auth_required |-> TRUE,
                 jobs |-> [v \in JobVersion |-> Absent], plugin |-> FALSE, deployments |-> <<>>]

ClientInit ==
    /\ file \in {<<config>> : config \in Config}
    /\ proc \in [Proc -> {NotStarted(cmd) : cmd \in Command}]
    /\ server = [h \in Host |-> [Lifecycle(h) EXCEPT !.jobs[Min(JobVersion)] = CHOOSE i \in Infrastructure : TRUE]]
    /\ tmp = {} /\ failures = 0 /\ kills = 0 /\ admin = 0 /\ clock = 0 /\ effects = {} /\ halfway = {}

(* main: whatever is raised ends the process; the temporary file is removed on the way *)
Exit(p, r, result) ==
    /\ proc' = [proc EXCEPT ![p] = [r EXCEPT !.pc = "done", !.exit = result]]
    /\ tmp' = tmp \ {p}

Goto(p, r, pc) == proc' = [proc EXCEPT ![p] = [r EXCEPT !.pc = pc]] /\ UNCHANGED tmp

(* The token of the configuration, or none if the remote asks for none *)
NextOfLoad(r) ==
    IF r.cmd.op \in {"set_credentials", "set_remote", "set_alias"} THEN "save"
    ELSE IF r.cmd.op = "logout" THEN (IF LoggedIn(r.config, r.url) THEN "save" ELSE Absent)
    ELSE IF r.cmd.op \in {"login", "login_username", "get_pub"} \/ LoggedIn(r.config, r.url) THEN "send"
    ELSE "auth"

(* load_validated_manifest raises for an invalid manifest: it has no version *)
ManifestIsValid(r) == r.cmd.op \in {"deploy", "run-local"} => r.version # 0

(* The temporary file holds a manifest that was piped; the flag says that it was *)
Piped(p, r) == IF r.cmd.op = "deploy" /\ r.cmd.flag THEN tmp \cup {p} ELSE tmp

Load(p) ==
    LET r == proc[p]
        url == ResolveLifecycleUrl(file[1], r.cmd.remote)
        auths == file[1].user_auths
        read == [r EXCEPT !.config = file[1], !.url = url, !.version = r.cmd.version, !.loaded = clock + 1,
                          !.token = IF r.cmd.op = "login" THEN r.cmd.arg
                                    ELSE IF url \in DOMAIN auths THEN auths[url] ELSE NoToken]
    IN  /\ r.pc = "idle"
        /\ clock' = clock + 1
        /\ \/ file = <<>> /\ Exit(p, r, "config_error")
           \/ file # <<>> /\ ~ManifestIsValid(read) /\ Exit(p, read, "invalid_manifest")
           \/ file # <<>> /\ ManifestIsValid(read) /\ NextOfLoad(read) = Absent /\ Exit(p, read, "not_logged_in")
           \/ /\ file # <<>> /\ ManifestIsValid(read) /\ NextOfLoad(read) # Absent
              /\ proc' = [proc EXCEPT ![p] = [read EXCEPT !.pc = NextOfLoad(read)]]
              /\ tmp' = Piped(p, r)
        /\ UNCHANGED <<file, server, failures, kills, admin, effects, halfway>>

(* One request: refused, or served with its answer lost, or answered *)
Refused(p, r) ==
    /\ failures < MaxFailures \/ r.url.host \notin Host
    /\ failures' = IF r.url.host \in Host THEN failures + 1 ELSE failures
    /\ Exit(p, [r EXCEPT !.unsure = @ \/ r.pc = "poll"], "request_error")
    /\ UNCHANGED <<server, effects, halfway>>

Served(p, r, request, answer) ==
    /\ server' = [server EXCEPT ![r.url.host] = answer.state]
    /\ effects' = IF request \in Changes /\ answer.status = 200 THEN effects \cup {p} ELSE effects
    /\ UNCHANGED halfway

Lost(p, r, request) ==
    /\ r.url.host \in Host /\ failures < MaxFailures
    /\ failures' = failures + 1
    /\ Served(p, r, request, Serve(server[r.url.host], p, r, request))
    /\ Exit(p, [r EXCEPT !.unsure = TRUE], "request_error")

GotAnswer(p, r, request) ==
    /\ r.url.host \in Host
    /\ Served(p, r, request, Serve(server[r.url.host], p, r, request))
    /\ UNCHANGED failures

FailsHalfway(p, r, request) ==
    /\ r.url.host \in Host /\ request \in Changes /\ failures < MaxFailures
    /\ failures' = failures + 1
    /\ Serve(server[r.url.host], p, r, request).status = 200
    /\ \E s \in Leaves(server[r.url.host], r, request) : server' = [server EXCEPT ![r.url.host] = s]
    /\ halfway' = halfway \cup {p} /\ UNCHANGED effects
    /\ Exit(p, r, "response_error")

Auth(p) ==
    LET r == proc[p]
    IN  /\ r.pc = "auth"
        /\ \/ Refused(p, r)
           \/ Lost(p, r, "GET_info")
           \/ /\ GotAnswer(p, r, "GET_info")
              /\ IF server[r.url.host].auth_required THEN Exit(p, r, "auth_error") ELSE Goto(p, r, "send")
        /\ UNCHANGED <<file, kills, admin, clock>>

(* parse_response: an answer that is not ok raises; otherwise the next request, *)
(* the polling, the save of a token, or the end                                 *)
AfterAnswer(p, r, answer) ==
    LET version == IF answer.version = 0 THEN r.version ELSE answer.version
        token == IF r.cmd.op = "login_username" THEN <<r.url.host, answer.state.generation>> ELSE r.token
        ok == [r EXCEPT !.step = @ + 1, !.version = version, !.token = token]
    IN  IF answer.status # 200 THEN Exit(p, r, IF answer.status = 401 THEN "auth_error" ELSE "response_error")
        ELSE IF r.step < Len(RequestsOf(r.cmd.op)) THEN Goto(p, ok, "send")
        ELSE IF r.cmd.op \in {"deploy", "run-local"} THEN Goto(p, ok, "poll")
        ELSE IF r.cmd.op \in Settings THEN Goto(p, ok, "save")
        ELSE Exit(p, ok, "ok")

Send(p) ==
    LET r == proc[p]
        request == RequestsOf(r.cmd.op)[r.step]
    IN  /\ r.pc = "send"
        /\ \/ Refused(p, r)
           \/ Lost(p, r, request)
           \/ FailsHalfway(p, r, request)
           \/ GotAnswer(p, r, request) /\ AfterAnswer(p, r, Serve(server[r.url.host], p, r, request))
        /\ UNCHANGED <<file, kills, admin, clock>>

\* The mutant takes a deployment that is not over for a failed one
AfterPollEager(p, r, answer, status) ==
    IF answer.status # 200 THEN Exit(p, [r EXCEPT !.unsure = TRUE], "deployment_error")
    ELSE IF status = "done" THEN Exit(p, r, "ok")
    ELSE Exit(p, r, "deployment_error")

(* The status of the deployment decides; while it is in progress the function *)
(* is called again, until backoff has run out of time                         *)
AfterPoll(p, r, answer, status) ==
    IF answer.status # 200 THEN Exit(p, [r EXCEPT !.unsure = TRUE], "deployment_error")
    ELSE IF status = "failed" THEN Exit(p, r, "deployment_error")
    ELSE IF status = "done" THEN Exit(p, r, "ok")
    ELSE Goto(p, r, "poll")

WaitForDeploymentResult(p) ==
    LET r == proc[p]
        s == server[r.url.host]
    IN  /\ r.pc = "poll"
        /\ \/ Refused(p, r)
           \/ Lost(p, r, "GET_deploy")
           \/ /\ GotAnswer(p, r, "GET_deploy")
              /\ AfterPoll(p, r, Serve(s, p, r, "GET_deploy"), s.deployments[p].status)
        /\ UNCHANGED <<file, kills, admin, clock>>

Expire(p) ==
    /\ proc[p].pc = "poll"
    /\ Exit(p, [proc[p] EXCEPT !.unsure = TRUE], "deployment_error")
    /\ UNCHANGED <<file, server, failures, kills, admin, clock, effects, halfway>>

(* save_client_config: write_text opens the file, which empties it, and writes *)
Truncate(p) ==
    /\ proc[p].pc = "save"
    /\ file' = <<>>
    /\ Goto(p, proc[p], "write")
    /\ UNCHANGED <<server, failures, kills, admin, clock, effects, halfway>>

Write(p) ==
    /\ proc[p].pc = "write"
    /\ clock' = clock + 1
    /\ file' = <<Changed(proc[p])>>
    /\ Exit(p, [proc[p] EXCEPT !.saved = clock + 1], "ok")
    /\ UNCHANGED <<server, failures, kills, admin, effects, halfway>>

Kill(p) ==
    /\ proc[p].pc \notin {"idle", "done", "killed"} /\ kills < MaxKills
    /\ kills' = kills + 1
    /\ proc' = [proc EXCEPT ![p] = [@ EXCEPT !.pc = "killed", !.exit = proc[p].pc]]
    /\ UNCHANGED <<file, server, tmp, failures, admin, clock, effects, halfway>>

-----------------------------------------------------------------------------
(* The Lifecycle of a host goes on by itself. The thread of a build ends with *)
(* an exception before its first statement: it is given too few arguments. A  *)
(* deployment fails without a trace, before the job is placed or with a job   *)
(* that does not come up and is rolled back; once the job is up, a failure of *)
(* the hooks, the permissions or the audit log leaves it.                     *)
Placed(h, p, status) ==
    LET v == server[h].deployments[p].version
    IN  /\ server[h].jobs[v] = Absent
        /\ \E i \in Infrastructure :
              server' = [server EXCEPT ![h] = [@ EXCEPT !.deployments[p].status = status, !.jobs[v] = i]]

DeployJob(h, p) ==
    LET d == server[h].deployments[p]
    IN  /\ p \in DOMAIN server[h].deployments /\ d.status = "in_progress" /\ ~d.build
        /\ \/ /\ Placed(h, p, "done")
              /\ effects' = effects \cup {p} /\ UNCHANGED <<failures, halfway>>
           \/ /\ Placed(h, p, "failed") /\ failures < MaxFailures
              /\ failures' = failures + 1
              /\ halfway' = halfway \cup {p} /\ UNCHANGED effects
           \/ /\ server' = [server EXCEPT ![h].deployments[p].status = "failed"]
              /\ UNCHANGED <<failures, effects, halfway>>
        /\ UNCHANGED <<file, proc, tmp, kills, admin, clock>>

Administer(h) ==
    /\ admin < MaxAdmin
    /\ admin' = admin + 1
    /\ \/ server' = [server EXCEPT ![h].generation = @ + 1]
       \/ server' = [server EXCEPT ![h].maintenance = ~@]
       \/ server' = [server EXCEPT ![h].auth_required = ~@]
    /\ UNCHANGED <<file, proc, tmp, failures, kills, clock, effects, halfway>>

ClientNext ==
    \/ \E p \in Proc : \/ Load(p) \/ Auth(p) \/ Send(p) \/ WaitForDeploymentResult(p) \/ Expire(p)
                       \/ Truncate(p) \/ Write(p) \/ Kill(p)
    \/ \E h \in Host : Administer(h) \/ \E p \in Proc : DeployJob(h, p)

-----------------------------------------------------------------------------

(* What the client reports is what the server did. A command that exits with *)
(* success had its whole effect. One whose effect was completed exits with   *)
(* success, unless an answer was lost or the polling was given up. One that  *)
(* the server left half done exits with an error: no failing command has had *)
(* an effect for any other reason (delete_job, move_job, provision_job;      *)
(* send_deploy_request, _wait_for_deployment_result, parse_response).        *)
ReportIsTruthful ==
    \A p \in Proc : LET r == proc[p] IN
        r.pc = "done" /\ r.cmd.op \in Changing =>
            /\ r.exit = "ok" => p \in effects
            /\ p \in effects => r.exit = "ok" \/ r.unsure
            /\ p \in halfway => r.exit # "ok"

(* The key of the configuration that a command sets *)
Key(r) == CASE r.cmd.op \in {"set_credentials"} -> <<"git_credentials", r.cmd.arg>>
            [] r.cmd.op = "set_remote" -> <<"lifecycle_url", Unnamed>>
            [] r.cmd.op = "set_alias" -> <<"lifecycle_url_aliases", r.cmd.remote>>
            [] OTHER -> <<"user_auths", r.url>>

Kept(config, r) ==
    CASE r.cmd.op = "set_credentials" -> r.cmd.arg \in DOMAIN config.git_credentials
      [] r.cmd.op = "set_remote" -> config.lifecycle_url = r.cmd.arg
      [] r.cmd.op = "set_alias" -> /\ r.cmd.remote \in DOMAIN config.lifecycle_url_aliases
                                   /\ config.lifecycle_url_aliases[r.cmd.remote] = r.cmd.arg
      [] r.cmd.op = "logout" -> r.url \notin DOMAIN config.user_auths
      [] OTHER -> r.url \in DOMAIN config.user_auths /\ config.user_auths[r.url] = r.token

(* An option that a command has set stays set, unless a later command set the *)
(* same key, or one that had loaded the file before this save wrote it back   *)
(* after it: save_client_config writes the whole file from a copy.            *)
SettingIsKept ==
    file # <<>> =>
        \A p \in Proc : LET r == proc[p] IN
            r.saved > 0 => \/ Kept(file[1], r)
                           \/ \E q \in Proc : /\ proc[q].saved > r.saved
                                              /\ proc[q].loaded < r.saved \/ Key(proc[q]) = Key(r)

(* The configuration is unreadable only while a command writes it, or since *)
(* one was killed while it did (write_text empties the file first).         *)
UnreadableHasCause ==
    file = <<>> => \E p \in Proc : proc[p].pc = "write" \/ (proc[p].pc = "killed" /\ proc[p].exit = "write")

(* A token that is stored for a remote was issued by that remote, whatever   *)
(* names and aliases were used: the token that a later command sends is the *)
(* one of the server that receives it (login_user_auth, set_user_auth,      *)
(* get_user_auth).                                                          *)
TokenIsOfItsRemote ==
    file # <<>> => \A url \in DOMAIN file[1].user_auths : file[1].user_auths[url][1] = url.host

(* The temporary file of a piped manifest does not outlive its process,     *)
(* unless it was killed (the finally of send_deploy_request).               *)
TemporaryFileIsRemoved ==
    \A p \in tmp : proc[p].pc # "done"

(* The client's configuration survives concurrent commands and kills as far *)
(* as save_client_config lets it.                                           *)
ConfigurationIsKept == SettingIsKept /\ UnreadableHasCause /\ TokenIsOfItsRemote

(* A command tells what it did and leaves nothing behind.                   *)
CommandEndsCleanly == ReportIsTruthful /\ TemporaryFileIsRemoved
=============================================================================
