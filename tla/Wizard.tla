------------------------------- MODULE Wizard -------------------------------
(***************************************************************************)
(* The standalone installer, and the one that only renders the resources   *)
(* of Kubernetes. The standalone one keeps its answers and the secrets     *)
(* that it generates in setup.json and may be ended at any step and        *)
(* started again; what it has started keeps the secrets that it was        *)
(* started with: a database its password, the administrator its password.  *)
(***************************************************************************)
EXTENDS Naturals, Sequences

CONSTANTS
    MaxStarts,      \* bound on the invocations
    MaxDisturbances \* bound on failures, kills and interventions of the user

VARIABLES
    setup,          \* setup.json: missing, torn, or holding a SetupConfig
    run,            \* the invocation
    rendered,       \* the files: their names and the SetupConfig of their values
    system,         \* what has been started, and whether its last start was cut short
    remotePub,      \* the tokens of the remote Pubs that were started, 0 for none
    starts, disturbances,
    fresh,          \* the number of secrets generated so far
    forgotten       \* whether setup.json was lost, or removed by the user

wizardVars == <<setup, run, rendered, system, remotePub, starts, disturbances, fresh, forgotten>>

-----------------------------------------------------------------------------
(* A secret is the number of its generation, 0 if it is empty; a token is the *)
(* key that signed it. The answers to the questions are one address. Unset is *)
(* the empty text.                                                            *)
Unset == "unset"
SetupConfig == [infrastructure |-> Unset, address |-> Unset, postgres |-> 0, auth_key |-> 0, admin |-> 0,
                pub |-> 0, builder |-> 0, gateway |-> 0]

Missing == [is |-> "missing"]
Torn == [is |-> "torn"]
Saved(config) == [is |-> "saved", config |-> config]

\* The mutant saves the secrets once the services have started
SaveAfterStart == <<"ask", "truncate", "write", "verify", "secrets", "tokens", "docker/compose", "docker/env",
                    "up", "truncate", "write", "wait", "password", "login", "plugins">>
InstallToDocker == <<"ask", "truncate", "write", "verify", "secrets", "tokens", "truncate", "write",
                     "docker/compose", "docker/env", "up", "wait", "password", "login", "plugins">>
InstallToKubernetes == <<"ask", "truncate", "write", "verify", "secrets", "tokens", "truncate", "write",
                         "clear", "generated/env", "generated/pub", "apply", "wait", "password", "login", "plugins">>
InstallToRemoteDocker == <<"ask", "gateway", "truncate", "write", "verify", "verify", "remove_pub", "run_pub",
                           "plugin_config">>
InstallToRemoteKubernetes == <<"ask", "gateway", "truncate", "write", "clear", "namespace", "roles", "ingress",
                               "remote_pub", "apply", "plugin_config">>
GenerateResources == <<"clean", "ask", "secrets", "tokens", "kustomize/env", "kustomize/pub">>

Installation == [
    docker |-> InstallToDocker, kubernetes |-> InstallToKubernetes, remote_docker |-> InstallToRemoteDocker,
    remote_kubernetes |-> InstallToRemoteKubernetes, generate |-> GenerateResources]

Optional == {"namespace", "roles", "ingress"}
Docker == {"docker/compose", "docker/env"}
Generated == {"generated/env", "generated/pub", "remote_pub"} \cup Optional
Kustomize == {"kustomize/env", "kustomize/pub"}
Templates == (Docker \cup Generated \cup Kustomize \cup {"plugin_config"}) \ Optional

(* The files that describe the services, and the one with the passwords *)
ServicesOf(infrastructure) ==
    IF infrastructure = "docker" THEN Docker ELSE {"generated/env", "generated/pub"}
EnvOf(infrastructure) == IF infrastructure = "docker" THEN "docker/env" ELSE "generated/env"

NotRunning == [pc |-> "idle", step |-> 1, config |-> SetupConfig, wanted |-> {}, kept |-> FALSE,
         applied |-> {}, confirmed |-> TRUE, result |-> Unset]

WizardInit ==
    /\ setup = Missing /\ run = NotRunning /\ rendered = <<>>
    /\ system = [i \in {"docker", "kubernetes"} |->
                    [files |-> <<>>, database |-> 0, admin |-> 0, plugins |-> FALSE, cut |-> FALSE]]
    /\ remotePub = [i \in {"remote_docker", "remote_kubernetes"} |-> 0]
    /\ starts = 0 /\ disturbances = 0 /\ fresh = 0 /\ forgotten = FALSE

-----------------------------------------------------------------------------
Steps == Installation[run.config.infrastructure]
At(step) == run.pc = "running" /\ Steps[run.step] = step

Ended(r, result) == [r EXCEPT !.pc = "idle", !.result = result]
Following(r, n) == IF r.step + n > Len(Steps) THEN Ended(r, "ready") ELSE [r EXCEPT !.step = @ + n]
Continue(r) == run' = Following(r, 1)
End(result) == run' = Ended(run, result)
Stays == UNCHANGED <<remotePub, starts, forgotten>>

(* A command or a download fails, and the exception ends the invocation *)
Failing ==
    /\ disturbances < MaxDisturbances /\ disturbances' = disturbances + 1
    /\ End("failed")
    /\ UNCHANGED <<setup, rendered, system, fresh>>

(* prompt_text_choice: the variable of the environment is taken as it is *)
ChoicesOf(config) ==
    IF config.infrastructure # Unset THEN {config.infrastructure}
    ELSE {"docker", "kubernetes", "remote_docker", "remote_kubernetes", "other"}

(* main and load_local_config; the file is made when there is none *)
StartWizard ==
    /\ run.pc = "idle" /\ starts < MaxStarts
    /\ starts' = starts + 1
    /\ \/ /\ setup = Torn
          /\ run' = Ended(NotRunning, "bad_setup")
          /\ UNCHANGED setup
       \/ /\ setup # Torn
          /\ setup' = IF setup = Missing THEN Saved(SetupConfig) ELSE setup
          /\ LET config == IF setup = Missing THEN SetupConfig ELSE setup.config
             IN  \E choice \in ChoicesOf(config) :
                    LET read == [NotRunning EXCEPT !.pc = "running", !.config = [config EXCEPT !.infrastructure = choice]]
                    IN  run' = IF choice \in DOMAIN Installation THEN read ELSE Ended(read, "unsupported")
    /\ UNCHANGED <<rendered, system, remotePub, disturbances, fresh, forgotten>>

(* The installer of kustomize knows only its config.yaml, where nothing is set *)
StartGenerator ==
    /\ run.pc = "idle" /\ starts < MaxStarts
    /\ starts' = starts + 1
    /\ run' = [NotRunning EXCEPT !.pc = "running", !.config.infrastructure = "generate"]
    /\ UNCHANGED <<setup, rendered, system, remotePub, disturbances, fresh, forgotten>>

(* ensure_var_configured, prompt_text: without a terminal and without a default *)
(* the answer is empty; for Docker there is a default, and what is known is not *)
(* saved again                                                                  *)
Ask ==
    /\ At("ask")
    /\ \E answer \in IF run.config.address # Unset THEN {run.config.address}
                     ELSE IF run.config.infrastructure \in {"docker", "generate"} THEN {"host"} ELSE {"host", Unset} :
          run' = Following([run EXCEPT !.config.address = answer],
                           IF run.config.infrastructure = "docker" /\ run.config.address # Unset THEN 3 ELSE 1)
    /\ Stays /\ UNCHANGED <<setup, rendered, system, disturbances, fresh>>

(* save_local_config: write_text empties the file and writes *)
TruncateSetup ==
    /\ At("truncate") /\ setup' = Torn /\ Continue(run)
    /\ Stays /\ UNCHANGED <<rendered, system, disturbances, fresh>>
WriteSetup ==
    /\ At("write") /\ setup' = Saved(run.config) /\ Continue(run)
    /\ Stays /\ UNCHANGED <<rendered, system, disturbances, fresh>>

Verify ==
    /\ At("verify")
    /\ \/ Failing
       \/ Continue(run) /\ UNCHANGED <<setup, rendered, system, disturbances, fresh>>
    /\ Stays

Generate(config) ==
    [config EXCEPT !.postgres = IF @ = 0 THEN fresh + 1 ELSE @, !.auth_key = IF @ = 0 THEN fresh + 2 ELSE @,
                   !.admin = IF @ = 0 THEN fresh + 3 ELSE @]

GenerateSecrets ==
    /\ At("secrets")
    /\ Continue([run EXCEPT !.config = Generate(@)]) /\ fresh' = fresh + 3
    /\ Stays /\ UNCHANGED <<setup, rendered, system, disturbances>>

(* generate_auth_token runs Lifecycle with the key in a container *)
GenerateTokens ==
    /\ At("tokens")
    /\ \/ Failing
       \/ /\ Continue([run EXCEPT !.config.pub = IF @ = 0 THEN run.config.auth_key ELSE @,
                                  !.config.builder = IF @ = 0 THEN run.config.auth_key ELSE @])
          /\ UNCHANGED <<setup, rendered, system, disturbances, fresh>>
    /\ Stays

GatewayToken ==
    /\ At("gateway")
    /\ Continue([run EXCEPT !.config.gateway = IF @ = 0 THEN fresh + 1 ELSE @]) /\ fresh' = fresh + 1
    /\ Stays /\ UNCHANGED <<setup, rendered, system, disturbances>>

-----------------------------------------------------------------------------
Outside(directory) == [f \in DOMAIN rendered \ directory |-> rendered[f]]

(* get_generated_dir asks before it clears what an earlier invocation left *)
GeneratedDir ==
    /\ At("clear")
    /\ \/ rendered' = Outside(Generated) /\ Continue(run)
       \/ DOMAIN rendered \cap Generated # {} /\ UNCHANGED rendered /\ Continue([run EXCEPT !.kept = TRUE])
    /\ Stays /\ UNCHANGED <<setup, system, disturbances, fresh>>

Clean ==
    /\ At("clean") /\ rendered' = Outside(Kustomize) /\ Continue(run)
    /\ Stays /\ UNCHANGED <<setup, system, disturbances, fresh>>

Rendered(file) == [f \in DOMAIN rendered \cup {file} |-> IF f = file THEN run.config ELSE rendered[f]]

(* template_repository_file downloads the template, and overwrites the file *)
TemplateFile ==
    /\ run.pc = "running" /\ Steps[run.step] \in Templates
    /\ \/ Failing
       \/ /\ rendered' = Rendered(Steps[run.step]) /\ Continue(run)
          /\ UNCHANGED <<setup, system, disturbances, fresh>>
    /\ Stays

(* The files that the user may decline *)
TemplateOptional ==
    /\ run.pc = "running" /\ Steps[run.step] \in Optional
    /\ \/ Failing
       \/ /\ rendered' = Rendered(Steps[run.step])
          /\ Continue([run EXCEPT !.wanted = @ \cup {Steps[run.step]}])
          /\ UNCHANGED <<setup, system, disturbances, fresh>>
       \/ Continue(run) /\ UNCHANGED <<setup, rendered, system, disturbances, fresh>>
    /\ Stays

Installed == run.config.infrastructure
Services == system[Installed]

(* The volume of the database takes the first password that it is started with *)
Started ==
    [system EXCEPT ![Installed].files = [f \in ServicesOf(Installed) |-> rendered[f]],
                   ![Installed].database = IF @ = 0 THEN rendered[EnvOf(Installed)].postgres ELSE @,
                   ![Installed].cut = FALSE]

(* The command failed once it had started what some of the files describe; the *)
(* others run as they did, and the database may have been started or not       *)
Partly(files, initialised) ==
    [system EXCEPT ![Installed].files = [f \in DOMAIN @ \cup files |-> IF f \in files THEN rendered[f] ELSE @[f]],
                   ![Installed].database = IF @ = 0 /\ initialised THEN rendered[EnvOf(Installed)].postgres ELSE @,
                   ![Installed].cut = TRUE]

StartFailsPartly ==
    /\ disturbances < MaxDisturbances /\ disturbances' = disturbances + 1
    /\ End("failed")
    /\ \E files \in SUBSET ServicesOf(Installed) : \E initialised \in BOOLEAN :
          /\ files # {} /\ (initialised => EnvOf(Installed) \in files)
          /\ system' = Partly(files, initialised)
    /\ UNCHANGED <<setup, rendered, fresh>>

Up ==
    /\ At("up")
    /\ \/ Failing
       \/ StartFailsPartly
       \/ /\ system' = Started /\ Continue(run)
          /\ UNCHANGED <<setup, rendered, disturbances, fresh>>
    /\ Stays

Apply ==
    /\ At("apply") /\ Installed = "kubernetes"
    /\ \/ Failing
       \/ StartFailsPartly
       \/ /\ system' = Started /\ Continue(run)
          /\ UNCHANGED <<setup, rendered, disturbances, fresh>>
       \/ /\ Continue([run EXCEPT !.confirmed = FALSE])
          /\ UNCHANGED <<setup, rendered, system, disturbances, fresh>>
    /\ Stays

(* The resources of the remote Pub, of which a failing command applies some *)
Applied(files) ==
    remotePub' = IF "remote_pub" \in files THEN [remotePub EXCEPT ![Installed] = rendered["remote_pub"].gateway] ELSE remotePub

ApplyRemote ==
    /\ At("apply") /\ Installed = "remote_kubernetes"
    /\ \/ /\ disturbances < MaxDisturbances /\ disturbances' = disturbances + 1
          /\ \E files \in SUBSET (DOMAIN rendered \cap Generated) :
                run' = Ended([run EXCEPT !.applied = files], "failed") /\ Applied(files)
       \/ /\ Continue([run EXCEPT !.applied = DOMAIN rendered \cap Generated])
          /\ Applied(DOMAIN rendered \cap Generated) /\ UNCHANGED disturbances
       \/ Continue([run EXCEPT !.confirmed = FALSE]) /\ UNCHANGED <<remotePub, disturbances>>
    /\ UNCHANGED <<setup, rendered, system, starts, fresh, forgotten>>

(* The container of an earlier remote Pub is removed before the user is asked *)
(* whether to run the new one                                                 *)
RemovePub ==
    /\ At("remove_pub")
    /\ \/ Failing /\ UNCHANGED remotePub
       \/ /\ remotePub' = [remotePub EXCEPT ![Installed] = 0] /\ Continue(run)
          /\ UNCHANGED <<setup, rendered, system, disturbances, fresh>>
    /\ UNCHANGED <<starts, forgotten>>

RunPub ==
    /\ At("run_pub")
    /\ \/ Failing /\ UNCHANGED remotePub
       \/ /\ remotePub' = [remotePub EXCEPT ![Installed] = run.config.gateway] /\ Continue(run)
          /\ UNCHANGED <<setup, rendered, system, disturbances, fresh>>
       \/ /\ Continue([run EXCEPT !.confirmed = FALSE])
          /\ UNCHANGED <<setup, rendered, system, remotePub, disturbances, fresh>>
    /\ UNCHANGED <<starts, forgotten>>

Operational ==
    EnvOf(Installed) \in DOMAIN Services.files /\ Services.files[EnvOf(Installed)].postgres = Services.database

(* wait_for_lifecycle gives up after a number of attempts: when Lifecycle will *)
(* not answer however long it waits, or when it has not answered yet. It is    *)
(* the same exception; the results tell the two apart.                         *)
Wait ==
    /\ At("wait")
    /\ \/ /\ IF Operational /\ run.config.address # Unset THEN Continue(run) ELSE End("not_ready")
          /\ UNCHANGED disturbances
       \/ /\ Operational /\ run.config.address # Unset /\ End("too_slow")
          /\ disturbances < MaxDisturbances /\ disturbances' = disturbances + 1
    /\ Stays /\ UNCHANGED <<setup, rendered, system, fresh>>

(* login_first_time: "admin" is tried first; the answer to the change of the *)
(* password may be lost                                                      *)
ChangeAdminPassword ==
    /\ At("password")
    /\ \/ /\ system' = [system EXCEPT ![Installed].admin = IF @ = 0 THEN run.config.admin ELSE @]
          /\ \/ Continue(run) /\ UNCHANGED disturbances
             \/ /\ disturbances < MaxDisturbances /\ disturbances' = disturbances + 1
                /\ End("failed")
    /\ Stays /\ UNCHANGED <<setup, rendered, fresh>>

Login ==
    /\ At("login")
    /\ \/ Failing
       \/ /\ IF Services.admin = run.config.admin THEN Continue(run) ELSE End("unauthorized")
          /\ UNCHANGED <<setup, rendered, system, disturbances, fresh>>
    /\ Stays

InstallPlugins ==
    /\ At("plugins")
    /\ \/ Failing
       \/ /\ system' = [system EXCEPT ![Installed].plugins = TRUE] /\ Continue(run)
          /\ UNCHANGED <<setup, rendered, disturbances, fresh>>
    /\ Stays

-----------------------------------------------------------------------------
(* What is outside: a kill, and the user, who removes the file to start anew or *)
(* because it cannot be read, and who changes the password of the administrator *)
KillWizard ==
    /\ run.pc = "running" /\ disturbances < MaxDisturbances
    /\ disturbances' = disturbances + 1
    /\ End("killed")
    /\ UNCHANGED <<setup, rendered, system, remotePub, starts, fresh, forgotten>>

RemoveSetup ==
    /\ run.pc = "idle" /\ setup # Missing /\ disturbances < MaxDisturbances
    /\ disturbances' = disturbances + 1
    /\ setup' = Missing /\ forgotten' = TRUE
    /\ UNCHANGED <<run, rendered, system, remotePub, starts, fresh>>

ChangePassword ==
    /\ run.pc = "idle" /\ disturbances < MaxDisturbances
    /\ disturbances' = disturbances + 1 /\ fresh' = fresh + 1 /\ forgotten' = TRUE
    /\ \E i \in DOMAIN system :
          system[i].admin # 0 /\ system' = [system EXCEPT ![i].admin = fresh + 1]
    /\ UNCHANGED <<setup, run, rendered, remotePub, starts>>

WizardNext ==
    \/ StartWizard \/ StartGenerator \/ Ask \/ TruncateSetup \/ WriteSetup \/ Verify \/ GenerateSecrets
    \/ GenerateTokens \/ GatewayToken \/ GeneratedDir \/ Clean \/ TemplateFile \/ TemplateOptional \/ Up
    \/ Apply \/ ApplyRemote \/ RemovePub \/ RunPub \/ Wait \/ ChangeAdminPassword \/ Login \/ InstallPlugins
    \/ KillWizard \/ RemoveSetup \/ ChangePassword

-----------------------------------------------------------------------------
Forgotten == setup = Torn \/ forgotten

(* What has been started stays within reach: the passwords of the database *)
(* and of the administrator and the token of a remote Pub are in setup.json *)
(* before they are in use, and an invocation that was ended at any step,    *)
(* with its services started or half started, is resumed with the same     *)
(* ones, unless the file was lost (generate_secrets saves before the start, *)
(* login_first_time changes "admin" to what was saved).                     *)
PasswordsAreKept ==
    setup # Missing /\ ~Forgotten =>
        /\ \A i \in DOMAIN system :
              /\ system[i].database # 0 => setup.config.postgres = system[i].database
              /\ system[i].admin # 0 => setup.config.admin = system[i].admin
        /\ \A i \in DOMAIN remotePub : remotePub[i] # 0 => setup.config.gateway = remotePub[i]

(* The services that run accept each other: the tokens of Pub and of the    *)
(* Image Builder were signed with the key of the Lifecycle that runs with   *)
(* them, however the secrets were generated over several invocations and    *)
(* wherever a start was cut short. Only a start with new secrets, after the *)
(* file was lost, leaves old and new services together when it is cut short.*)
TokensFitKey ==
    \A i \in DOMAIN system :
        \/ system[i].cut /\ forgotten
        \/ \A f, g \in DOMAIN system[i].files :
              /\ system[i].files[f].pub = system[i].files[g].auth_key
              /\ system[i].files[f].builder = system[i].files[g].auth_key

(* Every file that runs was rendered by one invocation, whatever an earlier *)
(* one had left in the directory, unless the last start was cut short       *)
(* (template_repository_file; docker compose up, kubectl apply).            *)
FilesAgree ==
    \A i \in DOMAIN system :
        system[i].cut \/ \A f, g \in DOMAIN system[i].files : system[i].files[f] = system[i].files[g]

(* A resource that the user declined is applied only if the user declined   *)
(* to clear the directory of an earlier invocation (get_generated_dir).     *)
AppliedIsWanted ==
    run.applied \cap Optional \subseteq run.wanted \/ run.kept

(* An installation that reached its last steps completes, if it is waited   *)
(* for long enough: it will never come up, or refuses the administrator,    *)
(* only if the user declined to apply it, gave no address, or the saved     *)
(* secrets were lost (wait_for_lifecycle, login_first_time).                *)
FailureIsExplained ==
    run.result \in {"not_ready", "unauthorized"} => ~run.confirmed \/ run.config.address = Unset \/ forgotten

(* Whatever ended the invocations before it, the last one installs a        *)
(* Racetrack whose parts fit, with the secrets that were saved.             *)
InstallationIsResumed ==
    PasswordsAreKept /\ TokensFitKey /\ FilesAgree /\ AppliedIsWanted /\ FailureIsExplained
=============================================================================
