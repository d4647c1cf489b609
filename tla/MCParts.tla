------------------------------ MODULE MCParts ------------------------------
(***************************************************************************)
(* The parts of Racetrack that can be looked at one by one: the cache of   *)
(* authorisations in Pub, accounts of users, the commands of the client,   *)
(* the manifests and archives it sends, the images that get built from     *)
(* them, and the tools that are run by hand. What one hands to the next is *)
(* an input of the next, so a behaviour of the run exercises one of them   *)
(* and the others stay as they started.                                    *)
(***************************************************************************)
EXTENDS AuthCache, Accounts, Client, Manifests, Packing, ImageBuild, Wizard, Maintenance

VARIABLE part       \* what is exercised

----------------------------------------------------------------------------
(* Accounts: who logs in, or changes the password, knows the one that was  *)
(* sent with one of two registrations.                                     *)
SentDef == [v \in Visitor |-> IF v = "r2" THEN {"p2", Weak} ELSE {"p1"}]

(* Client: two invocations out of every kind of command, by a user who     *)
(* starts with the default configuration or is logged in to one remote.    *)
Cmd(op, remote, version, arg, flag) ==
    [op |-> op, remote |-> remote, version |-> version, arg |-> arg, flag |-> flag]

Prod == Url(Absent, "prod", Absent)
One == Url(Absent, "h1", Absent)
Two == Url("https", "h2", "lifecycle")

LoggedInConfig == [ClientConfig EXCEPT
    !.lifecycle_url = One,
    !.user_auths = With(<<>>, Infer(One), <<"h1", 1>>),
    !.lifecycle_url_aliases = With(<<>>, Prod, One)]
ConfigDef == {ClientConfig, LoggedInConfig}

SettingCommands == {
    Cmd("set_alias", Prod, 0, Two, FALSE), Cmd("set_remote", Unnamed, 0, Prod, FALSE),
    Cmd("set_credentials", Unnamed, 0, One, FALSE), Cmd("logout", Prod, 0, One, FALSE),
    Cmd("login", One, 0, <<"h1", 1>>, FALSE), Cmd("login", Prod, 0, <<"h2", 1>>, FALSE),
    Cmd("login_username", Unnamed, 0, One, TRUE), Cmd("login_username", One, 0, One, FALSE)}
RequestCommands ==
    {Cmd(op, One, 1, "i2", TRUE) : op \in {"list", "delete", "move", "plugin_install", "plugin_uninstall", "plugin_list"}}
    \cup {Cmd("call", One, 0, "i1", FALSE), Cmd("logs", Unnamed, 0, "i1", FALSE), Cmd("build-logs", One, 0, "i1", FALSE),
          Cmd("get_pub", Prod, 0, "i1", FALSE),
          Cmd("deploy", One, 2, "i1", TRUE), Cmd("deploy", Prod, 1, "i1", FALSE), Cmd("deploy", One, 0, "i1", FALSE),
          Cmd("run-local", One, 2, "i1", FALSE)}
CommandDef == SettingCommands \cup RequestCommands

(* The two invocations are interchangeable: each pair of commands once.    *)
CONSTANTS c1, c2, d1, d2
Commands == FoldSet(LAMBDA cmd, cmds : Append(cmds, cmd), <<>>, CommandDef)
Nth(p) == CHOOSE n \in DOMAIN Commands : Commands[n] = proc[p].cmd
InOrder == Nth(c1) <= Nth(c2)

(* Manifests: a plain file, one for a subdirectory, one that extends.      *)
FilesDef == {<<"root", "job.yaml">>, <<"root", "prod.yaml">>, <<"sub", "job.yaml">>}
WrittenDef == {
    "version" :> Leaf("1.0.0") @@ "git" :> Dict("branch" :> Leaf("main")),
    "version" :> Leaf("1.0.1") @@ "build_env" :> Dict("A" :> Leaf("")) @@ "git" :> Dict("directory" :> Leaf("sub")),
    "extends" :> Leaf("job.yaml") @@ "runtime_env" :> Dict("A" :> Leaf("")) @@ "git" :> Dict("directory" :> Leaf("sub"))}
ExtraVarsDef == {[path |-> <<"version">>, value |-> Leaf("1.0.2")],
                 [path |-> <<"git", "directory">>, value |-> Leaf("sub")]}
SecretsDef == {{}, {"A"}}

(* Packing: lines that leave out a directory and take back what is in it.  *)
SourcesDef == {<<"plugin.py">>, Manifest, <<"dir", "a">>, <<"dir", "keep", "a">>, <<"dir", "x.pyc">>, <<".git", "a">>}
WildcardsDef ==
    "*.zip" :> {"p-1.zip"} @@ "*.pyc" :> {"x.pyc"}
    @@ "*" :> UNION {{path[i] : i \in DOMAIN path} : path \in SourcesDef \cup Archives}
LinesDef == {
    Line("-", FALSE, <<"dir">>, FALSE), Line("-", FALSE, <<"dir">>, TRUE), Line("+", FALSE, <<"dir", "a">>, FALSE),
    Line("-", FALSE, <<"dir", "keep">>, FALSE),
    Line("+", FALSE, <<"*">>, FALSE), Line("-", TRUE, <<"dir", "keep">>, FALSE),
    Line("+", FALSE, <<"keep", "*">>, FALSE), Line("-", FALSE, <<"a">>, FALSE)}

(* ImageBuild: a job type with a base image, a pre-release with two images.*)
LabelTextDef == 0 :> <<>> @@ 1 :> <<"-", "dev">>
JobTypesDef == <<1, 0, 0, 0>> :> 1 @@ <<1, 1, 0, 1>> :> 2
UsesBaseDef == {<<1, 0, 0, 0>>}
WantedDef == "j1" :> Latest @@ "j2" :> <<"1", ".", "*", ".", "0">>

(* Deployments are interchangeable, too: the first one starts first.       *)
InTurn == life[d2] # "none" => life[d1] # "none"

----------------------------------------------------------------------------
lifecycleVars == <<accountVars, imageVars>>
sentVars == <<clientVars, manifestVars, packingVars>>
toolVars == <<wizardVars, cleanerVars, bumperVars>>

PartsInit ==
    /\ Init /\ AccountsInit /\ ClientInit /\ ManifestInit /\ PackingInit /\ ImageInit
    /\ WizardInit /\ CleanerInit /\ BumperInit
    /\ part \in {"cache", "accounts", "client", "manifests", "packing", "images", "wizard", "cleaner", "bumper"}
    /\ part = "client" => InOrder
    /\ part # "client" => file = <<ClientConfig>> /\ \A p \in Proc : proc[p] = NotStarted(Cmd("list", One, 1, "i2", TRUE))
    /\ part # "images" => installed = {<<1, 0, 0, 0>>}
    /\ part # "cleaner" => \A e \in Environment : running[e] = [core |-> 1, jobs |-> [j \in Jobs |-> NoTag]]

\* The client, and what it sends.
SentNext ==
    \/ part = "client" /\ ClientNext /\ UNCHANGED <<manifestVars, packingVars>>
    \/ part = "manifests" /\ ManifestNext /\ UNCHANGED <<clientVars, packingVars>>
    \/ part = "packing" /\ PackingNext /\ UNCHANGED <<clientVars, manifestVars>>

\* The tools that are run by hand.
ToolNext ==
    \/ part = "wizard" /\ WizardNext /\ UNCHANGED <<cleanerVars, bumperVars>>
    \/ part = "cleaner" /\ CleanerNext /\ UNCHANGED <<wizardVars, bumperVars>>
    \/ part = "bumper" /\ BumperNext /\ UNCHANGED <<wizardVars, cleanerVars>>

\* What Lifecycle does with them.
LifecycleNext ==
    \/ part = "accounts" /\ AccountsNext /\ UNCHANGED imageVars
    \/ part = "images" /\ ImageNext /\ UNCHANGED accountVars

PartsNext ==
    \/ part = "cache" /\ Next /\ UNCHANGED <<lifecycleVars, sentVars, toolVars, part>>
    \/ LifecycleNext /\ UNCHANGED <<vars, sentVars, toolVars, part>>
    \/ SentNext /\ UNCHANGED <<vars, lifecycleVars, toolVars, part>>
    \/ ToolNext /\ UNCHANGED <<vars, lifecycleVars, sentVars, part>>

PartsSpec == PartsInit /\ [][PartsNext]_<<vars, lifecycleVars, sentVars, toolVars, part>>
=============================================================================
