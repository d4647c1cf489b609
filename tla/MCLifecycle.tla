----------------------------- MODULE MCLifecycle -----------------------------
(***************************************************************************)
(* What has to happen in Lifecycle: the deployments of a job come to their *)
(* end and the registry follows the infrastructures; statements end and    *)
(* the health follows the database. A deployment takes each access to the  *)
(* database as one step, so a behaviour of the run exercises either the    *)
(* deployments or the engine underneath.                                   *)
(***************************************************************************)
EXTENDS Deployment, Database

VARIABLE part       \* what is exercised

\* Statements that collide, match several rows, or match none.
StatementsDef == {InsertOne("a"), UpdateOne({"a", "b"}), UpdateMany({"a", "b"}), DeleteOne({"a"})}

LifecycleInit ==
    /\ Init /\ DbInit /\ part \in {"deployments", "database"}
    /\ table \in {{}, Key}
    /\ part = "deployments" => engine = "postgres" /\ table = {}

LifecycleNext ==
    \/ part = "deployments" /\ Next /\ UNCHANGED <<dbVars, part>>
    \/ part = "database" /\ DbNext /\ UNCHANGED <<vars, part>>

\* Fairness and DbFairness, each of the part that is exercised.
LifecycleSpec ==
    /\ LifecycleInit /\ [][LifecycleNext]_<<vars, dbVars, part>>
    /\ \A d \in Dep : WF_vars(part = "deployments" /\ ThreadStep(d))
    /\ WF_vars(part = "deployments" /\ DeleteStep)
    /\ WF_vars(part = "deployments" /\ SyncStart)
    /\ WF_vars(part = "deployments" /\ SyncStep)
    /\ \A t \in Thread : WF_dbVars(part = "database" /\ StatementStep(t))
    /\ WF_dbVars(part = "database" /\ Connect)
    /\ WF_dbVars(part = "database" /\ CheckStep)
=============================================================================
