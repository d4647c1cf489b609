----------------------------- MODULE MCRegistry -----------------------------
(***************************************************************************)
(* The records of Lifecycle: who may call which job, and which version of  *)
(* a family an alias leads to. A behaviour of the run exercises one of     *)
(* them and the other stays as it started.                                 *)
(***************************************************************************)
EXTENDS Registry, Portfolio

VARIABLE part       \* what is exercised

\* A version, the pre-release of the next one and another major version.
LabelTextDef == 0 :> <<>> @@ 1 :> <<"-", "dev">>
CatalogueDef == {<<1, 2, 0, 0>>, <<1, 3, 0, 1>>, <<2, 0, 0, 0>>}
PatternsDef == {<<"1", ".", "*">>, <<"1", ".", "2", ".", "*">>, <<"*", ".", "0">>}
DeclaringDef == {<<2, 0, 0, 0>>}

RecordsInit == Init /\ PortfolioInit /\ part \in {"access", "versions"}

RecordsNext ==
    \/ part = "access" /\ Next /\ UNCHANGED <<portfolioVars, part>>
    \/ part = "versions" /\ PortfolioNext /\ UNCHANGED <<regVars, part>>

RecordsSpec == RecordsInit /\ [][RecordsNext]_<<regVars, portfolioVars, part>>

\* Threads are interchangeable.
Symmetry == Permutations(Thread)

\* Three requests, or two of which one dies or raises, are served; one version
\* at a time has a manifest that was replaced, and two deployments wait.
Bounded ==
    /\ requests + crashes + Cardinality(failures) <= MaxRequests
    /\ Cardinality(replaced) <= 1 /\ Cardinality(deploying) <= 2
=============================================================================
