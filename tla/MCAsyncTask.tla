---------------------------- MODULE MCAsyncTask ----------------------------
(* Small instances of AsyncTask for TLC: the replicas and the clients are   *)
(* interchangeable. *)
EXTENDS AsyncTask, TLC

Symmetry == Permutations(Client) \cup Permutations(Replica)
=============================================================================
