--------------------------- MODULE MCPluginEngine ---------------------------
(* Small instances of PluginEngine for TLC: threads are interchangeable. *)
EXTENDS PluginEngine, TLC

Symmetry == Permutations(Request)
=============================================================================
