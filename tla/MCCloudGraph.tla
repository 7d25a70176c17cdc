----------------------------- MODULE MCCloudGraph -----------------------------
(* TLC instance of CloudGraph: two agents and a browser over two paths. *)
EXTENDS CloudGraph, TLC

Symmetry == Permutations(Agents) \cup Permutations(Paths) \cup Permutations(Contents)

===============================================================================
