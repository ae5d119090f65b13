----------------------------- MODULE MCRsdCache -----------------------------
(* RsdCache on small instances: see the .cfg files. *)
EXTENDS RsdCache, TLC

Symmetry ==
    Permutations(Callers) \cup Permutations(Tunnels) \cup Permutations(Files)
=============================================================================
