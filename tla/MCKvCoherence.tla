--------------------------- MODULE MCKvCoherence ----------------------------
(***************************************************************************)
(* Small instances of KvCoherence for TLC: one key, since no step relates  *)
(* two, and any value at it.                                               *)
(***************************************************************************)
EXTENDS KvCoherence, TLC

CONSTANTS k1, v1, v2

OneKeyLegal == (k1 :> {v1, v2})
OneKeyStart == (k1 :> v1)

Symmetry == Permutations(Callers) \cup Permutations(Arcs)
=============================================================================
