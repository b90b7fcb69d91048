------------------------------- MODULE MCKvCpp ------------------------------
(***************************************************************************)
(* A small instance of KvCpp for TLC: one key, one value.                  *)
(***************************************************************************)
EXTENDS KvCpp, TLC

CONSTANTS k1, v1

OneKeyLegal == (k1 :> {v1})
OneKeyStart == (k1 :> v1)

Interchangeable ==
    Permutations(Callers) \cup Permutations(Arcs) \cup Permutations(Objs) \cup Permutations(Refs)
=============================================================================
