----------------------------- MODULE MCKvCsAsync ----------------------------
(***************************************************************************)
(* A small instance of KvCsAsync for TLC: one key, one value.              *)
(***************************************************************************)
EXTENDS KvCsAsync, TLC

CONSTANTS k1, v1

OneKeyLegal == (k1 :> {v1})
OneKeyStart == (k1 :> v1)

Interchangeable == Permutations(Callers) \cup Permutations(Arcs) \cup Permutations(Slots)
=============================================================================
