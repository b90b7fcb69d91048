----------------------------- MODULE MCKvCsSync ----------------------------
(***************************************************************************)
(* A small instance of KvCsSync for TLC: one key, one value.              *)
(***************************************************************************)
EXTENDS KvCsSync, TLC

CONSTANTS k1, v1

OneKeyLegal == (k1 :> {v1})
OneKeyStart == (k1 :> v1)

Interchangeable == Permutations(Callers) \cup Permutations(Arcs)
=============================================================================
