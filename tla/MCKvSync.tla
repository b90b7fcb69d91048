------------------------------ MODULE MCKvSync ------------------------------
(***************************************************************************)
(* A small instance of KvSync for TLC: one key, one value.                 *)
(***************************************************************************)
EXTENDS KvSync, TLC

CONSTANTS k1, v1

OneKeyLegal == (k1 :> {v1})
OneKeyStart == (k1 :> v1)
=============================================================================
