----------------------------- MODULE MCKvAsync -----------------------------
(***************************************************************************)
(* A small instance of KvAsync for TLC: one key, one value.                *)
(***************************************************************************)
EXTENDS KvAsync, TLC

CONSTANTS k1, v1

OneKeyLegal == (k1 :> {v1})
OneKeyStart == (k1 :> v1)
=============================================================================
