------------------------------- MODULE MCKvCppAsync -----------------------------
(***************************************************************************)
(* A small instance of KvCppAsync for TLC: one key, one value.             *)
(***************************************************************************)
EXTENDS KvCppAsync, TLC

CONSTANTS k1, v1

OneKeyLegal == (k1 :> {v1})
OneKeyStart == (k1 :> v1)
=============================================================================
