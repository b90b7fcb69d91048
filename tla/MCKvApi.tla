------------------------------ MODULE MCKvApi ------------------------------
(***************************************************************************)
(* Small instances of KvApi for TLC.                                       *)
(***************************************************************************)
EXTENDS KvApi, TLC

CONSTANTS k1, k2, v1, v2, v3

\* Two keys with values of their own; the second is missing at first.
TwoKeysLegal == (k1 :> {v1, v2}) @@ (k2 :> {v3})
TwoKeysStart == (k1 :> v1) @@ (k2 :> Absent)

\* One key, one value.
OneKeyLegal == (k1 :> {v1})
OneKeyStart == (k1 :> v1)

\* Callers are interchangeable, and so are blocks.
Symmetry == Permutations(Callers) \cup Permutations(Arcs)
=============================================================================
