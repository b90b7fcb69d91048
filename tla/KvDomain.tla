------------------------------ MODULE KvDomain ------------------------------
(***************************************************************************)
(* What all modules talk about: the keys, the value texts and the callers  *)
(* of the SDK.  A key or a value is opaque to this code.                   *)
(***************************************************************************)
EXTENDS Naturals, FiniteSets

CONSTANTS
    Keys,     \* keys, as they arrive in the URL path
    Values,   \* value texts
    Legal,    \* Legal[k]: the values anybody ever writes at key k
    Callers   \* callers of the SDK: threads with one call or result at a time

ASSUME DomainAssumption ==
    /\ Legal \in [Keys -> SUBSET Values]
    /\ IsFiniteSet(Callers)
=============================================================================
