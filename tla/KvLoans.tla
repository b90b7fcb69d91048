------------------------------ MODULE KvLoans -------------------------------
(***************************************************************************)
(* What the C API promises its callers, whatever happens behind it         *)
(* (kv_store.h: "Result is valid until kv_store_release_get() is called"). *)
(*                                                                         *)
(* A get of key k ends with an error, or it lends the caller a text that   *)
(* somebody wrote at k; the text stays the same until the caller releases  *)
(* it.  A set ends and leaves nothing to release.                          *)
(***************************************************************************)
EXTENDS KvDomain

CONSTANTS BadKey   \* a null key pointer, or bytes that are not UTF-8

VARIABLES slot     \* slot[c]: what caller c is at

Idle           == [state |-> "idle"]
Calling(op, k) == [state |-> "calling", op |-> op, key |-> k]
Failed(k)      == [state |-> "failed", key |-> k]
Lent(k, v)     == [state |-> "lent", key |-> k, text |-> v]

Init == slot = [c \in Callers |-> Idle]

Become(c, s) == slot' = [slot EXCEPT ![c] = s]

\* A get that needs the server.
BeginGet(c, k) == slot[c] = Idle /\ Become(c, Calling("get", k))

\* A get is answered at once, or after it asked the server.
Lend(c, k, v) ==
    /\ slot[c] \in {Idle, Calling("get", k)}
    /\ v \in Legal[k]
    /\ Become(c, Lent(k, v))

Fail(c, k) == slot[c] \in {Idle, Calling("get", k)} /\ Become(c, Failed(k))

BeginSet(c, k) == slot[c] = Idle /\ Become(c, Calling("set", k))

EndSet(c, k) == slot[c] = Calling("set", k) /\ Become(c, Idle)

Release(c) == slot[c].state \in {"failed", "lent"} /\ Become(c, Idle)

Next ==
    \E c \in Callers :
        \/ Release(c)
        \/ Fail(c, BadKey)
        \/ \E k \in Keys :
              \/ BeginGet(c, k) \/ Fail(c, k) \/ BeginSet(c, k) \/ EndSet(c, k)
              \/ \E v \in Values : Lend(c, k, v)

Spec == Init /\ [][Next]_slot
=============================================================================
