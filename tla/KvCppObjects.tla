----------------------------- MODULE KvCppObjects ---------------------------
(***************************************************************************)
(* What the two C++ bindings (bindings/cpp/include/kv_store.hpp and        *)
(* kv_store_async.hpp) have in common: client objects that own a handle of *)
(* the C API and can be moved, and what a call reports to its caller.      *)
(***************************************************************************)

CONSTANTS Objs   \* client objects of the host

VARIABLES owner  \* owner[x]: client_ of object x, "gone" without an object

Handles == {"gone", "null", "handle"}

OwnerInit == owner = [x \in Objs |-> "gone"]

Exists(x) == owner[x] # "gone"

\* The constructor that got a handle, and the destructor.
Acquire(x) == owner[x] = "gone" /\ owner' = [owner EXCEPT ![x] = "handle"]
Vanish(x)  == Exists(x) /\ owner' = [owner EXCEPT ![x] = "gone"]

\* client_(other.client_), then other.client_ = nullptr.
Transfer(x, y) == owner' = [owner EXCEPT ![y] = owner[x], ![x] = "null"]

SoleHolder == \A x, y \in Objs : owner[x] = "handle" /\ owner[y] = "handle" => x = y

-----------------------------------------------------------------------------
(* What the caller is told *)

Nothing         == [kind |-> "nothing"]
Copied(k, t)    == [kind |-> "text", key |-> k, text |-> t]
Nullopt(code)   == [kind |-> "nullopt", code |-> code]
Threw(cl, code) == [kind |-> "threw", class |-> cl, code |-> code]
Stored          == [kind |-> "stored"]

SetOutcome(code) == IF code = "Success" THEN Stored ELSE Threw("KvStoreException", code)

\* What Get and TryGet make of a result for key k whose pointer reads t.  No
\* branch throws a ConnectionException.
Outcome(fn, k, code, t) ==
    CASE code = "Success" -> Copied(k, t)
      [] code # "Success" /\ fn = "TryGet" -> Nullopt(code)
      [] code = "KeyNotFound" /\ fn = "Get" -> Threw("KeyNotFoundException", code)
      [] OTHER -> Threw("KvStoreException", code)
=============================================================================
