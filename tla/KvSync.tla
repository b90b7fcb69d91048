------------------------------- MODULE KvSync -------------------------------
(***************************************************************************)
(* The synchronous C API of the SDK (core-sdk/src/ffi.rs).                 *)
(*                                                                         *)
(* Any number of threads call into one client.  A call that needs the      *)
(* server blocks its thread: the step that misses the cache, the one that  *)
(* sends the request and the one that handles the answer are apart, and    *)
(* everything else may happen in between.  What a call does between two    *)
(* touches of shared state (cache, heap, wire) is one step with the touch  *)
(* before it.                                                              *)
(***************************************************************************)
EXTENDS KvApi

VARIABLES client   \* the host's handle: "null", "open" or "destroyed"

vars == <<apiVars, client>>

Init == ApiInit /\ client = "null"

-----------------------------------------------------------------------------
(* kv_store_init, kv_store_destroy, kv_store_cache_clear *)

\* On failure (bad URL, HTTP client not built) it returns null and changes
\* nothing.  A host that has destroyed its client may make a new one.
Open ==
    /\ client # "open"
    /\ client' = "open"
    /\ UNCHANGED apiVars

\* Mutant: the cache outlives its client.
Destroy_KeepsCache ==
    /\ client = "open"
    /\ \A c \in Callers : ~InCall(c)
    /\ client' = "destroyed"
    /\ UNCHANGED apiVars

\* Drops the cache and the HTTP client.  The host must not destroy a client
\* that one of its threads is inside of; results may still be out.
Destroy ==
    /\ client = "open"
    /\ \A c \in Callers : ~InCall(c)
    /\ client' = "destroyed"
    /\ Clear
    /\ UNCHANGED <<httpVars, call, result>>

CacheClear ==
    /\ client = "open"
    /\ Clear
    /\ UNCHANGED <<httpVars, call, result, client>>

-----------------------------------------------------------------------------
(* kv_store_get and kv_store_set *)

\* With a null client (never opened, moved from, disposed) any key is
\* rejected, with an open one the bad ones.  No thread calls in with a
\* dangling handle.
GetInvalid(c, k) ==
    /\ Reject(c, k)
    /\ UNCHANGED client

GetOrSet(c) ==
    /\ client = "open"
    /\ \/ \E k \in Keys : Hit(c, k) \/ Miss(c, k)
       \/ \E k \in Keys, v \in Values : BeginSet(c, k, v)
    /\ UNCHANGED client

\* The thread is inside get or set until the answer is handled.
Ask(c)    == SendRequest(c) /\ UNCHANGED client
Resume(c) == Return(c) /\ UNCHANGED client

\* The result needs no client.
HandBack(c) == Release(c) /\ UNCHANGED client

Thread(c) ==
    \/ \E k \in Keys \cup {BadKey} : GetInvalid(c, k)
    \/ GetOrSet(c)
    \/ Ask(c)
    \/ Resume(c)
    \/ HandBack(c)

Network == HttpStep /\ UNCHANGED <<cacheVars, call, result, client>>
Moka    == CacheStep /\ UNCHANGED <<httpVars, call, result, client>>

Next ==
    \/ Open \/ Destroy \/ CacheClear
    \/ \E c \in Callers : Thread(c)
    \/ Network
    \/ Moka

Spec == Init /\ [][Next]_vars

\* Every exchange ends: reqwest gives up after 10 s (client.rs:30).  A
\* thread in the library runs on; strong fairness because finitely many Arcs
\* may leave an insert without a free block for a while, which the real
\* allocator does not.  moka gets round to dropping what it removed.
Fairness ==
    /\ \A c \in Callers :
          /\ WF_vars(Timeout(c) /\ UNCHANGED <<cacheVars, call, result, client>>)
          /\ WF_vars(Ask(c))
          /\ SF_vars(Resume(c))
    /\ \A a \in Arcs :
          WF_vars(Reclaim(a) /\ UNCHANGED <<httpVars, call, result, client>>)

FairSpec == Spec /\ Fairness

-----------------------------------------------------------------------------
(* Properties *)

\* A destroyed client owns nothing (ffi.rs:168): no entry can be found, no
\* exchange is open, and the blocks still alive are those of results out and
\* those moka has yet to drop.
NothingLeft ==
    client \in {"null", "destroyed"} =>
        /\ \A k \in Keys : entry[k] = NoArc
        /\ \A c \in Callers : wire[c] = Silent /\ ~InCall(c)
        /\ \A a \in Arcs \ retired : strong[a] = Cardinality(Holders(a))

\* A call that has begun comes back, answer or no answer.
Answered == \A c \in Callers : InCall(c) ~> ~InCall(c)
=============================================================================
