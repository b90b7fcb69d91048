------------------------------ MODULE KvAsync -------------------------------
(***************************************************************************)
(* The asynchronous C API of the SDK (core-sdk/src/ffi_async.rs).          *)
(*                                                                         *)
(* A call returns at once.  Either it is answered on the host's thread, by *)
(* running the callback inside the call (invalid argument, cache hit), or  *)
(* it spawns a task on a tokio runtime with a fixed number of workers.     *)
(* The task owns clones of the cache and of the HTTP client, and the host  *)
(* may destroy the client while tasks are under way: the cache goes with   *)
(* the last of its owners.                                                 *)
(*                                                                         *)
(* A worker runs a task until it waits for the network: from its start to  *)
(* the request, and from the answer through the cache's update to the end  *)
(* of the host's callback.  A caller of KvApi is one call with its         *)
(* user_data; the callback hands over its result.                          *)
(***************************************************************************)
EXTENDS KvApi

CONSTANTS Workers   \* worker threads of the runtime (4 in the source)

ASSUME AsyncAssumption == Workers \in Nat \ {0}

VARIABLES
    client,   \* the host's handle: "null", "open" or "destroyed"
    task      \* task[c]: where the task of call c is, "none" without one

asyncVars == <<client, task>>
vars == <<apiVars, asyncVars>>

\* "queued": spawned; "waiting": for the server; "callback": on a worker, in
\* the host's code.
Phases == {"none", "queued", "waiting", "callback"}

Init ==
    /\ ApiInit
    /\ client = "null"
    /\ task = [c \in Callers |-> "none"]

Alive == {c \in Callers : task[c] # "none"}

FreeWorker == Cardinality({c \in Callers : task[c] = "callback"}) < Workers

Move(c, phase) == task' = [task EXCEPT ![c] = phase]

-----------------------------------------------------------------------------
(* kv_store_async_init, _destroy, _cache_clear *)

Open ==
    /\ client = "null"
    /\ client' = "open"
    /\ UNCHANGED <<apiVars, task>>

\* Drops the client's clone of the cache, at any time.
Destroy ==
    /\ client = "open"
    /\ client' = "destroyed"
    /\ IF Alive = {} THEN Clear ELSE UNCHANGED cacheVars
    /\ UNCHANGED <<httpVars, call, result, task>>

CacheClear ==
    /\ client = "open"
    /\ Clear
    /\ UNCHANGED <<httpVars, call, result, asyncVars>>

-----------------------------------------------------------------------------
(* kv_store_get_async, kv_store_set_async: the part on the host's thread *)

\* The callback runs before the call returns, with a null client for any key.
\* A set with an invalid argument leaves nothing behind and is no step.
GetInvalid(c, k) ==
    /\ task[c] = "none"
    /\ Reject(c, k)
    /\ UNCHANGED asyncVars

\* The call is free for a new use when its task has ended.
Idle(c) == client = "open" /\ task[c] = "none"

GetHit(c, k) ==
    /\ Idle(c)
    /\ Hit(c, k)
    /\ UNCHANGED asyncVars

Spawn(c) ==
    /\ Idle(c)
    /\ \/ \E k \in Keys : Miss(c, k)
       \/ \E k \in Keys, v \in Values : BeginSet(c, k, v)
    /\ Move(c, "queued")
    /\ UNCHANGED client

HandBack(c) == Release(c) /\ UNCHANGED asyncVars

-----------------------------------------------------------------------------
(* The task *)

\* A worker takes the task up and runs it to its first await.
Start(c) ==
    /\ task[c] = "queued"
    /\ FreeWorker
    /\ SendRequest(c)
    /\ Move(c, "waiting")
    /\ UNCHANGED client

\* A worker handles the answer and enters the host's callback with it.
Deliver(c) ==
    /\ task[c] = "waiting"
    /\ FreeWorker
    /\ Return(c)
    /\ Move(c, "callback")
    /\ UNCHANGED client

\* Mutant: the end of a task leaves the cache alone.
CallbackReturns_KeepsCache(c) ==
    /\ task[c] = "callback"
    /\ Move(c, "none")
    /\ UNCHANGED <<apiVars, client>>

\* The host's callback returns; the task ends and drops its clones.
CallbackReturns(c) ==
    /\ task[c] = "callback"
    /\ Move(c, "none")
    /\ IF client = "destroyed" /\ Alive = {c} THEN Clear ELSE UNCHANGED cacheVars
    /\ UNCHANGED <<httpVars, call, result, client>>

-----------------------------------------------------------------------------

Host(c) ==
    \/ \E k \in Keys \cup {BadKey} : GetInvalid(c, k)
    \/ \E k \in Keys : GetHit(c, k)
    \/ Spawn(c)
    \/ HandBack(c)

Task(c) == Start(c) \/ Deliver(c) \/ CallbackReturns(c)

Network == HttpStep /\ UNCHANGED <<cacheVars, call, result, asyncVars>>
Moka    == CacheStep /\ UNCHANGED <<httpVars, call, result, asyncVars>>

Next ==
    \/ Open \/ Destroy \/ CacheClear
    \/ \E c \in Callers : Host(c) \/ Task(c)
    \/ Network
    \/ Moka

Spec == Init /\ [][Next]_vars

\* tokio's queue is fair to a task that is ready, also when the workers are
\* busy again and again: strong fairness of Start and Deliver.  A callback of
\* the host returns; reqwest gives up after 10 s (async_client.rs:26).
Fairness ==
    /\ \A c \in Callers :
          /\ WF_vars(Timeout(c) /\ UNCHANGED <<cacheVars, call, result, asyncVars>>)
          /\ SF_vars(Start(c))
          /\ SF_vars(Deliver(c))
          /\ WF_vars(CallbackReturns(c))
    /\ \A a \in Arcs :
          WF_vars(Reclaim(a) /\ UNCHANGED <<httpVars, call, result, asyncVars>>)

FairSpec == Spec /\ Fairness

-----------------------------------------------------------------------------
(* Properties *)

\* A call that is not finished has a task that will finish it, and a task
\* that runs no callback yet has its call; so no callback is run twice and
\* none with the answer of another call (ffi_async.rs:157-170).
TaskPerCall ==
    /\ task \in [Callers -> Phases]
    /\ client \in {"null", "open", "destroyed"}
    /\ \A c \in Callers :
          /\ InCall(c) <=> task[c] \in {"queued", "waiting"}
          /\ task[c] # "none" => client # "null"
          /\ task[c] = "queued" => wire[c] = Silent
          /\ task[c] = "waiting" => wire[c] # Silent

\* No entry outlives the last owner of the cache, be that the client or one of
\* its tasks, in whatever order destroy and the ends of tasks that may still
\* insert come (ffi_async.rs:111, 153, 209).
CacheOwned == client # "open" /\ Alive = {} => \A k \in Keys : entry[k] = NoArc

\* ffi_async.rs:121: a callback is invoked from another thread than the one
\* that called get, so a value is only ever handed over by a task.
CallbackElsewhere ==
    [][\A c \in Callers :
          result[c] = NoResult /\ result'[c].arc # NoArc => task[c] # "none"]_vars

\* Every spawned task gets to its callback, client or no client.
CallbackFires == \A c \in Callers : task[c] = "queued" ~> task[c] = "callback"
=============================================================================
