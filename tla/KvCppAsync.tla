------------------------------ MODULE KvCppAsync ----------------------------
(***************************************************************************)
(* The C++ binding of the asynchronous C API (bindings/cpp/include/        *)
(* kv_store_async.hpp): a promise in a heap context answers the future     *)
(* that the host got.                                                      *)
(*                                                                         *)
(* Call c of KvAsync is one use of GetRefAsync, GetAsync, TryGetAsync,     *)
(* SetAsync or FireAndForget::Set.  Its context is deleted by the          *)
(* callback; the state that promise and future share lives until both are  *)
(* gone, and owns the AsyncValueRef until the host takes it out.  The host *)
(* may drop futures, references and the client at any moment.  A moved     *)
(* AsyncValueRef or future is still the one of its call: their moves are   *)
(* the ones that KvCpp has for ValueRef.                                   *)
(***************************************************************************)
EXTENDS KvAsync, KvCppObjects

CONSTANTS Uses   \* the functions below that the host calls

VARIABLES
    ctx,     \* ctx[c]: the heap context, "get", "set" or "none"
    arg,     \* arg[c]: the error code its callback is running with
    shared,  \* shared[c]: the shared state of its promise and future
    future,  \* future[c]: the function whose future somebody holds
    held     \* held[c]: the function whose AsyncValueRef the host has

callVars == <<ctx, arg, shared, future, held>>
cppVars == <<vars, owner, callVars>>

Getters == {"GetRefAsync", "GetAsync", "TryGetAsync"}
Setters == {"SetAsync", "FireAndForget"}

\* "none": freed; "value": owns an AsyncValueRef; "void" and "exception": what
\* a set came to; "taken": read out.
Satisfied == {"value", "void", "exception"}
SharedStates == {"none", "pending", "taken"} \cup Satisfied

CppInit ==
    /\ Init /\ OwnerInit
    /\ ctx = [c \in Callers |-> "none"]
    /\ arg = [c \in Callers |-> "none"]
    /\ shared = [c \in Callers |-> "none"]
    /\ future = [c \in Callers |-> "none"]
    /\ held = [c \in Callers |-> "none"]

-----------------------------------------------------------------------------
(* KvStoreAsyncClient: constructor, destructor, moves, ClearCache *)

Construct(x) ==
    /\ Acquire(x)
    /\ Open
    /\ UNCHANGED callVars

\* kv_store_async_destroy, unless client_ is null: calls may be under way.
DestroyHandle(x) == IF owner[x] = "handle" THEN Destroy ELSE UNCHANGED vars

Destruct(x) ==
    /\ Vanish(x)
    /\ DestroyHandle(x)
    /\ UNCHANGED callVars

\* Mutant: the new object's source keeps its client_.
MoveConstruct_KeepsHandle(x, y) ==
    /\ Exists(x) /\ owner[y] = "gone"
    /\ owner' = [owner EXCEPT ![y] = owner[x]]
    /\ UNCHANGED <<vars, callVars>>

MoveConstruct(x, y) ==
    /\ Exists(x) /\ owner[y] = "gone"
    /\ Transfer(x, y)
    /\ UNCHANGED <<vars, callVars>>

MoveAssign(x, y) ==
    /\ x # y
    /\ Exists(x) /\ Exists(y)
    /\ DestroyHandle(y)
    /\ Transfer(x, y)
    /\ UNCHANGED callVars

ClearCache(x) ==
    /\ owner[x] = "handle"
    /\ CacheClear
    /\ UNCHANGED <<owner, callVars>>

-----------------------------------------------------------------------------
(* The functions that return a future *)

\* Nothing is left of an earlier use of c.
Fresh(c) ==
    /\ ctx[c] = "none" /\ shared[c] = "none" /\ future[c] = "none" /\ held[c] = "none"
    /\ task[c] = "none" /\ call[c] = NoCall

\* new GetContext or SetContext, get_future, and what the C API did with it:
\* spawned a task, or ran the callback, which deleted the context, and left s.
Promise(c, kind, fn, s) ==
    /\ ctx' = [ctx EXCEPT ![c] = IF s = "pending" THEN kind ELSE "none"]
    /\ shared' = [shared EXCEPT ![c] = s]
    /\ future' = [future EXCEPT ![c] = fn]
    /\ UNCHANGED <<owner, arg, held>>

\* Answered before it returns: a null client, a bad key or a cache hit.
GetAtOnce(c, x, fn) ==
    /\ Fresh(c) /\ Exists(x)
    /\ \/ \E k \in Keys \cup {BadKey} :
             (owner[x] = "null" \/ k = BadKey) /\ GetInvalid(c, k)
       \/ \E k \in Keys : owner[x] = "handle" /\ GetHit(c, k)
    /\ Promise(c, "get", fn, "value")

GetLater(c, x, fn) ==
    /\ Fresh(c) /\ owner[x] = "handle"
    /\ Spawn(c) /\ call'[c].op = "get"
    /\ Promise(c, "get", fn, "pending")

\* A null client or a bad argument: set_callback inside the call.
SetAtOnce(c, x, fn) ==
    /\ Fresh(c) /\ Exists(x)
    /\ Promise(c, "set", fn, "exception")
    /\ UNCHANGED vars

SetLater(c, x, fn) ==
    /\ Fresh(c) /\ owner[x] = "handle"
    /\ Spawn(c) /\ call'[c].op = "set"
    /\ Promise(c, "set", fn, "pending")

-----------------------------------------------------------------------------
(* get_callback and set_callback, on a worker *)

\* The SDK calls back.
CallBack(c) ==
    /\ Deliver(c)
    /\ arg' = [arg EXCEPT ![c] =
                  IF call[c].op = "set" THEN SetCode(wire[c]) ELSE GetCode(wire[c])]
    /\ UNCHANGED <<owner, ctx, shared, future, held>>

\* promise.set_value or set_exception: the future is ready.
Fulfil(c) ==
    /\ task[c] = "callback" /\ ctx[c] # "none" /\ shared[c] = "pending"
    /\ shared' = [shared EXCEPT ![c] =
                     IF ctx[c] = "get" THEN "value"
                     ELSE IF arg[c] = "Success" THEN "void" ELSE "exception"]
    /\ arg' = [arg EXCEPT ![c] = "none"]
    /\ UNCHANGED <<vars, owner, ctx, future, held>>

\* Mutant: a value that nobody took stays in the shared state that is freed.
FreeShared_Leaks(c) == shared' = [shared EXCEPT ![c] = "none"] /\ UNCHANGED vars

\* The last of promise and future goes: a value nobody took is released by
\* the destructor of the AsyncValueRef inside.
FreeShared(c) ==
    /\ shared' = [shared EXCEPT ![c] = "none"]
    /\ IF shared[c] = "value" THEN HandBack(c) ELSE UNCHANGED vars

\* Mutant: the context of an abandoned future is not deleted.
DeleteContext_IfHeld(c) ==
    /\ task[c] = "callback" /\ ctx[c] # "none" /\ shared[c] # "pending"
    /\ future[c] # "none"
    /\ ctx' = [ctx EXCEPT ![c] = "none"]
    /\ UNCHANGED <<vars, shared, owner, arg, future, held>>

\* delete ctx.
DeleteContext(c) ==
    /\ task[c] = "callback" /\ ctx[c] # "none" /\ shared[c] # "pending"
    /\ ctx' = [ctx EXCEPT ![c] = "none"]
    /\ IF future[c] = "none" THEN FreeShared(c) ELSE UNCHANGED <<vars, shared>>
    /\ UNCHANGED <<owner, arg, future, held>>

Leave(c) ==
    /\ ctx[c] = "none"
    /\ CallbackReturns(c)
    /\ UNCHANGED <<owner, callVars>>

-----------------------------------------------------------------------------
(* The host's side of the future *)

\* get() on a ready future.  In the deferred functions of GetAsync and
\* TryGetAsync it moves the value to a local.  The thread that FireAndForget
\* detaches gets the future of its set and drops the outcome.
Take(c) ==
    /\ future[c] # "none" /\ shared[c] \in Satisfied
    /\ future' = [future EXCEPT ![c] = "none"]
    /\ shared' = [shared EXCEPT ![c] = IF ctx[c] = "none" THEN "none" ELSE "taken"]
    /\ IF shared[c] = "value"
       THEN held' = [held EXCEPT ![c] = future[c]] ELSE UNCHANGED held
    /\ UNCHANGED <<vars, owner, ctx, arg>>

\* Mutant: the context is deleted with its future.
Abandon_DeletesContext(c) ==
    /\ future[c] \notin {"none", "FireAndForget"}
    /\ future' = [future EXCEPT ![c] = "none"]
    /\ ctx' = [ctx EXCEPT ![c] = "none"]
    /\ FreeShared(c)
    /\ UNCHANGED <<owner, arg, held>>

\* A future is destroyed unread.  Nobody waits: it is a promise's, or that of
\* a deferred function, which is then never run.
Abandon(c) ==
    /\ future[c] \notin {"none", "FireAndForget"}
    /\ future' = [future EXCEPT ![c] = "none"]
    /\ IF ctx[c] = "none" THEN FreeShared(c) ELSE UNCHANGED <<vars, shared>>
    /\ UNCHANGED <<owner, ctx, arg, held>>

\* The AsyncValueRef is destroyed, by the host that GetRefAsync gave it to or
\* at the end of a deferred function, which has copied or thrown as Get and
\* TryGet of KvCpp do.  The client may be long gone.
DropRef(c) ==
    /\ held[c] # "none"
    /\ HandBack(c)
    /\ held' = [held EXCEPT ![c] = "none"]
    /\ UNCHANGED <<owner, ctx, arg, shared, future>>

-----------------------------------------------------------------------------

ClientStep ==
    \/ \E x \in Objs : Construct(x) \/ Destruct(x) \/ ClearCache(x)
    \/ \E x, y \in Objs : MoveConstruct(x, y) \/ MoveAssign(x, y)

Begin(c) ==
    \E x \in Objs :
        \/ \E fn \in Getters \cap Uses : GetAtOnce(c, x, fn) \/ GetLater(c, x, fn)
        \/ \E fn \in Setters \cap Uses : SetAtOnce(c, x, fn) \/ SetLater(c, x, fn)

Worker(c) ==
    \/ Start(c) /\ UNCHANGED <<owner, callVars>>
    \/ CallBack(c) \/ Fulfil(c) \/ DeleteContext(c) \/ Leave(c)

HostUse(c) == Take(c) \/ Abandon(c) \/ DropRef(c)

CppNext ==
    \/ ClientStep
    \/ \E c \in Callers : Begin(c) \/ Worker(c) \/ HostUse(c)
    \/ (Network \/ Moka) /\ UNCHANGED <<owner, callVars>>

CppSpec == CppInit /\ [][CppNext]_cppVars

\* As in KvAsync, but with nothing assumed of the host's callbacks: they are
\* the binding's own and wait for nobody.  The detached thread of
\* FireAndForget runs; no other step of the host has to come.
CppFairness ==
    /\ \A c \in Callers :
          /\ WF_cppVars(Timeout(c) /\ UNCHANGED <<cacheVars, call, result, asyncVars, owner, callVars>>)
          /\ SF_cppVars(Start(c) /\ UNCHANGED <<owner, callVars>>)
          /\ SF_cppVars(CallBack(c))
          /\ WF_cppVars(Fulfil(c))
          /\ WF_cppVars(DeleteContext(c))
          /\ WF_cppVars(Leave(c))
          /\ WF_cppVars(future[c] = "FireAndForget" /\ Take(c))
    /\ \A a \in Arcs :
          WF_cppVars(Reclaim(a) /\ UNCHANGED <<httpVars, call, result, asyncVars, owner, callVars>>)

CppFairSpec == CppSpec /\ CppFairness

-----------------------------------------------------------------------------
(* Properties *)

CppTypeOK ==
    /\ owner \in [Objs -> Handles]
    /\ ctx \in [Callers -> {"none", "get", "set"}]
    /\ shared \in [Callers -> SharedStates]
    /\ future \in [Callers -> {"none"} \cup Getters \cup Setters]
    /\ held \in [Callers -> {"none"} \cup Getters]

\* A callback that is still to come finds its context and a promise nobody
\* has answered yet, of the kind of its call; a context whose callback is
\* over has been deleted (kv_store_async.hpp:104-127).
ContextForCallback ==
    \A c \in Callers :
        /\ task[c] \in {"queued", "waiting"} =>
              ctx[c] = call[c].op /\ shared[c] = "pending"
        /\ shared[c] = "pending" => ctx[c] # "none"
        /\ ctx[c] # "none" => task[c] # "none"

\* A result that is out is owned by exactly one of: its callback's argument,
\* the AsyncValueRef in the shared state, the one the host has.  A shared
\* state is there as long as promise or future is, and no longer.
OneOwner ==
    \A c \in Callers :
        /\ result[c] # NoResult <=>
              \/ shared[c] = "pending" /\ task[c] = "callback" /\ ctx[c] = "get"
              \/ shared[c] = "value"
              \/ held[c] # "none"
        /\ held[c] # "none" => shared[c] \in {"none", "taken"} /\ future[c] = "none"
        /\ shared[c] # "none" <=> ctx[c] # "none" \/ future[c] # "none"
        /\ future[c] # "none" => shared[c] # "taken"

\* Arcs is a bound of the model: the allocator always has a block again.
BlocksLeft == []<>(\E a \in Arcs : strong[a] = 0)

\* Whatever the host does to its client, to other futures and to the results
\* it has, every context gets its callback, which answers the promise and
\* deletes it, also when nobody has the future any more; and the thread of
\* FireAndForget ends (kv_store_async.hpp:120, 136, 296).
NothingForgotten ==
    BlocksLeft =>
        \A c \in Callers :
            (ctx[c] # "none" \/ future[c] = "FireAndForget")
                ~> (ctx[c] = "none" /\ future[c] # "FireAndForget")

\* The native client is open exactly while one object holds it, through any
\* moves and assignments; none is destroyed twice (kv_store_async.hpp:164-189).
ClientOwned == SoleHolder /\ (client = "open" <=> \E x \in Objs : owner[x] = "handle")

\* The destructors are enough: when no object owns the client, nobody has a
\* future or a reference and no task is left, then every context, shared state
\* and value is gone, and the cache with them, but for what moka has yet to
\* drop - also when futures were abandoned and the client went first
\* (kv_store_async.hpp:37, 120, 164).
LeakFree ==
    (/\ \A x \in Objs : owner[x] # "handle"
     /\ \A c \in Callers : task[c] = "none" /\ future[c] = "none" /\ held[c] = "none")
    => /\ \A c \in Callers : ctx[c] = "none" /\ shared[c] = "none"
       /\ \A a \in Arcs : strong[a] = IF a \in retired THEN 1 ELSE 0
=============================================================================
