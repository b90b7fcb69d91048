-------------------------- MODULE KvCppAsync_proofs --------------------------
(***************************************************************************)
(* The asynchronous C++ binding implements KvAsync, each callback finds    *)
(* its context, and each result has one owner until it is released.        *)
(***************************************************************************)
EXTENDS KvCppAsync, KvAsync_proofs

\* Only the future of a get has an AsyncValueRef to come.
Kinds == \A c \in Callers : ctx[c] = "get" \/ shared[c] = "value" => future[c] \notin Setters

\* The binding's own variables keep their types.
LEMMA CppTypeStep ==
  CppTypeOK /\ Kinds /\ [CppNext]_cppVars => CppTypeOK' /\ Kinds'
<1> SUFFICES ASSUME CppTypeOK, Kinds, [CppNext]_cppVars PROVE CppTypeOK' /\ Kinds'
  OBVIOUS
<1> USE DEF CppTypeOK, Kinds, Handles, SharedStates, Satisfied, Getters, Setters, callVars
<1>1. CASE ClientStep
  BY <1>1 DEF ClientStep, Construct, Destruct, ClearCache, MoveConstruct, MoveAssign,
              Acquire, Vanish, Transfer, Exists
<1>2. ASSUME NEW c \in Callers, Begin(c) PROVE CppTypeOK' /\ Kinds'
  BY <1>2 DEF Begin, GetAtOnce, GetLater, SetAtOnce, SetLater, Promise
<1>3. ASSUME NEW c \in Callers, Worker(c) PROVE CppTypeOK' /\ Kinds'
  BY <1>3 DEF Worker, CallBack, Fulfil, DeleteContext, FreeShared, Leave
<1>4. ASSUME NEW c \in Callers, HostUse(c) PROVE CppTypeOK' /\ Kinds'
  BY <1>4 DEF HostUse, Take, Abandon, DropRef, FreeShared
<1>5. CASE UNCHANGED <<owner, callVars>>
  BY <1>5
<1>6. QED
  BY <1>1, <1>2, <1>3, <1>4, <1>5 DEF CppNext, cppVars

\* Whatever the host does with clients, futures and references, the C API
\* sees one of its own steps.
LEMMA CppStep == [CppNext]_cppVars => [Next]_vars
<1> SUFFICES ASSUME CppNext PROVE Next \/ UNCHANGED vars
  BY DEF cppVars
<1>1. CASE ClientStep
  BY <1>1 DEF ClientStep, Construct, Destruct, ClearCache, MoveConstruct, MoveAssign,
              DestroyHandle, Next
<1>2. ASSUME NEW c \in Callers, HandBack(c) \/ Spawn(c) \/ Task(c) PROVE Next
  BY <1>2 DEF Next, Host
<1>3. ASSUME NEW c \in Callers, Begin(c) PROVE Next \/ UNCHANGED vars
  <2>1. ASSUME NEW x \in Objs, NEW fn, GetAtOnce(c, x, fn) PROVE Next
    BY <2>1 DEF GetAtOnce, Next, Host
  <2>2. ASSUME NEW x \in Objs, NEW fn, GetLater(c, x, fn) \/ SetLater(c, x, fn) PROVE Next
    BY <1>2, <2>2 DEF GetLater, SetLater
  <2>3. ASSUME NEW x \in Objs, NEW fn, SetAtOnce(c, x, fn) PROVE UNCHANGED vars
    BY <2>3 DEF SetAtOnce
  <2>4. QED
    BY <1>3, <2>1, <2>2, <2>3 DEF Begin
<1>4. ASSUME NEW c \in Callers, FreeShared(c) PROVE Next \/ UNCHANGED vars
  BY <1>2, <1>4 DEF FreeShared
<1>5. ASSUME NEW c \in Callers, Worker(c) PROVE Next \/ UNCHANGED vars
  BY <1>2, <1>4, <1>5 DEF Worker, CallBack, Fulfil, DeleteContext, Leave, Task
<1>6. ASSUME NEW c \in Callers, HostUse(c) PROVE Next \/ UNCHANGED vars
  BY <1>2, <1>4, <1>6 DEF HostUse, Take, Abandon, DropRef
<1>7. CASE Network \/ Moka
  BY <1>7 DEF Next
<1>8. QED
  BY <1>1, <1>3, <1>5, <1>6, <1>7 DEF CppNext

\* The binding implements the asynchronous API.
THEOREM CppKeepsAsync == CppSpec => Spec
<1>1. CppInit => Init
  BY DEF CppInit
<1>2. QED
  BY <1>1, CppStep, PTL DEF CppSpec, Spec

-----------------------------------------------------------------------------
(* Ownership *)

\* ContextForCallback and OneOwner of one call.
Mine(c) ==
    /\ task[c] \in {"queued", "waiting"} => ctx[c] = call[c].op /\ shared[c] = "pending"
    /\ shared[c] = "pending" => ctx[c] # "none"
    /\ ctx[c] # "none" => task[c] # "none"
    /\ result[c] # NoResult <=>
          \/ shared[c] = "pending" /\ task[c] = "callback" /\ ctx[c] = "get"
          \/ shared[c] = "value"
          \/ held[c] # "none"
    /\ held[c] # "none" => shared[c] \in {"none", "taken"} /\ future[c] = "none"
    /\ shared[c] # "none" <=> ctx[c] # "none" \/ future[c] # "none"
    /\ future[c] # "none" => shared[c] # "taken"

AllMine == \A c \in Callers : Mine(c)

\* The variables that Mine(c) is about.
mine(c) == <<task[c], call[c], result[c], ctx[c], shared[c], future[c], held[c]>>

LEMMA MineIs == AllMine <=> ContextForCallback /\ OneOwner
BY DEF AllMine, Mine, ContextForCallback, OneOwner

\* A step about call c leaves the others alone.
LEMMA Elsewhere ==
  ASSUME AllMine, NEW c \in Callers, Mine(c)',
         \A d \in Callers \ {c} : mine(d)' = mine(d)
  PROVE  AllMine'
BY DEF AllMine, Mine, mine

\* The inductive invariant.
OInv == IInv /\ TaskPerCall /\ CppTypeOK /\ Kinds /\ AllMine

\* The host begins a use of c.
LEMMA BeginMine == ASSUME OInv, NEW c \in Callers, Begin(c) PROVE AllMine'
<1>1. /\ task \in [Callers -> Phases] /\ call \in [Callers -> Calls]
      /\ result \in [Callers -> Results] /\ CppTypeOK /\ IInv /\ TaskPerCall
  BY DEF OInv, IInv, TypeOK, TaskPerCall
<1>2. AllMine
  BY DEF OInv
<1>3. ASSUME NEW x \in Objs, NEW fn \in Getters, GetAtOnce(c, x, fn) PROVE AllMine'
  <2>1. /\ Fresh(c) /\ Promise(c, "get", fn, "value")
        /\ UNCHANGED task
        /\ \E z \in Calls : call' = [call EXCEPT ![c] = z]
        /\ \E r \in Results \ {NoResult} : result' = [result EXCEPT ![c] = r]
    BY <1>1, <1>3, CallEffects DEF GetAtOnce
  <2>2. \A d \in Callers \ {c} : mine(d)' = mine(d)
    BY <1>1, <2>1 DEF Promise, mine, CppTypeOK
  <2>3. Mine(c)'
    BY <1>1, <2>1 DEF Fresh, Promise, Mine, CppTypeOK, Getters
  <2>4. QED
    BY <1>2, <2>2, <2>3, Elsewhere
<1>4. ASSUME NEW x \in Objs, NEW fn \in Getters \cup Setters, NEW kind \in {"get", "set"},
             Fresh(c), Spawn(c), call'[c].op = kind, Promise(c, kind, fn, "pending")
      PROVE  AllMine'
  <2>1. /\ UNCHANGED result /\ result[c] = NoResult
        /\ task' = [task EXCEPT ![c] = "queued"]
        /\ \E z \in Calls : call' = [call EXCEPT ![c] = z]
    BY <1>1, <1>4, CallEffects
  <2>2. \A d \in Callers \ {c} : mine(d)' = mine(d)
    BY <1>1, <1>4, <2>1 DEF Promise, mine, CppTypeOK
  <2>3. Mine(c)'
    BY <1>1, <1>4, <2>1 DEF Fresh, Promise, Mine, CppTypeOK, Getters, Setters
  <2>4. QED
    BY <1>2, <2>2, <2>3, Elsewhere
<1>5. ASSUME NEW x \in Objs, NEW fn \in Setters, SetAtOnce(c, x, fn) PROVE AllMine'
  <2>1. /\ Fresh(c) /\ Promise(c, "set", fn, "exception")
        /\ UNCHANGED <<task, call, result>>
    BY <1>5 DEF SetAtOnce, vars, apiVars, asyncVars
  <2>2. result[c] = NoResult
    BY <1>1, <2>1 DEF Fresh, IInv, Matched, NoCall
  <2>3. \A d \in Callers \ {c} : mine(d)' = mine(d)
    BY <1>1, <2>1 DEF Promise, mine, CppTypeOK
  <2>4. Mine(c)'
    BY <1>1, <2>1, <2>2 DEF Fresh, Promise, Mine, CppTypeOK, Setters
  <2>5. QED
    BY <1>2, <2>3, <2>4, Elsewhere
<1>6. QED
  BY <1>3, <1>4, <1>5, Begin(c) DEF Begin, GetLater, SetLater

\* The last of promise and future releases what nobody took.
LEMMA FreeSharedMine ==
  ASSUME OInv, NEW c \in Callers, FreeShared(c), shared[c] # "pending"
  PROVE  /\ UNCHANGED task /\ shared' = [shared EXCEPT ![c] = "none"]
         /\ shared[c] = "value" => result' = [result EXCEPT ![c] = NoResult]
         /\ shared[c] # "value" => UNCHANGED result
         /\ \/ UNCHANGED call
            \/ call' = [call EXCEPT ![c] = NoCall]
BY CallEffects DEF OInv, FreeShared, vars, apiVars, asyncVars

\* The worker takes the call to its callback and through it.
LEMMA WorkerMine == ASSUME OInv, NEW c \in Callers, Worker(c) PROVE AllMine'
<1>1. /\ task \in [Callers -> Phases] /\ call \in [Callers -> Calls]
      /\ result \in [Callers -> Results] /\ CppTypeOK /\ IInv /\ TaskPerCall
  BY DEF OInv, IInv, TypeOK, TaskPerCall
<1>2. AllMine /\ Mine(c)
  BY DEF OInv, AllMine
<1>3. CASE Start(c) /\ UNCHANGED <<owner, callVars>>
  <2>1. /\ task[c] = "queued" /\ task' = [task EXCEPT ![c] = "waiting"]
        /\ UNCHANGED <<call, result, callVars>>
    BY <1>1, <1>3, TaskEffects
  <2>2. \A d \in Callers \ {c} : mine(d)' = mine(d)
    BY <1>1, <2>1 DEF mine, callVars
  <2>3. Mine(c)'
    BY <1>1, <1>2, <2>1 DEF Mine, callVars
  <2>4. QED
    BY <1>2, <2>2, <2>3, Elsewhere
<1>4. CASE CallBack(c)
  <2>1. /\ task[c] = "waiting" /\ task' = [task EXCEPT ![c] = "callback"]
        /\ result[c] = NoResult /\ UNCHANGED <<ctx, shared, future, held>>
        /\ \/ /\ call[c].op = "get" /\ UNCHANGED call
              /\ \E r \in Results \ {NoResult} : result' = [result EXCEPT ![c] = r]
           \/ /\ call[c].op = "set" /\ UNCHANGED result
              /\ call' = [call EXCEPT ![c] = NoCall]
    BY <1>1, <1>4, TaskEffects DEF CallBack
  <2>2. \A d \in Callers \ {c} : mine(d)' = mine(d)
    BY <1>1, <2>1 DEF mine
  <2>3. Mine(c)'
    BY <1>1, <1>2, <2>1 DEF Mine
  <2>4. QED
    BY <1>2, <2>2, <2>3, Elsewhere
<1>5. CASE Fulfil(c)
  <2>1. UNCHANGED <<task, call, result>>
    BY <1>5 DEF Fulfil, vars, apiVars, asyncVars
  <2>2. \A d \in Callers \ {c} : mine(d)' = mine(d)
    BY <1>1, <1>5, <2>1 DEF Fulfil, mine, CppTypeOK
  <2>3. Mine(c)'
    BY <1>1, <1>2, <1>5, <2>1 DEF Fulfil, Mine, CppTypeOK
  <2>4. QED
    BY <1>2, <2>2, <2>3, Elsewhere
<1>6. CASE DeleteContext(c)
  <2>1. /\ task[c] = "callback" /\ ctx[c] # "none" /\ shared[c] # "pending"
        /\ ctx' = [ctx EXCEPT ![c] = "none"] /\ UNCHANGED <<future, held>>
    BY <1>6 DEF DeleteContext
  <2>2. CASE FreeShared(c) /\ future[c] = "none"
    <3>1. \A d \in Callers \ {c} : mine(d)' = mine(d)
      BY <1>1, <2>1, <2>2, FreeSharedMine DEF mine, CppTypeOK
    <3>2. Mine(c)'
      BY <1>1, <1>2, <2>1, <2>2, FreeSharedMine DEF Mine, CppTypeOK
    <3>3. QED
      BY <1>2, <3>1, <3>2, Elsewhere
  <2>3. CASE UNCHANGED <<vars, shared>> /\ future[c] # "none"
    <3>1. UNCHANGED <<task, call, result, shared>>
      BY <2>3 DEF vars, apiVars, asyncVars
    <3>2. \A d \in Callers \ {c} : mine(d)' = mine(d)
      BY <1>1, <2>1, <3>1 DEF mine, CppTypeOK
    <3>3. Mine(c)'
      BY <1>1, <1>2, <2>1, <2>3, <3>1 DEF Mine, CppTypeOK
    <3>4. QED
      BY <1>2, <3>2, <3>3, Elsewhere
  <2>4. QED
    BY <1>6, <2>2, <2>3 DEF DeleteContext
<1>7. CASE Leave(c)
  <2>1. /\ ctx[c] = "none" /\ task[c] = "callback" /\ task' = [task EXCEPT ![c] = "none"]
        /\ UNCHANGED <<call, result, callVars>>
    BY <1>1, <1>7, TaskEffects DEF Leave, CallbackReturns
  <2>2. \A d \in Callers \ {c} : mine(d)' = mine(d)
    BY <1>1, <2>1 DEF mine, callVars
  <2>3. Mine(c)'
    BY <1>1, <1>2, <2>1 DEF Mine, callVars
  <2>4. QED
    BY <1>2, <2>2, <2>3, Elsewhere
<1>8. QED
  BY <1>3, <1>4, <1>5, <1>6, <1>7, Worker(c) DEF Worker

\* The host takes the value out, drops its future or its reference.
LEMMA HostMine == ASSUME OInv, NEW c \in Callers, HostUse(c) PROVE AllMine'
<1>1. /\ task \in [Callers -> Phases] /\ call \in [Callers -> Calls]
      /\ result \in [Callers -> Results] /\ CppTypeOK /\ IInv /\ TaskPerCall
  BY DEF OInv, IInv, TypeOK, TaskPerCall
<1>2. AllMine /\ Mine(c)
  BY DEF OInv, AllMine
<1>3. CASE Take(c)
  <2>1. UNCHANGED <<task, call, result, ctx>> /\ future' = [future EXCEPT ![c] = "none"]
    BY <1>3 DEF Take, vars, apiVars, asyncVars
  <2>2. \A d \in Callers \ {c} : mine(d)' = mine(d)
    BY <1>1, <1>3, <2>1 DEF Take, mine, CppTypeOK
  <2>3. Mine(c)'
    BY <1>1, <1>2, <1>3, <2>1 DEF Take, Mine, CppTypeOK, Satisfied
  <2>4. QED
    BY <1>2, <2>2, <2>3, Elsewhere
<1>4. CASE Abandon(c)
  <2>1. future[c] # "none" /\ future' = [future EXCEPT ![c] = "none"] /\ UNCHANGED <<ctx, held>>
    BY <1>4 DEF Abandon
  <2>2. CASE FreeShared(c) /\ ctx[c] = "none"
    <3>1. shared[c] # "pending"
      BY <1>2, <2>2 DEF Mine
    <3>2. \A d \in Callers \ {c} : mine(d)' = mine(d)
      BY <1>1, <2>1, <2>2, <3>1, FreeSharedMine DEF mine, CppTypeOK
    <3>3. Mine(c)'
      BY <1>1, <1>2, <2>1, <2>2, <3>1, FreeSharedMine DEF Mine, CppTypeOK
    <3>4. QED
      BY <1>2, <3>2, <3>3, Elsewhere
  <2>3. CASE UNCHANGED <<vars, shared>> /\ ctx[c] # "none"
    <3>1. UNCHANGED <<task, call, result, shared>>
      BY <2>3 DEF vars, apiVars, asyncVars
    <3>2. \A d \in Callers \ {c} : mine(d)' = mine(d)
      BY <1>1, <2>1, <3>1 DEF mine, CppTypeOK
    <3>3. Mine(c)'
      BY <1>1, <1>2, <2>1, <2>3, <3>1 DEF Mine, CppTypeOK
    <3>4. QED
      BY <1>2, <3>2, <3>3, Elsewhere
  <2>4. QED
    BY <1>4, <2>2, <2>3 DEF Abandon
<1>5. CASE DropRef(c)
  <2>1. /\ held[c] # "none" /\ UNCHANGED <<task, ctx, shared, future>>
        /\ held' = [held EXCEPT ![c] = "none"]
        /\ call' = [call EXCEPT ![c] = NoCall]
        /\ result' = [result EXCEPT ![c] = NoResult]
    BY <1>1, <1>5, CallEffects DEF DropRef
  <2>2. task[c] \notin {"queued", "waiting"}
    BY <1>2, <2>1 DEF Mine
  <2>3. \A d \in Callers \ {c} : mine(d)' = mine(d)
    BY <1>1, <2>1 DEF mine, CppTypeOK
  <2>4. Mine(c)'
    BY <1>1, <1>2, <2>1, <2>2 DEF Mine, CppTypeOK
  <2>5. QED
    BY <1>2, <2>3, <2>4, Elsewhere
<1>6. QED
  BY <1>3, <1>4, <1>5, HostUse(c) DEF HostUse

\* Clients, network and cache leave the calls alone.
LEMMA OwnershipStep == OInv /\ [CppNext]_cppVars => AllMine'
<1> SUFFICES ASSUME OInv, [CppNext]_cppVars PROVE AllMine'
  OBVIOUS
<1>1. ASSUME UNCHANGED <<task, call, result, callVars>> PROVE AllMine'
  BY <1>1 DEF OInv, AllMine, Mine, callVars
<1>2. CASE ClientStep
  BY <1>1, <1>2 DEF ClientStep, Construct, Destruct, ClearCache, MoveConstruct, MoveAssign,
                    DestroyHandle, Open, Destroy, CacheClear, vars, apiVars, asyncVars
<1>3. CASE (Network \/ Moka) /\ UNCHANGED <<owner, callVars>>
  BY <1>1, <1>3 DEF Network, Moka, asyncVars
<1>4. CASE UNCHANGED cppVars
  BY <1>1, <1>4 DEF cppVars, vars, apiVars, asyncVars
<1>5. QED
  BY <1>2, <1>3, <1>4, BeginMine, WorkerMine, HostMine DEF CppNext

\* What holds in every state of the binding.
LEMMA CppInvariance == CppSpec => []OInv
<1>1. CppInit => CppTypeOK /\ Kinds /\ AllMine
  BY DEF CppInit, Init, ApiInit, OwnerInit, CppTypeOK, Handles, SharedStates, Kinds, AllMine, Mine
<1>2. CppSpec => [](IInv /\ TaskPerCall /\ CacheOwned)
  BY CppKeepsAsync, AsyncInvariance, PTL
<1>3. OInv <=> IInv /\ TaskPerCall /\ CppTypeOK /\ Kinds /\ AllMine
  BY DEF OInv
<1>4. QED
  BY <1>1, <1>2, <1>3, CppTypeStep, OwnershipStep, PTL DEF CppSpec

\* A callback finds its context and an unanswered promise, whatever the host
\* has dropped since.
THEOREM CppContexts == CppSpec => []ContextForCallback
<1>1. OInv => ContextForCallback
  BY MineIs DEF OInv
<1>2. QED
  BY <1>1, CppInvariance, PTL

\* Between callback, shared state and host, a result always has one owner.
THEOREM CppAsyncOneOwner == CppSpec => []OneOwner
<1>1. OInv => OneOwner
  BY MineIs DEF OInv
<1>2. QED
  BY <1>1, CppInvariance, PTL

\* Every future's call has its task, and no cache entry outlives the last of the
\* client and its tasks.
THEOREM CppTasks == CppSpec => [](TaskPerCall /\ CacheOwned)
BY CppKeepsAsync, AsyncInvariance, PTL

\* The text of a reference stays until its release.
THEOREM CppAsyncLoans == CppSpec => LoansKept
BY CppKeepsAsync, AsyncLoans, PTL

\* Coherent, and current but for the races.
THEOREM CppAsyncCoherent == CppSpec /\ Watched => []Coherent /\ GetsCurrent
BY CppKeepsAsync, AsyncCoherent, PTL

-----------------------------------------------------------------------------
(* The client and its objects *)

\* Objects come, move and go, and the client with the one that holds it; calls,
\* tasks and futures leave both alone.
LEMMA ClientOwnedStep == CppTypeOK /\ ClientOwned /\ [CppNext]_cppVars => ClientOwned'
<1> SUFFICES ASSUME CppTypeOK, ClientOwned, [CppNext]_cppVars PROVE ClientOwned'
  OBVIOUS
<1> USE DEF CppTypeOK, Handles, ClientOwned, SoleHolder, Exists
<1>1. ASSUME NEW x \in Objs, Construct(x) PROVE ClientOwned'
  BY <1>1 DEF Construct, Acquire, Open
<1>2. ASSUME NEW x \in Objs, Destruct(x) PROVE ClientOwned'
  BY <1>2 DEF Destruct, Vanish, DestroyHandle, Destroy, vars, asyncVars
<1>3. ASSUME NEW x \in Objs, ClearCache(x) PROVE ClientOwned'
  BY <1>3 DEF ClearCache, CacheClear, asyncVars
<1>4. ASSUME NEW x \in Objs, NEW y \in Objs, MoveConstruct(x, y) PROVE ClientOwned'
  BY <1>4 DEF MoveConstruct, Transfer, vars, asyncVars
<1>5. ASSUME NEW x \in Objs, NEW y \in Objs, MoveAssign(x, y) PROVE ClientOwned'
  BY <1>5 DEF MoveAssign, Transfer, DestroyHandle, Destroy, vars, asyncVars
<1>6. CASE UNCHANGED <<client, owner>>
  BY <1>6
<1>7. ASSUME NEW c \in Callers, FreeShared(c) PROVE UNCHANGED client
  BY <1>7 DEF FreeShared, HandBack, vars, asyncVars
<1>8. ASSUME NEW c \in Callers, Begin(c) PROVE ClientOwned'
  BY <1>6, <1>8 DEF Begin, GetAtOnce, GetLater, SetAtOnce, SetLater, Promise, GetInvalid, GetHit,
                    Spawn, vars, asyncVars
<1>9. ASSUME NEW c \in Callers, Worker(c) PROVE ClientOwned'
  BY <1>6, <1>7, <1>9 DEF Worker, Start, CallBack, Deliver, Fulfil, DeleteContext, Leave,
                          CallbackReturns, vars, asyncVars
<1>10. ASSUME NEW c \in Callers, HostUse(c) PROVE ClientOwned'
  BY <1>6, <1>7, <1>10 DEF HostUse, Take, Abandon, DropRef, HandBack, vars, asyncVars
<1>11. CASE (Network \/ Moka) /\ UNCHANGED <<owner, callVars>>
  BY <1>6, <1>11 DEF Network, Moka, asyncVars
<1>12. CASE UNCHANGED cppVars
  BY <1>6, <1>12 DEF cppVars, vars, asyncVars
<1>13. QED
  BY <1>1, <1>2, <1>3, <1>4, <1>5, <1>8, <1>9, <1>10, <1>11, <1>12 DEF CppNext, ClientStep

\* Whatever the host constructs, moves, assigns and destroys, the native client
\* is open exactly while one object holds it.
THEOREM CppAsyncClientOwned == CppSpec => []ClientOwned
<1>1. CppInit => ClientOwned
  BY DEF CppInit, Init, OwnerInit, ClientOwned, SoleHolder
<1>2. OInv => CppTypeOK
  BY DEF OInv
<1>3. QED
  BY <1>1, <1>2, CppInvariance, ClientOwnedStep, PTL DEF CppSpec

\* When the host is done with clients, futures and references, and the last
\* callback is over, nothing is left, in whatever order they went.
THEOREM CppAsyncLeakFree == CppSpec => []LeakFree
<1>1. OInv /\ CacheOwned /\ ClientOwned => LeakFree
  <2> SUFFICES ASSUME OInv, CacheOwned, ClientOwned,
                      \A x \in Objs : owner[x] # "handle",
                      \A c \in Callers : task[c] = "none" /\ future[c] = "none" /\ held[c] = "none"
               PROVE  /\ \A c \in Callers : ctx[c] = "none" /\ shared[c] = "none"
                      /\ \A a \in Arcs : strong[a] = IF a \in retired THEN 1 ELSE 0
    BY DEF LeakFree
  <2>1. \A c \in Callers : ctx[c] = "none" /\ shared[c] = "none" /\ result[c] = NoResult
    BY DEF OInv, AllMine, Mine
  <2>2. \A k \in Keys : entry[k] = NoArc
    BY DEF ClientOwned, CacheOwned, Alive
  <2>3. \A c \in Callers : result[c].arc = NoArc
    BY <2>1 DEF NoResult
  <2>4. QED
    BY <2>1, <2>2, <2>3, EmptyHouse DEF OInv
<1>2. QED
  BY <1>1, CppInvariance, CppTasks, CppAsyncClientOwned, PTL
=============================================================================
