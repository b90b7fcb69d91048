--------------------------- MODULE KvAsync_proofs ---------------------------
(***************************************************************************)
(* KvAsync implements KvApi, for any number of workers, and its cache      *)
(* lives exactly as long as the client or a task needs it.                 *)
(***************************************************************************)
EXTENDS KvAsync, KvCoherence_proofs

\* A step of the host, of a task or of the client is one step of the common
\* API, or none.
LEMMA AsyncStep == [Next]_vars => [ApiNext]_apiVars
<1> SUFFICES ASSUME Next PROVE ApiNext \/ UNCHANGED apiVars
  BY DEF vars
<1>1. CASE Open
  BY <1>1 DEF Open
<1>2. ASSUME Clear \/ UNCHANGED cacheVars, UNCHANGED <<httpVars, call, result>>
      PROVE  ApiNext \/ UNCHANGED apiVars
  <2>1. CASE Clear
    BY <1>2, <2>1 DEF Clear, ApiNext, Purge
  <2>2. CASE UNCHANGED cacheVars
    BY <1>2, <2>2 DEF cacheVars, httpVars, apiVars
  <2>3. QED
    BY <1>2, <2>1, <2>2
<1>3. CASE Destroy \/ CacheClear
  BY <1>2, <1>3 DEF Destroy, CacheClear
<1>4. ASSUME NEW c \in Callers, Host(c) PROVE ApiNext
  BY <1>4 DEF Host, GetInvalid, GetHit, Spawn, HandBack, ApiNext
<1>5. ASSUME NEW c \in Callers, Start(c) \/ Deliver(c) PROVE ApiNext
  BY <1>5 DEF Start, Deliver, ApiNext
<1>6. ASSUME NEW c \in Callers, CallbackReturns(c) PROVE ApiNext \/ UNCHANGED apiVars
  BY <1>2, <1>6 DEF CallbackReturns
<1>7. CASE Network
  BY <1>7 DEF Network, ApiNext
<1>8. CASE Moka
  <2>1. CASE \E k \in Keys : Evict(k)
    <3> PICK k \in Keys : Remove({k})
      BY <2>1 DEF Evict
    <3>1. Remove({k}) /\ UNCHANGED <<httpVars, call, result>> /\ {k} \in SUBSET Keys
      BY <1>8 DEF Moka
    <3>2. QED
      BY <3>1 DEF ApiNext, Purge
  <2>2. CASE \E a \in Arcs : Reclaim(a)
    BY <1>8, <2>2 DEF Moka, ApiNext
  <2>3. QED
    BY <1>8, <2>1, <2>2 DEF Moka, CacheStep
<1>9. QED
  BY <1>1, <1>3, <1>4, <1>5, <1>6, <1>7, <1>8 DEF Next, Task

\* The asynchronous API implements the common one, with the client destroyed
\* at any moment and any number of workers.
THEOREM AsyncKeepsApi == Spec => ApiSpec
<1>1. Init => ApiInit
  BY DEF Init
<1>2. QED
  BY <1>1, AsyncStep, PTL DEF Spec, ApiSpec

\* Its reference counts are exact.
THEOREM AsyncCounts == Spec => []ArcCount
BY AsyncKeepsApi, CountsExact, PTL

\* It keeps its promise to the holder of a result, also of one that a task
\* delivers after the client is gone.
THEOREM AsyncLoans == Spec => LoansKept
BY AsyncKeepsApi, LoansImplemented, PTL

\* Its cache is coherent and its gets are current but for the two races, also
\* when tasks of a destroyed client still write to the cache.
THEOREM AsyncCoherent == Spec /\ Watched => []Coherent /\ GetsCurrent
BY AsyncKeepsApi, WatchedCoherent, PTL

-----------------------------------------------------------------------------

\* A task is spawned with its call, asks once and ends with its callback.
LEMMA TaskStep == IInv /\ TaskPerCall /\ [Next]_vars => TaskPerCall'
<1> SUFFICES ASSUME IInv, TaskPerCall, [Next]_vars PROVE TaskPerCall'
  OBVIOUS
<1> USE ApiAssumption, CacheAssumption
    DEF IInv, TypeOK, HttpTypeOK, Calls, Results, NoCall, NoResult, Requests, Replies, Silent,
        Matched, TaskPerCall, InCall, Phases, Move, asyncVars, httpVars
<1>1. CASE Open
  BY <1>1 DEF Open, apiVars
<1>2. CASE Destroy
  BY <1>2 DEF Destroy
<1>3. CASE CacheClear
  BY <1>3 DEF CacheClear
<1>4. ASSUME NEW c \in Callers, NEW k \in Keys \cup {BadKey}, GetInvalid(c, k)
      PROVE  TaskPerCall'
  BY <1>4 DEF GetInvalid, Reject, Enter, Finish, Get, Error
<1>5. ASSUME NEW c \in Callers, NEW k \in Keys, GetHit(c, k)
      PROVE  TaskPerCall'
  BY <1>5 DEF GetHit, Idle, Hit, Enter, Finish, Get, Success
<1>6. ASSUME NEW c \in Callers, Spawn(c) PROVE TaskPerCall'
  <2>1. task[c] = "none" /\ task' = [task EXCEPT ![c] = "queued"]
        /\ client = "open" /\ UNCHANGED <<client, wire, result>>
    BY <1>6 DEF Spawn, Idle, Miss, BeginSet
  <2>2. PICK x \in Calls \ {NoCall} : call[c] = NoCall /\ call' = [call EXCEPT ![c] = x]
    BY <1>6 DEF Spawn, Miss, BeginSet, Enter, Get, Set
  <2>3. result[c] = NoResult /\ wire[c] = Silent
    BY <2>2
  <2>4. QED
    BY <2>1, <2>2, <2>3
<1>7. ASSUME NEW c \in Callers, HandBack(c) PROVE TaskPerCall'
  BY <1>7 DEF HandBack, Release, Finish
<1>8. ASSUME NEW c \in Callers, Start(c) PROVE TaskPerCall'
  BY <1>8 DEF Start, SendRequest, Send, RequestOf, GetRequest, PutRequest
<1>9. ASSUME NEW c \in Callers, Deliver(c) PROVE TaskPerCall'
  <2>1. task[c] = "waiting" /\ task' = [task EXCEPT ![c] = "callback"] /\ client' = client
    BY <1>9 DEF Deliver
  <2>2. /\ InCall(c) /\ wire' = [wire EXCEPT ![c] = Silent]
        /\ \/ \E r \in Results \ {NoResult} :
                 result' = [result EXCEPT ![c] = r] /\ call' = call
           \/ result' = result /\ call' = [call EXCEPT ![c] = NoCall]
    BY <1>9 DEF Deliver, Return, GetFilled, SetStored, GetFailed, SetFailed, Receive, Finish,
                Success, Error, GetCode, Codes
  <2>3. QED
    BY <2>1, <2>2
<1>10. ASSUME NEW c \in Callers, CallbackReturns(c) PROVE TaskPerCall'
  BY <1>10 DEF CallbackReturns
<1>11. CASE Network
  <2>1. \A c \in Callers : wire'[c] = Silent <=> wire[c] = Silent
    BY <1>11 DEF Network, HttpStep, ServeGet, ServePut, Refuse, Garble, LoseReply, Timeout,
                 ServeLate, ForeignPut, ForeignDelete, Restart, Answer, Reply, Pending
  <2>2. QED
    BY <1>11, <2>1 DEF Network
<1>12. CASE Moka
  BY <1>12 DEF Moka
<1>13. CASE UNCHANGED vars
  BY <1>13 DEF vars, apiVars
<1>14. QED
  BY <1>1, <1>2, <1>3, <1>4, <1>5, <1>6, <1>7, <1>8, <1>9, <1>10, <1>11, <1>12, <1>13
     DEF Next, Host, Task

\* Only a task puts something into the cache of a destroyed client, and the
\* last one takes the cache with it.
LEMMA OwnedStep == IInv /\ TaskPerCall /\ CacheOwned /\ [Next]_vars => CacheOwned'
<1> SUFFICES ASSUME IInv, TaskPerCall, CacheOwned, [Next]_vars PROVE CacheOwned'
  OBVIOUS
<1> USE CacheAssumption
    DEF IInv, TypeOK, CacheTypeOK, TaskPerCall, Phases, CacheOwned, Alive, Move, asyncVars
<1>1. CASE Open
  BY <1>1 DEF Open
<1>2. CASE Destroy
  BY <1>2 DEF Destroy, Clear, Remove
<1>3. CASE CacheClear
  BY <1>3 DEF CacheClear, Clear, Remove
<1>4. ASSUME NEW c \in Callers, NEW k \in Keys \cup {BadKey}, GetInvalid(c, k)
      PROVE  CacheOwned'
  BY <1>4 DEF GetInvalid, Reject, cacheVars
<1>5. ASSUME NEW c \in Callers, NEW k \in Keys, GetHit(c, k)
      PROVE  CacheOwned'
  BY <1>5 DEF GetHit, Idle
<1>6. ASSUME NEW c \in Callers, Spawn(c) PROVE CacheOwned'
  BY <1>6 DEF Spawn, Idle
<1>7. ASSUME NEW c \in Callers, HandBack(c) PROVE CacheOwned'
  BY <1>7 DEF HandBack, Release
<1>8. ASSUME NEW c \in Callers, Start(c) \/ Deliver(c) PROVE CacheOwned'
  <2>1. task'[c] \in {"waiting", "callback"}
    BY <1>8 DEF Start, Deliver
  <2>2. QED
    BY <2>1
<1>9. ASSUME NEW c \in Callers, CallbackReturns(c) PROVE CacheOwned'
  <2>1. CASE client = "destroyed" /\ Alive = {c}
    BY <1>9, <2>1 DEF CallbackReturns, Clear, Remove
  <2>2. CASE client = "open"
    BY <1>9, <2>2 DEF CallbackReturns
  <2>3. CASE client # "open" /\ Alive # {c}
    <3>1. c \in Alive
      BY <1>9 DEF CallbackReturns
    <3>2. PICK d \in Callers : d # c /\ task[d] # "none"
      BY <2>3, <3>1
    <3>3. task'[d] # "none"
      BY <1>9, <3>2 DEF CallbackReturns
    <3>4. QED
      BY <3>3
  <2>4. CASE client = "null" /\ Alive = {c}
    <3>1. FALSE
      BY <1>9, <2>4 DEF CallbackReturns
    <3>2. QED
      BY <3>1
  <2>5. QED
    BY <2>1, <2>2, <2>3, <2>4
<1>10. CASE Network
  BY <1>10 DEF Network, cacheVars
<1>11. CASE Moka
  BY <1>11 DEF Moka, CacheStep, Evict, Remove, Reclaim
<1>12. CASE UNCHANGED vars
  BY <1>12 DEF vars, apiVars
<1>13. QED
  BY <1>1, <1>2, <1>3, <1>4, <1>5, <1>6, <1>7, <1>8, <1>9, <1>10, <1>11, <1>12
     DEF Next, Host, Task

\* The invariant of the asynchronous API.
LEMMA AsyncInvariance == Spec => [](IInv /\ TaskPerCall /\ CacheOwned)
<1>1. Init => IInv /\ TaskPerCall /\ CacheOwned
  <2> SUFFICES ASSUME Init PROVE IInv /\ TaskPerCall /\ CacheOwned
    OBVIOUS
  <2>1. IInv
    BY InitInv DEF Init
  <2>2. TaskPerCall
    BY DEF Init, ApiInit, TaskPerCall, Phases, InCall
  <2>3. CacheOwned
    BY DEF Init, ApiInit, CacheInit, CacheOwned
  <2>4. QED
    BY <2>1, <2>2, <2>3
<1>2. Spec => []IInv
  BY AsyncKeepsApi, Invariance, PTL
<1>3. QED
  BY <1>1, <1>2, TaskStep, OwnedStep, PTL DEF Spec

\* Every unfinished call has its task, every task its call.
THEOREM TasksMatch == Spec => []TaskPerCall
BY AsyncInvariance, PTL

\* No cache entry outlives the last of the client and its tasks.
THEOREM CacheLifetime == Spec => []CacheOwned
BY AsyncInvariance, PTL

-----------------------------------------------------------------------------
(* For the modules built on this one: the effect of each step on a call    *)
(* and its result.                                                         *)

\* What the steps of the C API do to the calls.
LEMMA CallEffects ==
  ASSUME IInv, TaskPerCall, NEW c \in Callers
  PROVE  /\ \A k \in Keys \cup {BadKey} : GetInvalid(c, k) \/ (k \in Keys /\ GetHit(c, k)) =>
               /\ UNCHANGED task
               /\ \E x \in Calls : call' = [call EXCEPT ![c] = x]
               /\ \E r \in Results \ {NoResult} : result' = [result EXCEPT ![c] = r]
         /\ Spawn(c) =>
               /\ UNCHANGED result /\ result[c] = NoResult
               /\ task' = [task EXCEPT ![c] = "queued"]
               /\ \E x \in Calls \ {NoCall} : call' = [call EXCEPT ![c] = x]
         /\ HandBack(c) =>
               /\ UNCHANGED task
               /\ result[c] # NoResult
               /\ call' = [call EXCEPT ![c] = NoCall]
               /\ result' = [result EXCEPT ![c] = NoResult]
<1> USE DEF Enter, Finish, asyncVars
<1>1. ASSUME NEW k \in Keys \cup {BadKey}, GetInvalid(c, k)
      PROVE  /\ UNCHANGED task
             /\ \E x \in Calls : call' = [call EXCEPT ![c] = x]
             /\ \E r \in Results \ {NoResult} : result' = [result EXCEPT ![c] = r]
  <2>1. Get(k) \in Calls /\ Error("InvalidInput") \in Results \ {NoResult}
    BY DEF Get, Error, Calls, Results, NoResult, Codes
  <2>2. QED
    BY <1>1, <2>1 DEF GetInvalid, Reject
<1>2. ASSUME NEW k \in Keys, GetHit(c, k)
      PROVE  /\ UNCHANGED task
             /\ \E x \in Calls : call' = [call EXCEPT ![c] = x]
             /\ \E r \in Results \ {NoResult} : result' = [result EXCEPT ![c] = r]
  <2>1. entry[k] \in Arcs
    BY <1>2 DEF GetHit, Hit, IInv, TypeOK, CacheTypeOK
  <2>2. Get(k) \in Calls /\ Success(entry[k]) \in Results \ {NoResult}
    BY <2>1 DEF Get, Success, Calls, Results, NoResult, Codes
  <2>3. QED
    BY <1>2, <2>2 DEF GetHit, Hit
<1>3. ASSUME Spawn(c)
      PROVE  /\ UNCHANGED result /\ result[c] = NoResult
             /\ task' = [task EXCEPT ![c] = "queued"]
             /\ \E x \in Calls \ {NoCall} : call' = [call EXCEPT ![c] = x]
  <2>1. \A k \in Keys : Get(k) \in Calls \ {NoCall}
    BY DEF Get, Calls, NoCall
  <2>2. \A k \in Keys, v \in Values : Set(k, v) \in Calls \ {NoCall}
    BY DEF Set, Calls, NoCall
  <2>3. call[c] = NoCall /\ UNCHANGED result
    BY <1>3 DEF Spawn, Miss, BeginSet
  <2>4. result[c] = NoResult
    BY <2>3 DEF IInv, Matched, NoCall
  <2>5. QED
    BY <1>3, <2>1, <2>2, <2>3, <2>4 DEF Spawn, Miss, BeginSet, Move
<1>4. ASSUME HandBack(c)
      PROVE  /\ UNCHANGED task
             /\ result[c] # NoResult
             /\ call' = [call EXCEPT ![c] = NoCall]
             /\ result' = [result EXCEPT ![c] = NoResult]
  BY <1>4 DEF HandBack, Release
<1>5. QED
  BY <1>1, <1>2, <1>3, <1>4

\* What a task does to its call.
LEMMA TaskEffects ==
  ASSUME IInv, TaskPerCall, NEW c \in Callers
  PROVE  /\ Start(c) =>
               /\ task[c] = "queued" /\ task' = [task EXCEPT ![c] = "waiting"]
               /\ UNCHANGED <<call, result>>
         /\ Deliver(c) =>
               /\ task[c] = "waiting" /\ task' = [task EXCEPT ![c] = "callback"]
               /\ result[c] = NoResult
               /\ \/ /\ call[c].op = "get" /\ UNCHANGED call
                     /\ \E r \in Results \ {NoResult} : result' = [result EXCEPT ![c] = r]
                  \/ /\ call[c].op = "set" /\ UNCHANGED result
                     /\ call' = [call EXCEPT ![c] = NoCall]
         /\ CallbackReturns(c) =>
               /\ task' = [task EXCEPT ![c] = "none"]
               /\ UNCHANGED <<call, result>>
<1> USE DEF Move
<1>1. ASSUME Deliver(c)
      PROVE  \/ /\ call[c].op = "get" /\ UNCHANGED call
                /\ \E r \in Results \ {NoResult} : result' = [result EXCEPT ![c] = r]
             \/ /\ call[c].op = "set" /\ UNCHANGED result
                /\ call' = [call EXCEPT ![c] = NoCall]
  <2>1. ASSUME NEW a \in Arcs, GetFilled(c, a)
        PROVE  /\ call[c].op = "get" /\ UNCHANGED call
               /\ \E r \in Results \ {NoResult} : result' = [result EXCEPT ![c] = r]
    <3>1. Success(a) \in Results \ {NoResult}
      BY DEF Success, Results, NoResult, Codes
    <3>2. QED
      BY <2>1, <3>1 DEF GetFilled, Finish
  <2>2. ASSUME GetFailed(c)
        PROVE  /\ call[c].op = "get" /\ UNCHANGED call
               /\ \E r \in Results \ {NoResult} : result' = [result EXCEPT ![c] = r]
    <3>1. Error(GetCode(wire[c])) \in Results \ {NoResult}
      BY DEF Error, GetCode, Results, NoResult, Codes
    <3>2. QED
      BY <2>2, <3>1 DEF GetFailed, Finish
  <2>3. ASSUME (\E a \in Arcs : SetStored(c, a)) \/ SetFailed(c)
        PROVE  /\ call[c].op = "set" /\ UNCHANGED result
               /\ call' = [call EXCEPT ![c] = NoCall]
    BY <2>3 DEF SetStored, SetFailed
  <2>4. QED
    BY <1>1, <2>1, <2>2, <2>3 DEF Deliver, Return
<1>2. ASSUME Deliver(c)
      PROVE  /\ task[c] = "waiting" /\ task' = [task EXCEPT ![c] = "callback"]
             /\ result[c] = NoResult
  BY <1>2 DEF Deliver, TaskPerCall, InCall
<1>3. Start(c) =>
         /\ task[c] = "queued" /\ task' = [task EXCEPT ![c] = "waiting"]
         /\ UNCHANGED <<call, result>>
  BY DEF Start, SendRequest
<1>4. CallbackReturns(c) =>
         /\ task' = [task EXCEPT ![c] = "none"]
         /\ UNCHANGED <<call, result>>
  BY DEF CallbackReturns
<1>5. QED
  BY <1>1, <1>2, <1>3, <1>4
=============================================================================
