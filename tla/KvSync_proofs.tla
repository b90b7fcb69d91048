--------------------------- MODULE KvSync_proofs ----------------------------
(***************************************************************************)
(* KvSync implements KvApi, and a client that is gone leaves nothing.      *)
(***************************************************************************)
EXTENDS KvSync, KvCoherence_proofs

\* A step of a thread or of the client is one step of the common API.
LEMMA SyncStep == [Next]_vars => [ApiNext]_apiVars
<1> SUFFICES ASSUME Next PROVE ApiNext \/ UNCHANGED apiVars
  BY DEF vars
<1>1. CASE Open
  BY <1>1 DEF Open
<1>2. CASE Destroy \/ CacheClear
  <2>1. Remove(Keys) /\ UNCHANGED <<httpVars, call, result>>
    BY <1>2 DEF Destroy, CacheClear, Clear
  <2>2. QED
    BY <2>1 DEF ApiNext, Purge
<1>3. ASSUME NEW c \in Callers, Thread(c) PROVE ApiNext
  BY <1>3 DEF Thread, GetInvalid, GetOrSet, Ask, Resume, HandBack, ApiNext
<1>4. CASE Network
  BY <1>4 DEF Network, ApiNext
<1>5. CASE Moka
  <2>1. CASE \E k \in Keys : Evict(k)
    <3> PICK k \in Keys : Remove({k})
      BY <2>1 DEF Evict
    <3>1. Remove({k}) /\ UNCHANGED <<httpVars, call, result>> /\ {k} \in SUBSET Keys
      BY <1>5 DEF Moka
    <3>2. QED
      BY <3>1 DEF ApiNext, Purge
  <2>2. CASE \E a \in Arcs : Reclaim(a)
    BY <1>5, <2>2 DEF Moka, ApiNext
  <2>3. QED
    BY <1>5, <2>1, <2>2 DEF Moka, CacheStep
<1>6. QED
  BY <1>1, <1>2, <1>3, <1>4, <1>5 DEF Next

\* The synchronous API implements the common one: no thread calls in, asks
\* the server or touches the cache in any other way, whenever the client is
\* opened, cleared and destroyed.
THEOREM SyncKeepsApi == Spec => ApiSpec
<1>1. Init => ApiInit
  BY DEF Init
<1>2. QED
  BY <1>1, SyncStep, PTL DEF Spec, ApiSpec

\* Its reference counts are exact.
THEOREM SyncCounts == Spec => []ArcCount
BY SyncKeepsApi, CountsExact, PTL

\* It keeps its promise to the holder of a result.
THEOREM SyncLoans == Spec => LoansKept
BY SyncKeepsApi, LoansImplemented, PTL

\* Its cache is coherent, through opening, clearing and destroying clients,
\* and its gets return the server's values, but for the two races.
THEOREM SyncCoherent == Spec /\ Watched => []Coherent /\ GetsCurrent
BY SyncKeepsApi, WatchedCoherent, PTL

-----------------------------------------------------------------------------

\* Without a client nothing can be found in the cache, and no thread is in
\* the library.
Closed ==
    /\ client \in {"null", "open", "destroyed"}
    /\ client # "open" =>
          /\ \A k \in Keys : entry[k] = NoArc
          /\ \A c \in Callers : ~InCall(c)

\* Destroy empties the cache when no thread is in the library, and without a
\* client none gets further than GetInvalid.
LEMMA ClosedStep == IInv /\ Closed /\ [Next]_vars => Closed'
<1> SUFFICES ASSUME IInv, Closed, [Next]_vars PROVE Closed'
  OBVIOUS
<1> USE ApiAssumption, CacheAssumption
    DEF IInv, TypeOK, CacheTypeOK, Calls, Results, NoCall, NoResult, Closed, InCall
<1>1. CASE Open
  BY <1>1 DEF Open
<1>2. CASE Destroy
  BY <1>2 DEF Destroy, Clear, Remove
<1>3. CASE CacheClear
  BY <1>3 DEF CacheClear, Clear, Remove
<1>4. ASSUME NEW c \in Callers, NEW k \in Keys \cup {BadKey}, GetInvalid(c, k)
      PROVE  Closed'
  BY <1>4 DEF GetInvalid, Reject, Enter, Finish, Get, Error, cacheVars
<1>5. ASSUME NEW c \in Callers, GetOrSet(c) PROVE Closed'
  BY <1>5 DEF GetOrSet
<1>6. ASSUME NEW c \in Callers, Ask(c) \/ Resume(c) PROVE Closed'
  <2>1. InCall(c)
    BY <1>6 DEF Ask, SendRequest, Resume, Return, GetFilled, SetStored, GetFailed, SetFailed,
                Receive, Matched, Silent
  <2>2. client = "open" /\ client' = client
    BY <1>6, <2>1 DEF Ask, Resume
  <2>3. QED
    BY <2>2
<1>7. ASSUME NEW c \in Callers, HandBack(c) PROVE Closed'
  BY <1>7 DEF HandBack, Release, Finish
<1>8. CASE Network
  BY <1>8 DEF Network, cacheVars
<1>9. CASE Moka
  BY <1>9 DEF Moka, CacheStep, Evict, Remove, Reclaim
<1>10. CASE UNCHANGED vars
  BY <1>10 DEF vars, apiVars
<1>11. QED
  BY <1>1, <1>2, <1>3, <1>4, <1>5, <1>6, <1>7, <1>8, <1>9, <1>10 DEF Next, Thread

\* What holds in every state of the synchronous API.
LEMMA SyncInvariance == Spec => [](IInv /\ Closed)
<1>1. Init => Closed
  BY DEF Init, Closed, ApiInit, CacheInit, InCall
<1>2. Spec => []IInv
  BY SyncKeepsApi, Invariance, PTL
<1>3. QED
  BY <1>1, <1>2, ClosedStep, PTL DEF Spec

\* A destroyed client leaves no entry, no open exchange and no reference but
\* those of the results that are out.
THEOREM DestroyComplete == Spec => []NothingLeft
<1>1. IInv /\ Closed => NothingLeft
  <2> SUFFICES ASSUME IInv, Closed, client # "open" PROVE NothingLeft
    BY DEF NothingLeft
  <2>1. \A k \in Keys : entry[k] = NoArc
    BY DEF Closed
  <2>2. \A c \in Callers : wire[c] = Silent /\ ~InCall(c)
    BY DEF Closed, IInv, Matched
  <2>3. ASSUME NEW a \in Arcs \ retired PROVE strong[a] = Cardinality(Holders(a))
    BY <2>1, <2>3, EmptyCache, HoldersFinite
  <2>4. QED
    BY <2>1, <2>2, <2>3 DEF NothingLeft
<1>2. QED
  BY <1>1, SyncInvariance, PTL

-----------------------------------------------------------------------------
(* For the modules built on this one: the effect of each step on a call    *)
(* and its result.                                                         *)

\* What ownership needs to know of the calls of KvSync: which of a caller's
\* call and result they touch.
LEMMA CallEffects ==
  ASSUME IInv, NEW c \in Callers
  PROVE  /\ \A k \in Keys \cup {BadKey} : GetInvalid(c, k) =>
               /\ call[c] = NoCall /\ UNCHANGED client
               /\ call' = [call EXCEPT ![c] = Get(k)]
               /\ result' = [result EXCEPT ![c] = Error("InvalidInput")]
         /\ GetOrSet(c) =>
               /\ call[c] = NoCall /\ client = "open" /\ UNCHANGED client
               /\ \E x \in Calls \ {NoCall} : call' = [call EXCEPT ![c] = x]
               /\ \/ UNCHANGED result
                  \/ \E a \in Arcs : result' = [result EXCEPT ![c] = Success(a)]
         /\ HandBack(c) =>
               /\ result[c] # NoResult /\ UNCHANGED client
               /\ call' = [call EXCEPT ![c] = NoCall]
               /\ result' = [result EXCEPT ![c] = NoResult]
<1> USE DEF Enter, Finish
<1>1. ASSUME NEW k \in Keys \cup {BadKey}, GetInvalid(c, k)
      PROVE  /\ call[c] = NoCall /\ UNCHANGED client
             /\ call' = [call EXCEPT ![c] = Get(k)]
             /\ result' = [result EXCEPT ![c] = Error("InvalidInput")]
  BY <1>1 DEF GetInvalid, Reject
<1>2. ASSUME GetOrSet(c)
      PROVE  /\ call[c] = NoCall /\ client = "open" /\ UNCHANGED client
             /\ \E x \in Calls \ {NoCall} : call' = [call EXCEPT ![c] = x]
             /\ \/ UNCHANGED result
                \/ \E a \in Arcs : result' = [result EXCEPT ![c] = Success(a)]
  <2>1. ASSUME NEW k \in Keys PROVE Get(k) \in Calls \ {NoCall}
    BY DEF Get, Calls, NoCall
  <2>2. ASSUME NEW k \in Keys, NEW v \in Values PROVE Set(k, v) \in Calls \ {NoCall}
    BY DEF Set, Calls, NoCall
  <2>3. ASSUME NEW k \in Keys, Hit(c, k)
        PROVE  /\ call[c] = NoCall
               /\ \E x \in Calls \ {NoCall} : call' = [call EXCEPT ![c] = x]
               /\ \E a \in Arcs : result' = [result EXCEPT ![c] = Success(a)]
    BY <2>1, <2>3 DEF Hit, IInv, TypeOK, CacheTypeOK
  <2>4. ASSUME NEW k \in Keys, Miss(c, k)
        PROVE  /\ call[c] = NoCall /\ UNCHANGED result
               /\ \E x \in Calls \ {NoCall} : call' = [call EXCEPT ![c] = x]
    BY <2>1, <2>4 DEF Miss
  <2>5. ASSUME NEW k \in Keys, NEW v \in Values, BeginSet(c, k, v)
        PROVE  /\ call[c] = NoCall /\ UNCHANGED result
               /\ \E x \in Calls \ {NoCall} : call' = [call EXCEPT ![c] = x]
    BY <2>2, <2>5 DEF BeginSet
  <2>6. QED
    BY <1>2, <2>3, <2>4, <2>5 DEF GetOrSet
<1>3. ASSUME HandBack(c)
      PROVE  /\ result[c] # NoResult /\ UNCHANGED client
             /\ call' = [call EXCEPT ![c] = NoCall]
             /\ result' = [result EXCEPT ![c] = NoResult]
  BY <1>3 DEF HandBack, Release
<1>4. QED
  BY <1>1, <1>2, <1>3

\* The same of a call that is running.
LEMMA RunEffects ==
  ASSUME IInv, NEW c \in Callers
  PROVE  /\ Ask(c) => UNCHANGED <<call, result, client>>
         /\ Resume(c) =>
               /\ InCall(c) /\ UNCHANGED client
               /\ \/ /\ call[c].op = "get" /\ UNCHANGED call
                     /\ \E r \in Results \ {NoResult} : result' = [result EXCEPT ![c] = r]
                  \/ /\ call[c].op = "set" /\ UNCHANGED result
                     /\ call' = [call EXCEPT ![c] = NoCall]
<1>1. Ask(c) => UNCHANGED <<call, result, client>>
  BY DEF Ask, SendRequest
<1>2. Resume(c) => InCall(c) /\ UNCHANGED client
  BY DEF Resume, Return, GetFilled, GetFailed, SetStored, SetFailed, Receive, Silent,
         IInv, Matched
<1>3. ASSUME NEW a \in Arcs, GetFilled(c, a)
      PROVE  /\ call[c].op = "get" /\ UNCHANGED call
             /\ \E r \in Results \ {NoResult} : result' = [result EXCEPT ![c] = r]
  <2>1. Success(a) \in Results \ {NoResult}
    BY DEF Success, Results, NoResult, Codes
  <2>2. QED
    BY <1>3, <2>1 DEF GetFilled, Finish
<1>4. ASSUME GetFailed(c)
      PROVE  /\ call[c].op = "get" /\ UNCHANGED call
             /\ \E r \in Results \ {NoResult} : result' = [result EXCEPT ![c] = r]
  <2>1. Error(GetCode(wire[c])) \in Results \ {NoResult}
    BY DEF Error, GetCode, Results, NoResult, Codes
  <2>2. QED
    BY <1>4, <2>1 DEF GetFailed, Finish
<1>5. ASSUME (\E a \in Arcs : SetStored(c, a)) \/ SetFailed(c)
      PROVE  /\ call[c].op = "set" /\ UNCHANGED result
             /\ call' = [call EXCEPT ![c] = NoCall]
  BY <1>5 DEF SetStored, SetFailed
<1>6. QED
  BY <1>1, <1>2, <1>3, <1>4, <1>5 DEF Resume, Return
=============================================================================
