--------------------------- MODULE KvApi_proofs -----------------------------
(***************************************************************************)
(* Proofs about KvApi, for any keys, values, callers and blocks.           *)
(***************************************************************************)
EXTENDS KvApi, FiniteSetTheorems, TLAPS

\* The inductive invariant.  The counts of ArcCount stay natural numbers
\* only because no result is released twice (Matched), no block is retired
\* twice (SoleOwner), and a body that goes into the cache is a value only
\* because it is one of the key's (NoCrossTalk): no part is inductive alone.
IInv == TypeOK /\ ArcCount /\ SoleOwner /\ Matched /\ NoCrossTalk

\* ApiInit is a state of the invariant.
LEMMA InitInv == ApiInit => IInv
<1> SUFFICES ASSUME ApiInit PROVE IInv
  OBVIOUS
<1> USE DomainAssumption, HttpAssumption, CacheAssumption, ApiAssumption
    DEF ApiInit, HttpInit, CacheInit
<1>1. TypeOK
  BY DEF TypeOK, HttpTypeOK, CacheTypeOK, Calls, Results, NoCall, NoResult
<1>2. ArcCount
  <2>1. \A a \in Arcs : Holders(a) = {} /\ ~CacheOwns(a)
    BY DEF Holders, Holds, CacheOwns, NoResult
  <2>2. \A a \in Arcs : strong[a] = 0
    OBVIOUS
  <2>3. Cardinality({}) = 0
    BY FS_EmptySet
  <2>4. ASSUME NEW a \in Arcs PROVE Counted(a)
    <3>1. Cardinality(Holders(a)) = 0
      BY <2>1, <2>3
    <3>2. (IF CacheOwns(a) THEN 1 ELSE 0) = 0
      BY <2>1
    <3>3. QED
      BY <2>2, <3>1, <3>2 DEF Counted
  <2>5. QED
    BY <2>4 DEF ArcCount
<1>3. SoleOwner
  BY DEF SoleOwner
<1>4. Matched
  BY DEF Matched, InCall, Silent, NoCall, NoResult
<1>5. NoCrossTalk
  BY DEF NoCrossTalk, Silent, NoCall, NoResult
<1>6. QED
  BY <1>1, <1>2, <1>3, <1>4, <1>5 DEF IInv

-----------------------------------------------------------------------------
(* The steps, one by one *)

\* A GetFilled or SetStored takes a block nobody owns.
LEMMA FreeBlock ==
    ASSUME IInv, NEW a \in Arcs, strong[a] = 0
    PROVE  /\ \A k \in Keys : entry[k] # a
           /\ a \notin retired
           /\ \A c \in Callers : result[c].arc # a
<1>1. strong[a] = Cardinality(Holders(a)) + (IF CacheOwns(a) THEN 1 ELSE 0)
  BY DEF IInv, ArcCount, Counted
<1>2. IsFiniteSet(Holders(a)) /\ Cardinality(Holders(a)) \in Nat
  BY FS_Subset, FS_CardinalityType, DomainAssumption DEF Holders
<1>3. ~CacheOwns(a)
  BY <1>1, <1>2
<1>4. Holders(a) = {}
  BY <1>1, <1>2, <1>3, FS_EmptySet
<1>5. QED
  BY <1>3, <1>4, CacheAssumption DEF CacheOwns, Holders, Holds

\* A block that moka or a caller still owns has a positive count.
LEMMA OwnedBlock ==
    ASSUME IInv, NEW a \in Arcs, CacheOwns(a) \/ \E c \in Callers : result[c].arc = a
    PROVE  strong[a] \in Nat /\ strong[a] > 0
<1>1. strong[a] = Cardinality(Holders(a)) + (IF CacheOwns(a) THEN 1 ELSE 0)
  BY DEF IInv, ArcCount, Counted
<1>2. IsFiniteSet(Holders(a)) /\ Cardinality(Holders(a)) \in Nat
  BY FS_Subset, FS_CardinalityType, DomainAssumption DEF Holders
<1>3. CASE CacheOwns(a)
  BY <1>1, <1>2, <1>3
<1>4. CASE ~CacheOwns(a) /\ \E c \in Callers : result[c].arc = a
  <2>1. Holders(a) # {}
    BY <1>4, CacheAssumption DEF Holders, Holds
  <2>2. Cardinality(Holders(a)) # 0
    BY <1>2, <2>1, FS_EmptySet
  <2>3. QED
    BY <1>1, <1>2, <2>2, <1>4
<1>5. QED
  BY <1>3, <1>4

\* The last reference to a block is moka's: no result has it.
LEMMA LastIsCaches ==
    ASSUME IInv, NEW a \in Arcs, CacheOwns(a), strong[a] = 1
    PROVE  \A c \in Callers : result[c].arc # a
<1>1. strong[a] = Cardinality(Holders(a)) + (IF CacheOwns(a) THEN 1 ELSE 0)
  BY DEF IInv, ArcCount, Counted
<1>2. IsFiniteSet(Holders(a)) /\ Cardinality(Holders(a)) \in Nat
  BY FS_Subset, FS_CardinalityType, DomainAssumption DEF Holders
<1>3. Cardinality(Holders(a)) = 0
  BY <1>1, <1>2
<1>4. QED
  BY <1>2, <1>3, FS_EmptySet, CacheAssumption DEF Holders, Holds

\* The last reference to a block is a caller's: no other result and no part
\* of the cache has it.
LEMMA LastIsCallers ==
    ASSUME IInv, NEW c \in Callers, NEW a \in Arcs, result[c].arc = a, strong[a] = 1
    PROVE  ~CacheOwns(a) /\ \A d \in Callers : result[d].arc = a => d = c
<1>1. strong[a] = Cardinality(Holders(a)) + (IF CacheOwns(a) THEN 1 ELSE 0)
  BY DEF IInv, ArcCount, Counted
<1>2. IsFiniteSet(Holders(a)) /\ Cardinality(Holders(a)) \in Nat
  BY FS_Subset, FS_CardinalityType, DomainAssumption DEF Holders
<1>3. c \in Holders(a)
  BY CacheAssumption DEF Holders, Holds
<1>4. /\ IsFiniteSet(Holders(a) \ {c})
      /\ Cardinality(Holders(a) \ {c}) = Cardinality(Holders(a)) - 1
      /\ Cardinality(Holders(a) \ {c}) \in Nat
  BY <1>2, <1>3, FS_RemoveElement, FS_CardinalityType
<1>5. ~CacheOwns(a)
  BY <1>1, <1>2, <1>4
<1>6. Holders(a) \ {c} = {}
  <2>1. Cardinality(Holders(a)) = 1
    BY <1>1, <1>2, <1>5
  <2>2. Cardinality(Holders(a) \ {c}) = 0
    BY <1>4, <2>1
  <2>3. QED
    BY <1>4, <2>2, FS_EmptySet
<1>7. QED
  BY <1>5, <1>6, CacheAssumption DEF Holders, Holds

\* The network, the server and other HTTP users keep their part well typed.
LEMMA HttpTypeStep == HttpTypeOK /\ HttpStep => HttpTypeOK'
<1> SUFFICES ASSUME HttpTypeOK, HttpStep PROVE HttpTypeOK'
  OBVIOUS
<1> USE DomainAssumption, HttpAssumption
    DEF HttpTypeOK, Requests, Replies, Statuses, Silent, Reply, Answer, Pending
<1>1. ASSUME NEW c \in Callers, ServeGet(c) PROVE HttpTypeOK'
  BY <1>1 DEF ServeGet
<1>2. ASSUME NEW c \in Callers, ServePut(c) PROVE HttpTypeOK'
  BY <1>2 DEF ServePut
<1>3. ASSUME NEW c \in Callers, Refuse(c) PROVE HttpTypeOK'
  BY <1>3 DEF Refuse
<1>4. ASSUME NEW c \in Callers, Garble(c) PROVE HttpTypeOK'
  BY <1>4 DEF Garble
<1>5. ASSUME NEW c \in Callers, LoseReply(c) PROVE HttpTypeOK'
  BY <1>5 DEF LoseReply
<1>6. ASSUME NEW c \in Callers, Timeout(c) PROVE HttpTypeOK'
  BY <1>6 DEF Timeout
<1>7. ASSUME NEW s \in Strays, ServeLate(s) PROVE HttpTypeOK'
  BY <1>7 DEF ServeLate
<1>8. ASSUME NEW k \in Keys, NEW v \in Values, ForeignPut(k, v) PROVE HttpTypeOK'
  BY <1>8 DEF ForeignPut
<1>9. ASSUME NEW k \in Keys, ForeignDelete(k) PROVE HttpTypeOK'
  BY <1>9 DEF ForeignDelete
<1>10. CASE Restart
  BY <1>10 DEF Restart
<1>11. QED
  BY <1>1, <1>2, <1>3, <1>4, <1>5, <1>6, <1>7, <1>8, <1>9, <1>10 DEF HttpStep

\* Type correctness is preserved.
LEMMA TypeStep == IInv /\ [ApiNext]_apiVars => TypeOK'
<1> SUFFICES ASSUME IInv, [ApiNext]_apiVars PROVE TypeOK'
  OBVIOUS
<1> USE DomainAssumption, HttpAssumption, CacheAssumption
    DEF IInv, TypeOK, HttpTypeOK, CacheTypeOK, Calls, Results, Requests, Replies, Statuses,
        Silent, NoCall, NoResult, httpVars, cacheVars
<1>1. ASSUME NEW c \in Callers, NEW k \in Keys \cup {BadKey}, Reject(c, k)
      PROVE  TypeOK'
  BY <1>1 DEF Reject, Enter, Finish, Get, Error, Codes
<1>2. ASSUME NEW c \in Callers, NEW k \in Keys, Hit(c, k)
      PROVE  TypeOK'
  BY <1>2 DEF Hit, Enter, Finish, Get, Success, Clone, Codes
<1>3. ASSUME NEW c \in Callers, NEW k \in Keys, Miss(c, k)
      PROVE  TypeOK'
  BY <1>3 DEF Miss, Enter, Get
<1>4. ASSUME NEW c \in Callers, NEW k \in Keys, NEW v \in Values, BeginSet(c, k, v)
      PROVE  TypeOK'
  BY <1>4 DEF BeginSet, Enter, Set
<1>5. ASSUME NEW c \in Callers, SendRequest(c)
      PROVE  TypeOK'
  <2>1. call[c].key \in Keys
    BY <1>5 DEF SendRequest, Matched, InCall
  <2>2. RequestOf(call[c]) \in Requests
    BY <1>5, <2>1 DEF SendRequest, InCall, RequestOf, GetRequest, PutRequest
  <2>3. QED
    BY <1>5, <2>2 DEF SendRequest, Send
<1>6. ASSUME NEW c \in Callers, NEW a \in Arcs, GetFilled(c, a)
      PROVE  TypeOK'
  <2>1. wire[c].phase = "reply" /\ wire[c].status = "200" /\ call[c].op = "get"
    BY <1>6 DEF GetFilled, Receive, GetCode
  <2>2. call[c].key \in Keys
    BY <2>1 DEF Matched
  <2>3. wire[c].body \in Values
    BY <2>1, <2>2 DEF NoCrossTalk
  <2>4. HttpTypeOK'
    BY <1>6 DEF GetFilled, Receive
  <2>5. CacheTypeOK'
    BY <1>6, <2>2, <2>3 DEF GetFilled, Insert, Allocate, ArcsAt
  <2>6. QED
    BY <1>6, <2>4, <2>5 DEF GetFilled, Finish, Success, Codes
<1>7. ASSUME NEW c \in Callers, NEW a \in Arcs, SetStored(c, a)
      PROVE  TypeOK'
  <2>1. call[c].value \in Values /\ call[c].key \in Keys
    BY <1>7 DEF SetStored
  <2>2. HttpTypeOK'
    BY <1>7 DEF SetStored, Receive
  <2>3. CacheTypeOK'
    BY <1>7, <2>1 DEF SetStored, Insert, Allocate, ArcsAt
  <2>4. QED
    BY <1>7, <2>2, <2>3 DEF SetStored
<1>8. ASSUME NEW c \in Callers, GetFailed(c)
      PROVE  TypeOK'
  BY <1>8 DEF GetFailed, Receive, Finish, Error, GetCode, Codes
<1>9. ASSUME NEW c \in Callers, SetFailed(c)
      PROVE  TypeOK'
  BY <1>9 DEF SetFailed, Receive, Invalidate, Remove, ArcsAt
<1>10. ASSUME NEW c \in Callers, Release(c)
      PROVE  TypeOK'
  <2>1. CASE result[c].arc = NoArc
    BY <1>10, <2>1 DEF Release, Finish
  <2>2. CASE result[c].arc # NoArc
    <3>1. result[c].arc \in Arcs
      BY <2>2
    <3>2. strong[result[c].arc] \in Nat /\ strong[result[c].arc] > 0
      <4> DEFINE a == result[c].arc
      <4>1. a \in Arcs /\ \E d \in Callers : result[d].arc = a
        BY <1>10, <3>1
      <4>2. QED
        BY <4>1, OwnedBlock
    <3>3. strong' \in [Arcs -> Nat] /\ text' \in [Arcs -> Values \cup {Freed}]
      <4>1. Drop(result[c].arc)
        BY <1>10, <2>2 DEF Release
      <4>2. QED
        BY <3>1, <3>2, <4>1 DEF Drop
    <3>4. result' \in [Callers -> Results] /\ call' \in [Callers -> Calls]
      BY <1>10 DEF Release, Finish
    <3>5. QED
      BY <1>10, <3>3, <3>4 DEF Release
  <2>3. QED
    BY <2>1, <2>2
<1>11. CASE HttpStep /\ UNCHANGED <<cacheVars, call, result>>
  BY <1>11, HttpTypeStep DEF cacheVars
<1>12. ASSUME NEW K \in SUBSET Keys, Remove(K), UNCHANGED <<httpVars, call, result>>
      PROVE  TypeOK'
  BY <1>12 DEF Remove, ArcsAt
<1>13. ASSUME NEW a \in Arcs, Reclaim(a), UNCHANGED <<httpVars, call, result>>
      PROVE  TypeOK'
  <2>1. strong[a] - 1 \in Nat
    BY <1>13, OwnedBlock DEF Reclaim, CacheOwns
  <2>2. QED
    BY <1>13, <2>1 DEF Reclaim, Drop
<1>14. CASE UNCHANGED apiVars
  BY <1>14 DEF apiVars
<1>15. QED
  BY <1>1, <1>2, <1>3, <1>4, <1>5, <1>6, <1>7, <1>8,
     <1>9, <1>10, <1>11, <1>12, <1>13, <1>14
     DEF ApiNext, Return, Purge

\* An answer, a refusal or a failure ends the request of the same call.
LEMMA MatchedHttpStep ==
    IInv /\ HttpStep /\ UNCHANGED <<cacheVars, call, result>> => Matched'
<1> SUFFICES ASSUME IInv, HttpStep, UNCHANGED <<call, result>> PROVE Matched'
  BY DEF cacheVars
<1> USE DEF IInv, Matched, InCall, TypeOK, HttpTypeOK, Requests, Replies, Silent, Reply, Answer,
        Pending
<1>1. ASSUME NEW c \in Callers, ServeGet(c) PROVE Matched'
  BY <1>1 DEF ServeGet
<1>2. ASSUME NEW c \in Callers, ServePut(c) PROVE Matched'
  BY <1>2 DEF ServePut
<1>3. ASSUME NEW c \in Callers, Refuse(c) PROVE Matched'
  BY <1>3 DEF Refuse
<1>4. ASSUME NEW c \in Callers, Garble(c) PROVE Matched'
  BY <1>4 DEF Garble
<1>5. ASSUME NEW c \in Callers, LoseReply(c) PROVE Matched'
  BY <1>5 DEF LoseReply
<1>6. ASSUME NEW c \in Callers, Timeout(c) PROVE Matched'
  BY <1>6 DEF Timeout
<1>7. CASE UNCHANGED wire
  BY <1>7 DEF RequestOf
<1>8. QED
  BY <1>1, <1>2, <1>3, <1>4, <1>5, <1>6, <1>7
     DEF HttpStep, ServeLate, ForeignPut, ForeignDelete, Restart

\* Calls, exchanges and results stay matched.
LEMMA MatchedStep == IInv /\ [ApiNext]_apiVars => Matched'
<1> SUFFICES ASSUME IInv, [ApiNext]_apiVars PROVE Matched'
  OBVIOUS
<1> USE ApiAssumption, CacheAssumption
    DEF IInv, Matched, InCall, RequestOf, TypeOK, HttpTypeOK, CacheTypeOK, Requests, Replies,
        Silent, NoCall, NoResult, Calls, Results, httpVars, cacheVars
<1>1. ASSUME NEW c \in Callers, NEW k \in Keys \cup {BadKey}, Reject(c, k)
      PROVE  Matched'
  BY <1>1 DEF Reject, Enter, Finish, Get, Error
<1>2. ASSUME NEW c \in Callers, NEW k \in Keys, Hit(c, k)
      PROVE  Matched'
  BY <1>2 DEF Hit, Enter, Finish, Get, Success
<1>3. ASSUME NEW c \in Callers, NEW k \in Keys, Miss(c, k)
      PROVE  Matched'
  BY <1>3 DEF Miss, Enter, Get
<1>4. ASSUME NEW c \in Callers, NEW k \in Keys, NEW v \in Values, BeginSet(c, k, v)
      PROVE  Matched'
  BY <1>4 DEF BeginSet, Enter, Set
<1>5. ASSUME NEW c \in Callers, SendRequest(c)
      PROVE  Matched'
  BY <1>5 DEF SendRequest, Send, GetRequest, PutRequest
<1>6. ASSUME NEW c \in Callers, NEW a \in Arcs, GetFilled(c, a)
      PROVE  Matched'
  BY <1>6 DEF GetFilled, Receive, Insert, Finish, Success
<1>7. ASSUME NEW c \in Callers, NEW a \in Arcs, SetStored(c, a)
      PROVE  Matched'
  BY <1>7 DEF SetStored, Receive, Insert
<1>8. ASSUME NEW c \in Callers, GetFailed(c)
      PROVE  Matched'
  BY <1>8 DEF GetFailed, Receive, Finish, Error, GetCode
<1>9. ASSUME NEW c \in Callers, SetFailed(c)
      PROVE  Matched'
  BY <1>9 DEF SetFailed, Receive, Invalidate, Remove
<1>10. ASSUME NEW c \in Callers, Release(c)
      PROVE  Matched'
  BY <1>10 DEF Release, Finish
<1>11. CASE HttpStep /\ UNCHANGED <<cacheVars, call, result>>
  BY <1>11, MatchedHttpStep
<1>12. ASSUME NEW K \in SUBSET Keys, Remove(K), UNCHANGED <<httpVars, call, result>>
      PROVE  Matched'
  BY <1>12 DEF Remove
<1>13. ASSUME NEW a \in Arcs, Reclaim(a), UNCHANGED <<httpVars, call, result>>
      PROVE  Matched'
  BY <1>13 DEF Reclaim, Drop
<1>14. CASE UNCHANGED apiVars
  BY <1>14 DEF apiVars
<1>15. QED
  BY <1>1, <1>2, <1>3, <1>4, <1>5, <1>6, <1>7, <1>8,
     <1>9, <1>10, <1>11, <1>12, <1>13, <1>14
     DEF ApiNext, Return, Purge

\* An insert of a block nobody owns keeps the owners apart.
LEMMA InsertSole ==
    ASSUME IInv, NEW k \in Keys, NEW a \in Arcs, NEW v, NEW refs, Insert(k, v, a, refs)
    PROVE  SoleOwner'
<1>1. \A x \in Keys : entry[x] # a /\ a \notin retired
  BY FreeBlock DEF Insert, Allocate
<1>2. entry' = [entry EXCEPT ![k] = a] /\ retired' = retired \cup ({entry[k]} \ {NoArc})
  BY DEF Insert, ArcsAt
<1>3. QED
  BY <1>1, <1>2, CacheAssumption DEF SoleOwner, IInv, TypeOK, CacheTypeOK

\* A removal moves a block from its entry to the retired ones, and an insert
\* uses a block nobody owns, so no block is owned twice by the cache.
LEMMA SoleOwnerStep == IInv /\ [ApiNext]_apiVars => SoleOwner'
<1> SUFFICES ASSUME IInv, [ApiNext]_apiVars PROVE SoleOwner'
  OBVIOUS
<1> USE CacheAssumption DEF SoleOwner, IInv, TypeOK, CacheTypeOK, cacheVars
<1>1. ASSUME NEW c \in Callers, NEW k \in Keys \cup {BadKey}, Reject(c, k)
      PROVE  SoleOwner'
  BY <1>1 DEF Reject
<1>2. ASSUME NEW c \in Callers, NEW k \in Keys, Hit(c, k)
      PROVE  SoleOwner'
  BY <1>2 DEF Hit
<1>3. ASSUME NEW c \in Callers, NEW k \in Keys, Miss(c, k)
      PROVE  SoleOwner'
  BY <1>3 DEF Miss
<1>4. ASSUME NEW c \in Callers, NEW k \in Keys, NEW v \in Values, BeginSet(c, k, v)
      PROVE  SoleOwner'
  BY <1>4 DEF BeginSet
<1>5. ASSUME NEW c \in Callers, SendRequest(c)
      PROVE  SoleOwner'
  BY <1>5 DEF SendRequest
<1>6. ASSUME NEW c \in Callers, NEW a \in Arcs, GetFilled(c, a)
      PROVE  SoleOwner'
  <2>1. call[c].key \in Keys
    BY <1>6 DEF GetFilled, Receive, Matched, Silent
  <2>2. QED
    BY <1>6, <2>1, InsertSole DEF GetFilled
<1>7. ASSUME NEW c \in Callers, NEW a \in Arcs, SetStored(c, a)
      PROVE  SoleOwner'
  <2>1. call[c].key \in Keys
    BY <1>7 DEF SetStored, Receive, Matched, Silent
  <2>2. QED
    BY <1>7, <2>1, InsertSole DEF SetStored
<1>8. ASSUME NEW c \in Callers, GetFailed(c)
      PROVE  SoleOwner'
  BY <1>8 DEF GetFailed
<1>9. ASSUME NEW c \in Callers, SetFailed(c)
      PROVE  SoleOwner'
  <2>1. call[c].key \in Keys
    BY <1>9 DEF SetFailed, Receive, Matched, Silent
  <2>2. QED
    BY <1>9, <2>1 DEF SetFailed, Invalidate, Remove, ArcsAt
<1>10. ASSUME NEW c \in Callers, Release(c)
      PROVE  SoleOwner'
  BY <1>10 DEF Release
<1>11. CASE HttpStep /\ UNCHANGED <<cacheVars, call, result>>
  BY <1>11 DEF cacheVars
<1>12. ASSUME NEW K \in SUBSET Keys, Remove(K), UNCHANGED <<httpVars, call, result>>
      PROVE  SoleOwner'
  BY <1>12 DEF Remove, ArcsAt
<1>13. ASSUME NEW a \in Arcs, Reclaim(a), UNCHANGED <<httpVars, call, result>>
      PROVE  SoleOwner'
  BY <1>13 DEF Reclaim
<1>14. CASE UNCHANGED apiVars
  BY <1>14 DEF apiVars
<1>15. QED
  BY <1>1, <1>2, <1>3, <1>4, <1>5, <1>6, <1>7, <1>8,
     <1>9, <1>10, <1>11, <1>12, <1>13, <1>14
     DEF ApiNext, Return, Purge

\* The server hands out what was written at the key it is asked for.
LEMMA HttpCrossTalkStep ==
    IInv /\ HttpStep /\ UNCHANGED <<cacheVars, call, result>> => NoCrossTalk'
<1> SUFFICES ASSUME IInv, HttpStep, UNCHANGED <<entry, text, call, result>> PROVE NoCrossTalk'
  BY DEF cacheVars
<1> USE DomainAssumption, HttpAssumption
    DEF IInv, Matched, RequestOf, GetRequest, PutRequest, InCall, NoCrossTalk, TypeOK,
        HttpTypeOK, Requests, Replies, Silent, Reply, Answer, Pending, Calls, NoCall
<1>1. ASSUME NEW c \in Callers, ServeGet(c) PROVE NoCrossTalk'
  BY <1>1 DEF ServeGet
<1>2. ASSUME NEW c \in Callers, ServePut(c) PROVE NoCrossTalk'
  BY <1>2 DEF ServePut
<1>3. ASSUME NEW c \in Callers, Refuse(c) PROVE NoCrossTalk'
  BY <1>3 DEF Refuse
<1>4. ASSUME NEW c \in Callers, Garble(c) PROVE NoCrossTalk'
  BY <1>4 DEF Garble
<1>5. ASSUME NEW c \in Callers, LoseReply(c) PROVE NoCrossTalk'
  BY <1>5 DEF LoseReply
<1>6. ASSUME NEW c \in Callers, Timeout(c) PROVE NoCrossTalk'
  BY <1>6 DEF Timeout
<1>7. ASSUME NEW s \in Strays, ServeLate(s) PROVE NoCrossTalk'
  BY <1>7 DEF ServeLate
<1>8. ASSUME NEW k \in Keys, NEW v \in Values, ForeignPut(k, v) PROVE NoCrossTalk'
  BY <1>8 DEF ForeignPut
<1>9. ASSUME NEW k \in Keys, ForeignDelete(k) PROVE NoCrossTalk'
  BY <1>9 DEF ForeignDelete
<1>10. CASE Restart
  BY <1>10 DEF Restart
<1>11. QED
  BY <1>1, <1>2, <1>3, <1>4, <1>5, <1>6, <1>7, <1>8, <1>9, <1>10 DEF HttpStep

\* Texts stay at their keys.
LEMMA CrossTalkStep == IInv /\ [ApiNext]_apiVars => NoCrossTalk'
<1> SUFFICES ASSUME IInv, [ApiNext]_apiVars PROVE NoCrossTalk'
  OBVIOUS
<1> USE DomainAssumption, HttpAssumption, CacheAssumption, ApiAssumption
    DEF IInv, NoCrossTalk, Matched, InCall, TypeOK, HttpTypeOK, CacheTypeOK, Calls, Results,
        Requests, Replies, Silent, NoCall, NoResult, httpVars, cacheVars
<1>1. ASSUME NEW c \in Callers, NEW k \in Keys \cup {BadKey}, Reject(c, k)
      PROVE  NoCrossTalk'
  BY <1>1 DEF Reject, Enter, Finish, Get, Error
<1>2. ASSUME NEW c \in Callers, NEW k \in Keys, Hit(c, k)
      PROVE  NoCrossTalk'
  BY <1>2 DEF Hit, Enter, Finish, Get, Success, Clone
<1>3. ASSUME NEW c \in Callers, NEW k \in Keys, Miss(c, k)
      PROVE  NoCrossTalk'
  BY <1>3 DEF Miss, Enter, Get
<1>4. ASSUME NEW c \in Callers, NEW k \in Keys, NEW v \in Values, BeginSet(c, k, v)
      PROVE  NoCrossTalk'
  BY <1>4 DEF BeginSet, Enter, Set
<1>5. ASSUME NEW c \in Callers, SendRequest(c)
      PROVE  NoCrossTalk'
  BY <1>5 DEF SendRequest, Send, RequestOf, GetRequest, PutRequest
<1>6. ASSUME NEW c \in Callers, NEW a \in Arcs, GetFilled(c, a)
      PROVE  NoCrossTalk'
  BY <1>6, FreeBlock DEF GetFilled, Receive, Insert, Allocate, Finish, Success, GetCode
<1>7. ASSUME NEW c \in Callers, NEW a \in Arcs, SetStored(c, a)
      PROVE  NoCrossTalk'
  BY <1>7, FreeBlock DEF SetStored, Receive, Insert, Allocate
<1>8. ASSUME NEW c \in Callers, GetFailed(c)
      PROVE  NoCrossTalk'
  BY <1>8 DEF GetFailed, Receive, Finish, Error
<1>9. ASSUME NEW c \in Callers, SetFailed(c)
      PROVE  NoCrossTalk'
  BY <1>9 DEF SetFailed, Receive, Invalidate, Remove
<1>10. ASSUME NEW c \in Callers, Release(c)
      PROVE  NoCrossTalk'
  <2>1. CASE result[c].arc = NoArc
    BY <1>10, <2>1 DEF Release, Finish
  <2>2. CASE result[c].arc # NoArc
    <3> DEFINE a == result[c].arc
    <3>1. a \in Arcs
      BY <2>2
    <3>2. Drop(a)
      BY <1>10, <2>2 DEF Release
    <3>3. strong[a] = 1 =>
            /\ \A k \in Keys : entry[k] # a
            /\ \A d \in Callers : d # c => result[d].arc # a
      BY <3>1, LastIsCallers DEF CacheOwns
    <3>4. /\ \A k \in Keys : entry[k] # NoArc => text'[entry[k]] = text[entry[k]]
          /\ \A d \in Callers : d # c /\ result[d].arc # NoArc =>
                text'[result[d].arc] = text[result[d].arc]
      BY <3>1, <3>2, <3>3 DEF Drop
    <3>5. QED
      BY <1>10, <3>4 DEF Release, Finish
  <2>3. QED
    BY <2>1, <2>2
<1>11. CASE HttpStep /\ UNCHANGED <<cacheVars, call, result>>
  BY <1>11, HttpCrossTalkStep
<1>12. ASSUME NEW K \in SUBSET Keys, Remove(K), UNCHANGED <<httpVars, call, result>>
      PROVE  NoCrossTalk'
  BY <1>12 DEF Remove
<1>13. ASSUME NEW a \in Arcs, Reclaim(a), UNCHANGED <<httpVars, call, result>>
      PROVE  NoCrossTalk'
  <2>1. strong[a] = 1 => \A d \in Callers : result[d].arc # a
    BY <1>13, LastIsCaches DEF Reclaim, CacheOwns
  <2>2. \A k \in Keys : entry[k] # a
    BY <1>13 DEF Reclaim, SoleOwner
  <2>3. /\ \A k \in Keys : entry[k] # NoArc => text'[entry[k]] = text[entry[k]]
        /\ \A d \in Callers : result[d].arc # NoArc =>
              text'[result[d].arc] = text[result[d].arc]
    BY <1>13, <2>1, <2>2 DEF Reclaim, Drop
  <2>4. QED
    BY <1>13, <2>3 DEF Reclaim
<1>14. CASE UNCHANGED apiVars
  BY <1>14 DEF apiVars
<1>15. QED
  BY <1>1, <1>2, <1>3, <1>4, <1>5, <1>6, <1>7, <1>8,
     <1>9, <1>10, <1>11, <1>12, <1>13, <1>14
     DEF ApiNext, Return, Purge

-----------------------------------------------------------------------------
(* Reference counts *)

\* Only callers hold results, and there are finitely many.
LEMMA HoldersFinite ==
    \A a : IsFiniteSet(Holders(a)) /\ Cardinality(Holders(a)) \in Nat
BY FS_Subset, FS_CardinalityType, DomainAssumption DEF Holders

\* A block of which nothing changes stays counted.
LEMMA CountUntouched ==
    ASSUME IInv, NEW b \in Arcs,
           Holders(b)' = Holders(b), strong'[b] = strong[b], CacheOwns(b)' <=> CacheOwns(b)
    PROVE  Counted(b)'
<1>1. Counted(b)
  BY DEF IInv, ArcCount
<1>2. CASE CacheOwns(b)
  BY <1>1, <1>2 DEF Counted
<1>3. CASE ~CacheOwns(b)
  BY <1>1, <1>3 DEF Counted
<1>4. QED
  BY <1>2, <1>3

\* A step that touches one block has to account for that block only.
LEMMA CountOthers ==
    ASSUME IInv, NEW a \in Arcs, Counted(a)',
           \A b \in Arcs \ {a} : /\ Holders(b)' = Holders(b) /\ strong'[b] = strong[b]
                                 /\ CacheOwns(b)' <=> CacheOwns(b)
    PROVE  ArcCount'
<1>1. ASSUME NEW b \in Arcs, b # a PROVE Counted(b)'
  BY <1>1, CountUntouched
<1>2. QED
  BY <1>1 DEF ArcCount

\* A step that changes no owner of any block.
LEMMA CountFrame ==
    ASSUME IInv, strong' = strong,
           \A a \in Arcs : Holders(a)' = Holders(a) /\ (CacheOwns(a)' <=> CacheOwns(a))
    PROVE  ArcCount'
<1>1. ASSUME NEW b \in Arcs PROVE Counted(b)'
  BY <1>1, CountUntouched
<1>2. QED
  BY <1>1 DEF ArcCount

\* A block whose count and number of holders move together.
LEMMA CountMoved ==
    ASSUME IInv, NEW a \in Arcs, NEW d \in Int, strong'[a] = strong[a] + d,
           Cardinality(Holders(a)') = Cardinality(Holders(a)) + d,
           CacheOwns(a)' <=> CacheOwns(a)
    PROVE  Counted(a)'
<1>1. Counted(a)
  BY DEF IInv, ArcCount
<1>2. CASE CacheOwns(a)
  BY <1>1, <1>2, HoldersFinite DEF Counted
<1>3. CASE ~CacheOwns(a)
  BY <1>1, <1>3, HoldersFinite DEF Counted
<1>4. QED
  BY <1>2, <1>3

\* A removal passes blocks from entries to moka's limbo.
LEMMA RemoveCount ==
    ASSUME IInv, NEW K \in SUBSET Keys, Remove(K), UNCHANGED result
    PROVE  ArcCount'
<1>1. \A a \in Arcs : Holders(a)' = Holders(a)
  BY DEF Holders, Holds
<1>2. \A a \in Arcs : CacheOwns(a)' <=> CacheOwns(a)
  BY CacheAssumption DEF Remove, ArcsAt, CacheOwns, IInv, TypeOK, CacheTypeOK
<1>3. QED
  BY <1>1, <1>2, CountFrame DEF Remove

\* An insert counts the new block and passes the old one to moka's limbo.
LEMMA InsertCount ==
    ASSUME IInv, NEW k \in Keys, NEW a \in Arcs, NEW v, NEW refs \in Nat,
           Insert(k, v, a, refs),
           refs = Cardinality(Holders(a)') + 1,
           \A b \in Arcs \ {a} : Holders(b)' = Holders(b)
    PROVE  ArcCount'
<1>1. CacheOwns(a)' /\ strong'[a] = Cardinality(Holders(a)') + 1
  BY DEF Insert, Allocate, CacheOwns, IInv, TypeOK, CacheTypeOK
<1>2. \A b \in Arcs \ {a} : (CacheOwns(b)' <=> CacheOwns(b)) /\ strong'[b] = strong[b]
  BY CacheAssumption DEF Insert, Allocate, ArcsAt, CacheOwns, IInv, TypeOK, CacheTypeOK
<1>3. Counted(a)'
  BY <1>1 DEF Counted
<1>4. QED
  BY <1>2, <1>3, CountOthers

\* The counts stay exact.
LEMMA ArcCountStep == IInv /\ [ApiNext]_apiVars => ArcCount'
<1> SUFFICES ASSUME IInv, [ApiNext]_apiVars PROVE ArcCount'
  OBVIOUS
<1> USE CacheAssumption DEF IInv, TypeOK, CacheTypeOK, Results
<1>1. ASSUME NEW c \in Callers, NEW k \in Keys \cup {BadKey}, Reject(c, k)
      PROVE  ArcCount'
  <2>1. result[c].arc = NoArc /\ result'[c].arc = NoArc
    BY <1>1 DEF Reject, Enter, Finish, Error, Matched, NoCall, NoResult
  <2>2. \A a \in Arcs : Holders(a)' = Holders(a)
    BY <1>1, <2>1 DEF Reject, Finish, Holders, Holds
  <2>3. QED
    BY <1>1, <2>2, CountFrame DEF Reject, CacheOwns, cacheVars
<1>2. ASSUME NEW c \in Callers, NEW k \in Keys, Hit(c, k)
      PROVE  ArcCount'
  <2> PICK a \in Arcs : a = entry[k]
    BY <1>2 DEF Hit
  <2>1. result[c].arc = NoArc
    BY <1>2 DEF Hit, Enter, Matched, NoCall, NoResult
  <2>2. Holders(a)' = Holders(a) \cup {c} /\ c \notin Holders(a)
    BY <1>2, <2>1 DEF Hit, Finish, Success, Holders, Holds
  <2>3. \A b \in Arcs \ {a} : Holders(b)' = Holders(b) /\ strong'[b] = strong[b]
    BY <1>2, <2>1 DEF Hit, Finish, Success, Clone, Holders, Holds
  <2>4. \A b \in Arcs : CacheOwns(b)' <=> CacheOwns(b)
    BY <1>2 DEF Hit, CacheOwns
  <2>5. strong'[a] = strong[a] + 1
    BY <1>2, <2>1 DEF Hit, Clone
  <2>6. Cardinality(Holders(a)') = Cardinality(Holders(a)) + 1
    BY <2>2, HoldersFinite, FS_AddElement
  <2>7. Counted(a)'
    BY <2>4, <2>5, <2>6, CountMoved
  <2>8. QED
    BY <2>3, <2>4, <2>7, CountOthers
<1>3. ASSUME NEW c \in Callers, NEW k \in Keys, Miss(c, k)
      PROVE  ArcCount'
  BY <1>3, CountFrame DEF Holders, Holds, CacheOwns, Miss, cacheVars
<1>4. ASSUME NEW c \in Callers, NEW k \in Keys, NEW v \in Values, BeginSet(c, k, v)
      PROVE  ArcCount'
  BY <1>4, CountFrame DEF Holders, Holds, CacheOwns, BeginSet, cacheVars
<1>5. ASSUME NEW c \in Callers, SendRequest(c)
      PROVE  ArcCount'
  BY <1>5, CountFrame DEF Holders, Holds, CacheOwns, SendRequest, cacheVars
<1>6. ASSUME NEW c \in Callers, NEW a \in Arcs, GetFilled(c, a)
      PROVE  ArcCount'
  <2>1. call[c].key \in Keys /\ result[c].arc = NoArc
    BY <1>6 DEF GetFilled, Receive, Matched, InCall, NoResult, Silent
  <2>2. Insert(call[c].key, wire[c].body, a, 2)
    BY <1>6 DEF GetFilled
  <2>3. Holders(a) = {}
    BY <2>2, FreeBlock, CacheAssumption DEF Insert, Allocate, Holders, Holds
  <2>4. Holders(a)' = {c} /\ \A b \in Arcs \ {a} : Holders(b)' = Holders(b)
    BY <1>6, <2>1, <2>3 DEF GetFilled, Finish, Success, Holders, Holds
  <2>5. Cardinality(Holders(a)') + 1 = 2
    <3>1. Cardinality({c}) = 1
      BY FS_Singleton
    <3>2. QED
      BY <2>4, <3>1
  <2>6. QED
    BY <2>1, <2>2, <2>4, <2>5, InsertCount
<1>7. ASSUME NEW c \in Callers, NEW a \in Arcs, SetStored(c, a)
      PROVE  ArcCount'
  <2>1. call[c].key \in Keys /\ Insert(call[c].key, call[c].value, a, 1)
    BY <1>7 DEF SetStored, Receive, Matched, Silent
  <2>2. \A b \in Arcs : Holders(b)' = Holders(b)
    BY <1>7 DEF SetStored, Holders, Holds
  <2>3. Holders(a) = {}
    BY <2>1, FreeBlock, CacheAssumption DEF Insert, Allocate, Holders, Holds
  <2>4. Cardinality(Holders(a)') + 1 = 1
    <3>1. Cardinality({}) = 0
      BY FS_EmptySet
    <3>2. Holders(a)' = {}
      BY <2>2, <2>3
    <3>3. QED
      BY <3>1, <3>2
  <2>5. QED
    BY <2>1, <2>2, <2>4, InsertCount
<1>8. ASSUME NEW c \in Callers, GetFailed(c)
      PROVE  ArcCount'
  <2>1. result[c].arc = NoArc /\ result'[c].arc = NoArc
    BY <1>8 DEF GetFailed, Receive, Finish, Error, Matched, InCall, NoResult, Silent
  <2>2. \A a \in Arcs : Holders(a)' = Holders(a)
    BY <1>8, <2>1 DEF GetFailed, Finish, Holders, Holds
  <2>3. QED
    BY <1>8, <2>2, CountFrame DEF GetFailed, CacheOwns, cacheVars
<1>9. ASSUME NEW c \in Callers, SetFailed(c)
      PROVE  ArcCount'
  <2>1. call[c].key \in Keys
    BY <1>9 DEF SetFailed, Receive, Matched, Silent
  <2>2. QED
    BY <1>9, <2>1, RemoveCount DEF SetFailed, Invalidate
<1>10. ASSUME NEW c \in Callers, Release(c)
      PROVE  ArcCount'
  <2>1. CASE result[c].arc = NoArc
    <3>1. \A a \in Arcs : Holders(a)' = Holders(a)
      BY <1>10, <2>1 DEF Release, Finish, Holders, Holds, NoResult
    <3>2. QED
      BY <1>10, <2>1, <3>1, CountFrame DEF Release, CacheOwns
  <2>2. CASE result[c].arc # NoArc
    <3> PICK a \in Arcs : a = result[c].arc
      BY <2>2
    <3>1. Drop(a)
      BY <1>10, <2>2 DEF Release
    <3>2. Holders(a)' = Holders(a) \ {c} /\ c \in Holders(a)
      BY <1>10, <2>2 DEF Release, Finish, Holders, Holds, NoResult
    <3>3. \A b \in Arcs \ {a} : Holders(b)' = Holders(b) /\ strong'[b] = strong[b]
      BY <1>10, <3>1 DEF Release, Finish, Drop, Holders, Holds, NoResult
    <3>4. \A b \in Arcs : CacheOwns(b)' <=> CacheOwns(b)
      BY <1>10 DEF Release, CacheOwns
    <3>5. strong'[a] = strong[a] - 1
      BY <3>1 DEF Drop
    <3>6. Cardinality(Holders(a)') = Cardinality(Holders(a)) - 1
      <4>1. IsFiniteSet(Holders(a)) /\ c \in Holders(a)
        BY <3>2, HoldersFinite
      <4>2. Cardinality(Holders(a) \ {c}) = Cardinality(Holders(a)) - 1
        BY ONLY <4>1, FS_RemoveElement
      <4>3. QED
        BY <3>2, <4>2
    <3>7. strong'[a] = strong[a] + (-1)
          /\ Cardinality(Holders(a)') = Cardinality(Holders(a)) + (-1)
      BY <3>5, <3>6, HoldersFinite
    <3>8. Counted(a)'
      BY <3>4, <3>7, CountMoved
    <3>9. QED
      BY <3>3, <3>4, <3>8, CountOthers
  <2>3. QED
    BY <2>1, <2>2
<1>11. CASE HttpStep /\ UNCHANGED <<cacheVars, call, result>>
  BY <1>11, CountFrame DEF Holders, Holds, CacheOwns, cacheVars
<1>12. ASSUME NEW K \in SUBSET Keys, Remove(K), UNCHANGED <<httpVars, call, result>>
      PROVE  ArcCount'
  BY <1>12, RemoveCount
<1>13. ASSUME NEW a \in Arcs, Reclaim(a), UNCHANGED <<httpVars, call, result>>
      PROVE  ArcCount'
  <2>1. Holders(a)' = Holders(a) /\ CacheOwns(a) /\ ~CacheOwns(a)'
    BY <1>13 DEF Reclaim, Holders, Holds, CacheOwns, SoleOwner
  <2>2. \A b \in Arcs \ {a} :
           /\ Holders(b)' = Holders(b) /\ strong'[b] = strong[b]
           /\ CacheOwns(b)' <=> CacheOwns(b)
    BY <1>13 DEF Reclaim, Drop, Holders, Holds, CacheOwns
  <2>3. strong'[a] = strong[a] - 1
    BY <1>13 DEF Reclaim, Drop
  <2>4. Counted(a)'
    <3>1. strong[a] = Cardinality(Holders(a)) + 1
      BY <2>1 DEF Counted, ArcCount
    <3>2. QED
      BY <2>1, <2>3, <3>1, HoldersFinite DEF Counted
  <2>5. QED
    BY <2>2, <2>4, CountOthers
<1>14. CASE UNCHANGED apiVars
  BY <1>14, CountFrame DEF Holders, Holds, CacheOwns, apiVars
<1>15. QED
  BY <1>1, <1>2, <1>3, <1>4, <1>5, <1>6, <1>7, <1>8,
     <1>9, <1>10, <1>11, <1>12, <1>13, <1>14
     DEF ApiNext, Return, Purge

-----------------------------------------------------------------------------
(* Theorems *)

\* The invariant holds in every reachable state.
LEMMA Invariance == ApiSpec => []IInv
<1>1. ApiInit => IInv
  BY InitInv
<1>2. IInv /\ [ApiNext]_apiVars => IInv'
  BY TypeStep, MatchedStep, SoleOwnerStep, CrossTalkStep, ArcCountStep DEF IInv
<1>3. QED
  BY <1>1, <1>2, PTL DEF ApiSpec

\* Every variable of the C API keeps its type.
THEOREM TypeCorrect == ApiSpec => []TypeOK
<1>1. IInv => TypeOK
  BY DEF IInv
<1>2. QED
  BY <1>1, Invariance, PTL

\* The hand-kept reference counts are exact: whoever holds a result has a
\* reference of its own to its block, and a block nobody owns is free.
THEOREM CountsExact == ApiSpec => []ArcCount
<1>1. IInv => ArcCount
  BY DEF IInv
<1>2. QED
  BY <1>1, Invariance, PTL

\* No block has two places in the cache, and an exchange or a result that is
\* out belongs to the call of its caller.
THEOREM OwnersApart == ApiSpec => []Bookkeeping
<1>1. IInv => Bookkeeping
  BY DEF IInv, Bookkeeping
<1>2. QED
  BY <1>1, Invariance, PTL

\* No text is seen at a key it was not written at.
THEOREM KeysApart == ApiSpec => []NoCrossTalk
<1>1. IInv => NoCrossTalk
  BY DEF IInv
<1>2. QED
  BY <1>1, Invariance, PTL

-----------------------------------------------------------------------------
(* The C API implements KvLoans *)

\* The views of a call, case by case.
LEMMA Views ==
    ASSUME NEW x, NEW r, NEW t
    PROVE  /\ x = NoCall => View(x, r, t) = Loans!Idle
           /\ x # NoCall /\ r = NoResult => View(x, r, t) = Loans!Calling(x.op, x.key)
           /\ x # NoCall /\ r # NoResult /\ r.arc = NoArc => View(x, r, t) = Loans!Failed(x.key)
           /\ x # NoCall /\ r.arc # NoArc => View(x, r, t) = Loans!Lent(x.key, t)
BY DEF View, NoResult, Loans!Idle, Loans!Calling, Loans!Failed, Loans!Lent

\* One caller's view changes, the others' do not.
LEMMA Becomes ==
    ASSUME NEW c \in Callers, NEW s, Slot(c)' = s,
           \A d \in Callers \ {c} : Slot(d)' = Slot(d)
    PROVE  Loans!Become(c, s)
BY DEF Loans!Become

\* A step of caller c that leaves the texts the others hold alone.
LEMMA OtherSlots ==
    ASSUME NEW c \in Callers, NEW d \in Callers \ {c},
           call'[d] = call[d], result'[d] = result[d],
           result[d].arc # NoArc => text'[result[d].arc] = text[result[d].arc]
    PROVE  Slot(d)' = Slot(d)
BY DEF Slot, InCall

\* A step of no caller is a stutter of KvLoans.
LEMMA SameSlots ==
    ASSUME UNCHANGED <<call, result>>,
           \A d \in Callers :
              result[d].arc # NoArc => text'[result[d].arc] = text[result[d].arc]
    PROVE  UNCHANGED [c \in Callers |-> Slot(c)]
BY DEF Slot, InCall

\* Every step is a step of KvLoans or changes nothing a caller sees.
LEMMA LoansStep ==
    IInv /\ [ApiNext]_apiVars => [Loans!Next]_([c \in Callers |-> Slot(c)])
<1> SUFFICES ASSUME IInv, [ApiNext]_apiVars
             PROVE  Loans!Next \/ UNCHANGED [c \in Callers |-> Slot(c)]
  OBVIOUS
<1> USE DomainAssumption, CacheAssumption, ApiAssumption
    DEF IInv, TypeOK, HttpTypeOK, CacheTypeOK, Calls, Results, Requests, Replies,
        Silent, NoCall, NoResult, InCall
<1>1. ASSUME NEW c \in Callers, NEW k \in Keys \cup {BadKey}, Reject(c, k)
      PROVE  Loans!Next \/ UNCHANGED [x \in Callers |-> Slot(x)]
  <2>1. call[c] = NoCall /\ call' = [call EXCEPT ![c] = Get(k)]
    BY <1>1 DEF Reject, Enter
  <2>2. result' = [result EXCEPT ![c] = Error("InvalidInput")] /\ text' = text
    BY <1>1 DEF Reject, Finish, cacheVars
  <2>3. Slot(c) = Loans!Idle /\ Slot(c)' = Loans!Failed(k)
    BY <2>1, <2>2, Views DEF Slot, Get, Error
  <2>4. \A d \in Callers \ {c} : Slot(d)' = Slot(d)
    BY <2>1, <2>2, OtherSlots
  <2>5. Loans!Fail(c, k)
    BY <2>3, <2>4, Becomes DEF Loans!Fail
  <2>6. QED
    BY <2>5 DEF Loans!Next
<1>2. ASSUME NEW c \in Callers, NEW k \in Keys, Hit(c, k)
      PROVE  Loans!Next \/ UNCHANGED [x \in Callers |-> Slot(x)]
  <2>1. call[c] = NoCall /\ call' = [call EXCEPT ![c] = Get(k)]
    BY <1>2 DEF Hit, Enter
  <2>2. result' = [result EXCEPT ![c] = Success(entry[k])] /\ text' = text
    BY <1>2 DEF Hit, Finish, Clone
  <2>3. entry[k] # NoArc /\ text[entry[k]] \in Legal[k]
    BY <1>2 DEF Hit, NoCrossTalk
  <2>4. Slot(c) = Loans!Idle /\ Slot(c)' = Loans!Lent(k, text[entry[k]])
    BY <2>1, <2>2, <2>3, Views DEF Slot, Get, Success
  <2>5. \A d \in Callers \ {c} : Slot(d)' = Slot(d)
    BY <2>1, <2>2, OtherSlots
  <2>6. Loans!Lend(c, k, text[entry[k]])
    BY <2>3, <2>4, <2>5, Becomes DEF Loans!Lend
  <2>7. QED
    BY <2>3, <2>6 DEF Loans!Next
<1>3. ASSUME NEW c \in Callers, NEW k \in Keys, Miss(c, k)
      PROVE  Loans!Next \/ UNCHANGED [x \in Callers |-> Slot(x)]
  <2>1. call[c] = NoCall /\ call' = [call EXCEPT ![c] = Get(k)]
    BY <1>3 DEF Miss, Enter
  <2>2. result' = result /\ text' = text /\ result[c] = NoResult
    BY <1>3, <2>1 DEF Miss, Matched, cacheVars
  <2>3. Slot(c) = Loans!Idle /\ Slot(c)' = Loans!Calling("get", k)
    BY <2>1, <2>2, Views DEF Slot, Get, Set
  <2>4. \A d \in Callers \ {c} : Slot(d)' = Slot(d)
    BY <2>1, <2>2, OtherSlots
  <2>5. Loans!BeginGet(c, k)
    BY <2>3, <2>4, Becomes DEF Loans!BeginGet
  <2>6. QED
    BY <2>5 DEF Loans!Next
<1>4. ASSUME NEW c \in Callers, NEW k \in Keys, NEW v \in Values, BeginSet(c, k, v)
      PROVE  Loans!Next \/ UNCHANGED [x \in Callers |-> Slot(x)]
  <2>1. call[c] = NoCall /\ call' = [call EXCEPT ![c] = Set(k, v)]
    BY <1>4 DEF BeginSet, Enter
  <2>2. result' = result /\ text' = text /\ result[c] = NoResult
    BY <1>4, <2>1 DEF BeginSet, Matched, cacheVars
  <2>3. Slot(c) = Loans!Idle /\ Slot(c)' = Loans!Calling("set", k)
    BY <2>1, <2>2, Views DEF Slot, Get, Set
  <2>4. \A d \in Callers \ {c} : Slot(d)' = Slot(d)
    BY <2>1, <2>2, OtherSlots
  <2>5. Loans!BeginSet(c, k)
    BY <2>3, <2>4, Becomes DEF Loans!BeginSet
  <2>6. QED
    BY <2>5 DEF Loans!Next
<1>5. ASSUME NEW c \in Callers, SendRequest(c)
      PROVE  Loans!Next \/ UNCHANGED [x \in Callers |-> Slot(x)]
  BY <1>5, SameSlots DEF SendRequest, cacheVars
<1>6. ASSUME NEW c \in Callers, NEW a \in Arcs, GetFilled(c, a)
      PROVE  Loans!Next \/ UNCHANGED [x \in Callers |-> Slot(x)]
  <2> PICK k \in Keys : k = call[c].key
    BY <1>6 DEF GetFilled, Receive, Matched
  <2>1. InCall(c) /\ call[c].op = "get" /\ call' = call
    BY <1>6 DEF GetFilled, Receive, Matched
  <2>2. result' = [result EXCEPT ![c] = Success(a)]
    BY <1>6 DEF GetFilled, Finish
  <2>3. text' = [text EXCEPT ![a] = wire[c].body] /\ \A d \in Callers : result[d].arc # a
    BY <1>6, FreeBlock DEF GetFilled, Insert, Allocate
  <2>4. wire[c].body \in Legal[k]
    BY <1>6 DEF GetFilled, Receive, GetCode, NoCrossTalk
  <2>5. Slot(c) = Loans!Calling("get", k)
    BY <2>1, Views DEF Slot
  <2>6. Slot(c)' = Loans!Lent(k, wire[c].body)
    BY <2>1, <2>2, <2>3, Views DEF Slot, Success
  <2>7. \A d \in Callers \ {c} : Slot(d)' = Slot(d)
    BY <2>1, <2>2, <2>3, OtherSlots
  <2>8. Loans!Lend(c, k, wire[c].body)
    BY <2>4, <2>5, <2>6, <2>7, Becomes DEF Loans!Lend
  <2>9. QED
    BY <2>4, <2>8 DEF Loans!Next
<1>7. ASSUME NEW c \in Callers, NEW a \in Arcs, SetStored(c, a)
      PROVE  Loans!Next \/ UNCHANGED [x \in Callers |-> Slot(x)]
  <2> PICK k \in Keys : k = call[c].key
    BY <1>7 DEF SetStored, Receive, Matched
  <2>1. InCall(c) /\ call[c].op = "set" /\ call' = [call EXCEPT ![c] = NoCall]
    BY <1>7 DEF SetStored, Receive, Matched
  <2>2. result' = result
    BY <1>7 DEF SetStored
  <2>3. \A d \in Callers : result[d].arc # NoArc => text'[result[d].arc] = text[result[d].arc]
    BY <1>7, FreeBlock DEF SetStored, Insert, Allocate
  <2>4. Slot(c) = Loans!Calling("set", k) /\ Slot(c)' = Loans!Idle
    BY <2>1, Views DEF Slot
  <2>5. \A d \in Callers \ {c} : Slot(d)' = Slot(d)
    BY <2>1, <2>2, <2>3, OtherSlots
  <2>6. Loans!EndSet(c, k)
    BY <2>4, <2>5, Becomes DEF Loans!EndSet
  <2>7. QED
    BY <2>6 DEF Loans!Next
<1>8. ASSUME NEW c \in Callers, GetFailed(c)
      PROVE  Loans!Next \/ UNCHANGED [x \in Callers |-> Slot(x)]
  <2> PICK k \in Keys : k = call[c].key
    BY <1>8 DEF GetFailed, Receive, Matched
  <2>1. InCall(c) /\ call[c].op = "get" /\ call' = call /\ text' = text
    BY <1>8 DEF GetFailed, Receive, Matched, cacheVars
  <2>2. result' = [result EXCEPT ![c] = Error(GetCode(wire[c]))]
    BY <1>8 DEF GetFailed, Finish
  <2>3. Slot(c) = Loans!Calling("get", k)
    BY <2>1, Views DEF Slot
  <2>4. Slot(c)' = Loans!Failed(k)
    BY <2>1, <2>2, Views DEF Slot, Error, GetCode
  <2>5. \A d \in Callers \ {c} : Slot(d)' = Slot(d)
    BY <2>1, <2>2, OtherSlots
  <2>6. Loans!Fail(c, k)
    BY <2>3, <2>4, <2>5, Becomes DEF Loans!Fail
  <2>7. QED
    BY <2>6 DEF Loans!Next
<1>9. ASSUME NEW c \in Callers, SetFailed(c)
      PROVE  Loans!Next \/ UNCHANGED [x \in Callers |-> Slot(x)]
  <2> PICK k \in Keys : k = call[c].key
    BY <1>9 DEF SetFailed, Receive, Matched
  <2>1. InCall(c) /\ call[c].op = "set" /\ call' = [call EXCEPT ![c] = NoCall]
    BY <1>9 DEF SetFailed, Receive, Matched
  <2>2. result' = result
    BY <1>9 DEF SetFailed
  <2>3. \A d \in Callers : result[d].arc # NoArc => text'[result[d].arc] = text[result[d].arc]
    BY <1>9 DEF SetFailed, Invalidate, Remove
  <2>4. Slot(c) = Loans!Calling("set", k) /\ Slot(c)' = Loans!Idle
    BY <2>1, Views DEF Slot
  <2>5. \A d \in Callers \ {c} : Slot(d)' = Slot(d)
    BY <2>1, <2>2, <2>3, OtherSlots
  <2>6. Loans!EndSet(c, k)
    BY <2>4, <2>5, Becomes DEF Loans!EndSet
  <2>7. QED
    BY <2>6 DEF Loans!Next
<1>10. ASSUME NEW c \in Callers, Release(c)
      PROVE  Loans!Next \/ UNCHANGED [x \in Callers |-> Slot(x)]
  <2>1. call' = [call EXCEPT ![c] = NoCall] /\ result' = [result EXCEPT ![c] = NoResult]
    BY <1>10 DEF Release, Finish
  <2>2. \A d \in Callers \ {c} :
           result[d].arc # NoArc => text'[result[d].arc] = text[result[d].arc]
    <3>1. CASE result[c].arc = NoArc
      BY <1>10, <3>1 DEF Release
    <3>2. CASE result[c].arc # NoArc
      <4> PICK a \in Arcs : a = result[c].arc
        BY <3>2
      <4>1. Drop(a)
        BY <1>10, <3>2 DEF Release
      <4>2. strong[a] = 1 => \A d \in Callers \ {c} : result[d].arc # a
        BY LastIsCallers
      <4>3. QED
        BY <4>1, <4>2 DEF Drop
    <3>3. QED
      BY <3>1, <3>2
  <2>3. call[c] # NoCall /\ result[c] # NoResult
    BY <1>10 DEF Release, Matched
  <2>4. Slot(c).state \in {"failed", "lent"} /\ Slot(c)' = Loans!Idle
    BY <2>1, <2>3, Views DEF Slot, Loans!Failed, Loans!Lent
  <2>5. \A d \in Callers \ {c} : Slot(d)' = Slot(d)
    BY <2>1, <2>2, OtherSlots
  <2>6. Loans!Release(c)
    BY <2>4, <2>5, Becomes DEF Loans!Release
  <2>7. QED
    BY <2>6 DEF Loans!Next
<1>11. CASE HttpStep /\ UNCHANGED <<cacheVars, call, result>>
  BY <1>11, SameSlots DEF cacheVars
<1>12. ASSUME NEW K \in SUBSET Keys, Remove(K), UNCHANGED <<httpVars, call, result>>
      PROVE  Loans!Next \/ UNCHANGED [x \in Callers |-> Slot(x)]
  BY <1>12, SameSlots DEF Remove
<1>13. ASSUME NEW a \in Arcs, Reclaim(a), UNCHANGED <<httpVars, call, result>>
      PROVE  Loans!Next \/ UNCHANGED [x \in Callers |-> Slot(x)]
  <2>1. strong[a] = 1 => \A d \in Callers : result[d].arc # a
    BY <1>13, LastIsCaches DEF Reclaim, CacheOwns
  <2>2. \A d \in Callers : result[d].arc # NoArc => text'[result[d].arc] = text[result[d].arc]
    BY <1>13, <2>1 DEF Reclaim, Drop
  <2>3. QED
    BY <1>13, <2>2, SameSlots
<1>14. CASE UNCHANGED apiVars
  BY <1>14, SameSlots DEF apiVars
<1>15. QED
  BY <1>1, <1>2, <1>3, <1>4, <1>5, <1>6, <1>7, <1>8,
     <1>9, <1>10, <1>11, <1>12, <1>13, <1>14
     DEF ApiNext, Return, Purge

\* The C API keeps its promise to every caller: a get lends a
\* text written at its key, and the text is there, unchanged, until the
\* release, whatever is evicted, overwritten, cleared or destroyed meanwhile.
THEOREM LoansImplemented == ApiSpec => LoansKept
<1>1. ApiInit => Loans!Init
  BY Views DEF ApiInit, Loans!Init, Slot
<1>2. QED
  BY <1>1, LoansStep, Invariance, PTL DEF ApiSpec, LoansKept, Loans!Spec

-----------------------------------------------------------------------------
(* For the modules built on this one *)

\* Without an entry, the cache owns what moka has yet to drop, and nothing
\* else.
LEMMA EmptyCache ==
  ASSUME IInv, \A k \in Keys : entry[k] = NoArc, NEW a \in Arcs
  PROVE  strong[a] = Cardinality(Holders(a)) + (IF a \in retired THEN 1 ELSE 0)
BY CacheAssumption DEF IInv, ArcCount, Counted, CacheOwns

\* And when nobody has a result either, that is all there is.
LEMMA EmptyHouse ==
  ASSUME IInv, \A k \in Keys : entry[k] = NoArc, NEW a \in Arcs,
         \A c \in Callers : result[c].arc = NoArc
  PROVE  strong[a] = IF a \in retired THEN 1 ELSE 0
<1>1. Holders(a) = {}
  BY CacheAssumption DEF Holders, Holds
<1>2. QED
  BY <1>1, EmptyCache, FS_EmptySet
=============================================================================
