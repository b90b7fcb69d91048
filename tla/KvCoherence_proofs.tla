------------------------- MODULE KvCoherence_proofs -------------------------
(***************************************************************************)
(* Coherence proved for any keys, values, callers and blocks.              *)
(***************************************************************************)
EXTENDS KvCoherence, KvApi_proofs

CInv == IInv /\ exposed \in [Keys -> BOOLEAN] /\ FreshUnlessExposed

\* A step of CoherenceSpec is a step of ApiSpec, so KvApi's invariant holds.
LEMMA ApiStep == IInv /\ [CoherenceNext]_<<apiVars, exposed>> => IInv'
<1>1. [CoherenceNext]_<<apiVars, exposed>> => [ApiNext]_apiVars
  BY DEF CoherenceNext, apiVars
<1>2. QED
  BY <1>1, TypeStep, MatchedStep, SoleOwnerStep, CrossTalkStep, ArcCountStep DEF IInv

\* An entry that stays keeps its text: moka and the allocator touch blocks
\* nobody owns or drop references they own.
LEMMA TextStays ==
    ASSUME IInv, ApiNext, NEW x \in Keys, entry'[x] = entry[x], entry[x] # NoArc
    PROVE  text'[entry[x]] = text[entry[x]]
<1> USE CacheAssumption DEF IInv, TypeOK, CacheTypeOK
<1>1. ASSUME NEW c \in Callers, NEW k \in Keys \cup {BadKey}, Reject(c, k)
      PROVE  text'[entry[x]] = text[entry[x]]
  BY <1>1 DEF Reject, cacheVars
<1>2. ASSUME NEW c \in Callers, NEW k \in Keys, Hit(c, k)
      PROVE  text'[entry[x]] = text[entry[x]]
  BY <1>2 DEF Hit, Clone
<1>3. ASSUME NEW c \in Callers, NEW k \in Keys, Miss(c, k)
      PROVE  text'[entry[x]] = text[entry[x]]
  BY <1>3 DEF Miss, cacheVars
<1>4. ASSUME NEW c \in Callers, NEW k \in Keys, NEW v \in Values, BeginSet(c, k, v)
      PROVE  text'[entry[x]] = text[entry[x]]
  BY <1>4 DEF BeginSet, cacheVars
<1>5. ASSUME NEW c \in Callers, SendRequest(c)
      PROVE  text'[entry[x]] = text[entry[x]]
  BY <1>5 DEF SendRequest, cacheVars
<1>6. ASSUME NEW c \in Callers, NEW a \in Arcs, GetFilled(c, a)
      PROVE  text'[entry[x]] = text[entry[x]]
  BY <1>6, FreeBlock DEF GetFilled, Insert, Allocate
<1>7. ASSUME NEW c \in Callers, NEW a \in Arcs, SetStored(c, a)
      PROVE  text'[entry[x]] = text[entry[x]]
  BY <1>7, FreeBlock DEF SetStored, Insert, Allocate
<1>8. ASSUME NEW c \in Callers, GetFailed(c)
      PROVE  text'[entry[x]] = text[entry[x]]
  BY <1>8 DEF GetFailed, cacheVars
<1>9. ASSUME NEW c \in Callers, SetFailed(c)
      PROVE  text'[entry[x]] = text[entry[x]]
  BY <1>9 DEF SetFailed, Invalidate, Remove
<1>10. ASSUME NEW c \in Callers, Release(c)
      PROVE  text'[entry[x]] = text[entry[x]]
  <2>1. CASE result[c].arc = NoArc
    BY <1>10, <2>1 DEF Release
  <2>2. CASE result[c].arc # NoArc
    <3> PICK a \in Arcs : a = result[c].arc
      BY <2>2 DEF Results
    <3>1. Drop(a)
      BY <1>10, <2>2 DEF Release
    <3>2. strong[a] = 1 => entry[x] # a
      BY LastIsCallers DEF CacheOwns
    <3>3. QED
      BY <3>1, <3>2 DEF Drop
  <2>3. QED
    BY <2>1, <2>2
<1>11. CASE HttpStep /\ UNCHANGED <<cacheVars, call, result>>
  BY <1>11 DEF cacheVars
<1>12. ASSUME NEW K \in SUBSET Keys, Remove(K), UNCHANGED <<httpVars, call, result>>
      PROVE  text'[entry[x]] = text[entry[x]]
  BY <1>12 DEF Remove
<1>13. ASSUME NEW a \in Arcs, Reclaim(a), UNCHANGED <<httpVars, call, result>>
      PROVE  text'[entry[x]] = text[entry[x]]
  <2>1. entry[x] # a
    BY <1>13 DEF Reclaim, SoleOwner
  <2>2. QED
    BY <1>13, <2>1 DEF Reclaim, Drop
<1>14. QED
  BY <1>1, <1>2, <1>3, <1>4, <1>5, <1>6, <1>7, <1>8,
     <1>9, <1>10, <1>11, <1>12, <1>13
     DEF ApiNext, Return, Purge

\* The server's and the network's steps keep an unexposed key fresh.
LEMMA FreshHttpStep ==
    ASSUME IInv, NEW x \in Keys, UpToDate(x), ~Overlap(x)', ~ChangedBehind(x),
           HttpStep, UNCHANGED <<cacheVars, call, result>>
    PROVE  UpToDate(x)'
<1> USE DEF IInv, TypeOK, HttpTypeOK, Requests, Replies, Silent, Calls, NoCall, Matched, InCall,
            RequestOf, GetRequest, PutRequest, UpToDate, Overlap, BeingSet, Agrees, Current,
            ChangedBehind, Asking, SetCode, Reply, Answer, Pending, cacheVars
<1>1. ASSUME NEW c \in Callers, ServeGet(c) PROVE UpToDate(x)'
  BY <1>1 DEF ServeGet
<1>2. ASSUME NEW c \in Callers, ServePut(c) PROVE UpToDate(x)'
  BY <1>2 DEF ServePut
<1>3. ASSUME NEW c \in Callers, Refuse(c) PROVE UpToDate(x)'
  BY <1>3 DEF Refuse
<1>4. ASSUME NEW c \in Callers, Garble(c) PROVE UpToDate(x)'
  BY <1>4 DEF Garble
<1>5. ASSUME NEW c \in Callers, LoseReply(c) PROVE UpToDate(x)'
  BY <1>5 DEF LoseReply
<1>6. ASSUME NEW c \in Callers, Timeout(c) PROVE UpToDate(x)'
  BY <1>6 DEF Timeout
<1>7. ASSUME NEW s \in Strays, ServeLate(s) PROVE UpToDate(x)'
  BY <1>7 DEF ServeLate
<1>8. ASSUME NEW k \in Keys, NEW v \in Values, ForeignPut(k, v) PROVE UpToDate(x)'
  BY <1>8 DEF ForeignPut
<1>9. ASSUME NEW k \in Keys, ForeignDelete(k) PROVE UpToDate(x)'
  BY <1>9 DEF ForeignDelete
<1>10. CASE Restart
  BY <1>10 DEF Restart
<1>11. QED
  BY <1>1, <1>2, <1>3, <1>4, <1>5, <1>6, <1>7, <1>8, <1>9, <1>10 DEF HttpStep

\* A key stays fresh as long as it is not exposed.
LEMMA FreshStep ==
    ASSUME IInv, ApiNext, NEW x \in Keys, UpToDate(x), ~Overlap(x)', ~ChangedBehind(x)
    PROVE  UpToDate(x)'
<1> USE DEF IInv, TypeOK, HttpTypeOK, CacheTypeOK, Requests, Replies, Silent, Calls, NoCall, Results,
            NoResult, Matched, InCall, UpToDate, Overlap, BeingSet, Agrees, Current, Asking, SetCode
<1>1. ASSUME NEW c \in Callers, NEW k \in Keys \cup {BadKey}, Reject(c, k)
      PROVE  UpToDate(x)'
  BY <1>1 DEF Reject, Enter, Finish, Get, Error, httpVars, cacheVars
<1>2. ASSUME NEW c \in Callers, NEW k \in Keys, Hit(c, k)
      PROVE  UpToDate(x)'
  BY <1>2, TextStays DEF Hit, Enter, Finish, Get, Success, httpVars
<1>3. ASSUME NEW c \in Callers, NEW k \in Keys, Miss(c, k)
      PROVE  UpToDate(x)'
  <2>1. UNCHANGED <<store, wire, late, entry, text>>
    BY <1>3 DEF Miss, httpVars, cacheVars
  <2>2. wire[c] = Silent
    BY <1>3 DEF Miss, Enter
  <2>3. \A d \in Callers : wire[d] # Silent => call'[d] = call[d]
    BY <1>3, <2>2 DEF Miss, Enter
  <2>4. QED
    BY <2>1, <2>3
<1>4. ASSUME NEW c \in Callers, NEW k \in Keys, NEW v \in Values, BeginSet(c, k, v)
      PROVE  UpToDate(x)'
  <2>1. UNCHANGED <<store, wire, late, entry, text>>
    BY <1>4 DEF BeginSet, httpVars, cacheVars
  <2>2. wire[c] = Silent
    BY <1>4 DEF BeginSet, Enter
  <2>3. \A d \in Callers : wire[d] # Silent => call'[d] = call[d]
    BY <1>4, <2>2 DEF BeginSet, Enter
  <2>4. QED
    BY <2>1, <2>3
<1>5. ASSUME NEW c \in Callers, SendRequest(c)
      PROVE  UpToDate(x)'
  BY <1>5 DEF SendRequest, Send, RequestOf, GetRequest, PutRequest, cacheVars
<1>6. ASSUME NEW c \in Callers, NEW a \in Arcs, GetFilled(c, a)
      PROVE  UpToDate(x)'
  <2>1. CASE call[c].key = x
    BY <1>6, <2>1 DEF GetFilled, Receive, GetCode, Insert, Allocate, Finish, Success
  <2>2. CASE call[c].key # x
    BY <1>6, <2>2, TextStays DEF GetFilled, Receive, Insert, Finish, Success
  <2>3. QED
    BY <2>1, <2>2
<1>7. ASSUME NEW c \in Callers, NEW a \in Arcs, SetStored(c, a)
      PROVE  UpToDate(x)'
  <2>1. CASE call[c].key = x
    BY <1>7, <2>1 DEF SetStored, Receive, Insert, Allocate
  <2>2. CASE call[c].key # x
    BY <1>7, <2>2, TextStays DEF SetStored, Receive, Insert
  <2>3. QED
    BY <2>1, <2>2
<1>8. ASSUME NEW c \in Callers, GetFailed(c)
      PROVE  UpToDate(x)'
  BY <1>8 DEF GetFailed, Receive, Finish, Error, GetCode, cacheVars
<1>9. ASSUME NEW c \in Callers, SetFailed(c)
      PROVE  UpToDate(x)'
  BY <1>9 DEF SetFailed, Receive, Invalidate, Remove
<1>10. ASSUME NEW c \in Callers, Release(c)
      PROVE  UpToDate(x)'
  BY <1>10, TextStays DEF Release, Finish, httpVars
<1>11. CASE HttpStep /\ UNCHANGED <<cacheVars, call, result>>
  BY <1>11, FreshHttpStep
<1>12. ASSUME NEW K \in SUBSET Keys, Remove(K), UNCHANGED <<httpVars, call, result>>
      PROVE  UpToDate(x)'
  BY <1>12 DEF Remove, httpVars
<1>13. ASSUME NEW a \in Arcs, Reclaim(a), UNCHANGED <<httpVars, call, result>>
      PROVE  UpToDate(x)'
  BY <1>13, TextStays DEF Reclaim, httpVars
<1>14. QED
  BY <1>1, <1>2, <1>3, <1>4, <1>5, <1>6, <1>7, <1>8,
     <1>9, <1>10, <1>11, <1>12, <1>13
     DEF ApiNext, Return, Purge

\* The invariant of coherence is inductive.
LEMMA CoherenceStep == CInv /\ [CoherenceNext]_<<apiVars, exposed>> => CInv'
<1> SUFFICES ASSUME CInv, [CoherenceNext]_<<apiVars, exposed>> PROVE CInv'
  OBVIOUS
<1>1. IInv'
  BY ApiStep DEF CInv
<1>2. CASE CoherenceNext
  <2>1. exposed' \in [Keys -> BOOLEAN]
    BY <1>2 DEF CoherenceNext, Observe
  <2>2. ASSUME NEW x \in Keys, ~exposed'[x] PROVE UpToDate(x)'
    <3>1. CASE Cold(x)'
      BY <3>1 DEF Cold, UpToDate, Overlap, BeingSet, Agrees, Current
    <3>2. CASE ~Cold(x)'
      <4>1. ~exposed[x] /\ ~Overlap(x)' /\ ~ChangedBehind(x)
        BY <1>2, <2>2, <3>2 DEF CoherenceNext, Observe
      <4>2. UpToDate(x)
        BY <4>1 DEF CInv, FreshUnlessExposed
      <4>3. QED
        BY <1>2, <4>1, <4>2, FreshStep DEF CInv, CoherenceNext
    <3>3. QED
      BY <3>1, <3>2
  <2>3. QED
    BY <1>1, <2>1, <2>2 DEF CInv, FreshUnlessExposed
<1>3. CASE UNCHANGED <<apiVars, exposed>>
  BY <1>1, <1>3 DEF CInv, FreshUnlessExposed, UpToDate, Overlap, BeingSet, Agrees, Current,
                    Asking, apiVars
<1>4. QED
  BY <1>2, <1>3

\* It holds at the start: nothing is cached or asked for.
LEMMA CoherenceInitInv == CoherenceInit => CInv
<1> SUFFICES ASSUME CoherenceInit PROVE CInv
  OBVIOUS
<1>1. IInv
  BY InitInv DEF CoherenceInit
<1>2. \A k \in Keys : UpToDate(k)
  BY DEF CoherenceInit, ApiInit, HttpInit, CacheInit, UpToDate, Overlap, BeingSet, Agrees, Current,
         Asking, NoCall, Silent
<1>3. QED
  BY <1>1, <1>2 DEF CInv, CoherenceInit, FreshUnlessExposed

\* An answer under way, and a cached value, is the server's for every key
\* that is not exposed.
THEOREM FreshnessInductive == CoherenceSpec => []FreshUnlessExposed
<1>1. CInv => FreshUnlessExposed
  BY DEF CInv
<1>2. QED
  BY <1>1, CoherenceInitInv, CoherenceStep, PTL DEF CoherenceSpec

\* The cache disagrees with the server only about keys that met a race:
\* lost, refused, garbled and timed-out calls alone never cause it.
THEOREM CacheCoherent == CoherenceSpec => []Coherent
<1>1. FreshUnlessExposed => Coherent
  BY DEF FreshUnlessExposed, UpToDate, Coherent
<1>2. QED
  BY <1>1, FreshnessInductive, PTL

\* A get that ends with a text ends by a hit or with an answer.
LEMMA GetEnds ==
    ASSUME IInv, ApiNext, NEW c \in Callers, result[c] = NoResult, result'[c].arc # NoArc
    PROVE  \/ \E k \in Keys : Hit(c, k)
           \/ \E a \in Arcs : GetFilled(c, a)
<1> USE DEF IInv, TypeOK, Results, NoResult
<1>1. ASSUME NEW d \in Callers, NEW k \in Keys \cup {BadKey}, Reject(d, k) PROVE FALSE
  BY <1>1 DEF Reject, Finish, Error
<1>2. ASSUME NEW d \in Callers, NEW k \in Keys, Hit(d, k) PROVE c = d
  BY <1>2 DEF Hit, Finish
<1>3. ASSUME NEW d \in Callers, NEW a \in Arcs, GetFilled(d, a) PROVE c = d
  BY <1>3 DEF GetFilled, Finish
<1>4. ASSUME NEW d \in Callers, GetFailed(d) \/ Release(d) PROVE FALSE
  BY <1>4 DEF GetFailed, Release, Finish, Error
<1>5. ASSUME UNCHANGED result PROVE FALSE
  BY <1>5
<1>6. QED
  BY <1>1, <1>2, <1>3, <1>4, <1>5
     DEF ApiNext, Return, Miss, BeginSet, SendRequest, SetStored, SetFailed, Purge

\* A get returns the server's value of its key, unless a set of the key is
\* under way or the key met a race.
LEMMA CurrentStep ==
    ASSUME CInv, CoherenceNext, NEW c \in Callers, NEW k \in Keys,
           result[c] = NoResult, result'[c].arc # NoArc, call'[c].key = k,
           ~exposed[k], ~BeingSet(k)
    PROVE  text'[result'[c].arc] = store[k]
<1>1. IInv /\ ApiNext /\ UpToDate(k)
  BY DEF CInv, CoherenceNext, FreshUnlessExposed
<1> USE <1>1 DEF IInv, TypeOK, HttpTypeOK, CacheTypeOK
<1>2. ASSUME NEW x \in Keys, Hit(c, x) PROVE text'[result'[c].arc] = store[k]
  <2>1. x = k /\ result'[c].arc = entry[k] /\ entry[k] # NoArc /\ text' = text
    BY <1>2 DEF Hit, Enter, Finish, Get, Success, Clone
  <2>2. QED
    BY <2>1 DEF UpToDate, Agrees
<1>3. ASSUME NEW a \in Arcs, GetFilled(c, a) PROVE text'[result'[c].arc] = store[k]
  <2>1. wire[c].phase = "reply" /\ wire[c].status = "200"
    BY <1>3 DEF GetFilled, Receive, GetCode
  <2>2. wire[c] # Silent /\ call[c].op = "get" /\ call[c].key = k
    BY <1>3, <2>1 DEF GetFilled, Silent
  <2>3. wire[c].body = store[k]
    BY <2>1, <2>2 DEF UpToDate, Current, Asking
  <2>4. result'[c].arc = a /\ text'[a] = wire[c].body
    BY <1>3 DEF GetFilled, Finish, Success, Insert, Allocate
  <2>5. QED
    BY <2>3, <2>4
<1>4. QED
  BY <1>2, <1>3, GetEnds

\* Whoever asks gets the server's present value: a hit is as good as a
\* request, and an answer that took its time is still right.
THEOREM GetsAreCurrent == CoherenceSpec => GetsCurrent
<1>1. CInv /\ [CoherenceNext]_<<apiVars, exposed>> =>
        [\A c \in Callers, k \in Keys :
            /\ result[c] = NoResult /\ result'[c].arc # NoArc /\ call'[c].key = k
            /\ ~exposed[k] /\ ~BeingSet(k)
            => text'[result'[c].arc] = store[k]]_<<apiVars, exposed>>
  BY CurrentStep
<1>2. QED
  BY <1>1, CoherenceInitInv, CoherenceStep, PTL DEF CoherenceSpec, GetsCurrent

-----------------------------------------------------------------------------
(* For the specifications that implement KvApi *)

\* The history variable can stand next to any of them.
THEOREM WatchedApi == ApiSpec /\ Watched => CoherenceSpec
<1>1. ApiInit /\ exposed = [k \in Keys |-> FALSE] => CoherenceInit
  BY DEF CoherenceInit
<1>2. [ApiNext]_apiVars /\ [apiVars' # apiVars /\ Observe]_<<apiVars, exposed>>
        => [CoherenceNext]_<<apiVars, exposed>>
  BY DEF CoherenceNext
<1>3. QED
  BY <1>1, <1>2, PTL DEF ApiSpec, Watched, CoherenceSpec

\* So what is proved of the cache holds wherever KvApi is implemented.
THEOREM WatchedCoherent == ApiSpec /\ Watched => []Coherent /\ GetsCurrent
BY WatchedApi, CacheCoherent, GetsAreCurrent, PTL

-----------------------------------------------------------------------------
(* When there are no races *)

\* With no other HTTP user, no restart and no PUT that outlives its call,
\* nothing but a set of this client changes the server's values.
LEMMA OwnChanges ==
    ASSUME ForeignKeys = {}, Strays = {}, ~MayRestart, IInv, ApiNext, NEW k \in Keys
    PROVE  ~ChangedBehind(k)
<1> USE DEF IInv, TypeOK, HttpTypeOK
<1>1. ASSUME NEW c \in Callers, ServePut(c) PROVE ~ChangedBehind(k)
  <2>1. wire[c].phase = "request" /\ wire[c].op = "put" /\ wire[c] # Silent
    BY <1>1 DEF ServePut, Pending, Silent
  <2>2. wire[c] = RequestOf(call[c]) /\ InCall(c)
    BY <2>1 DEF Matched
  <2>3. call[c].op = "set" /\ call[c].key = wire[c].key
    BY <2>1, <2>2 DEF RequestOf, GetRequest, PutRequest, InCall, Calls
  <2>4. wire'[c] # wire[c]
    BY <1>1, <2>1 DEF ServePut, Answer, Reply
  <2>5. \A x \in Keys : store'[x] # store[x] => x = wire[c].key
    BY <1>1 DEF ServePut
  <2>6. QED
    BY <2>1, <2>3, <2>4, <2>5 DEF ChangedBehind, Asking
<1>2. ASSUME NEW c \in Callers,
             ServeGet(c) \/ Refuse(c) \/ Garble(c) \/ LoseReply(c) \/ Timeout(c)
      PROVE  ~ChangedBehind(k)
  BY <1>2 DEF ServeGet, Refuse, Garble, LoseReply, Timeout, ChangedBehind
<1>3. HttpStep => ~ChangedBehind(k)
  BY <1>1, <1>2 DEF HttpStep, ForeignPut, ForeignDelete, Restart
<1>4. UNCHANGED store => ~ChangedBehind(k)
  BY DEF ChangedBehind
<1>5. ASSUME NEW c \in Callers, Return(c) PROVE UNCHANGED store
  BY <1>5 DEF Return, GetFilled, SetStored, GetFailed, SetFailed, Receive
<1>6. ASSUME NEW c \in Callers, SendRequest(c) \/ Release(c) PROVE UNCHANGED store
  BY <1>6 DEF SendRequest, Send, Release, httpVars
<1>7. ASSUME NEW c \in Callers, NEW x \in Keys \cup {BadKey},
             Reject(c, x) \/ Hit(c, x) \/ Miss(c, x) \/ \E v \in Values : BeginSet(c, x, v)
      PROVE  UNCHANGED store
  BY <1>7 DEF Reject, Hit, Miss, BeginSet, httpVars
<1>8. QED
  BY <1>3, <1>4, <1>5, <1>6, <1>7 DEF ApiNext, Purge, httpVars

\* A client that is the only user of a server that stays up, whose requests
\* end with their calls and whose callers leave a key alone while it is being
\* set, has the write-through cache that ffi.rs:256 speaks of: the races of
\* Coherent are the only ones.
THEOREM ExclusiveUse ==
    ASSUME ForeignKeys = {}, Strays = {}, ~MayRestart
    PROVE  CoherenceSpec /\ [](\A k \in Keys : ~Overlap(k))
              => [](WriteThrough /\ \A k \in Keys : ~exposed[k])
<1> DEFINE Clean == \A k \in Keys : ~exposed[k]
<1>1. CoherenceInit => Clean
  BY DEF CoherenceInit
<1>2. CInv /\ Clean /\ [CoherenceNext]_<<apiVars, exposed>> /\ (\A k \in Keys : ~Overlap(k))'
        => Clean'
  <2> SUFFICES ASSUME CInv, Clean, CoherenceNext, (\A k \in Keys : ~Overlap(k))',
                      NEW k \in Keys
               PROVE  ~exposed'[k]
    OBVIOUS
  <2>1. ~ChangedBehind(k)
    BY OwnChanges DEF CInv, CoherenceNext
  <2>2. QED
    BY <2>1 DEF CoherenceNext, Observe
<1>3. CInv /\ Clean => WriteThrough /\ \A k \in Keys : ~exposed[k]
  BY DEF CInv, FreshUnlessExposed, UpToDate, WriteThrough
<1> HIDE DEF Clean
<1>4. QED
  BY <1>1, <1>2, <1>3, CoherenceInitInv, CoherenceStep, PTL DEF CoherenceSpec

\* One thread alone cannot overlap with itself: a program with one thread and
\* a server of its own gets the server's value from every get.
THEOREM SoleThread ==
    ASSUME ForeignKeys = {}, Strays = {}, ~MayRestart, NEW c0, Callers = {c0}
    PROVE  ApiSpec /\ Watched => [](WriteThrough /\ \A k \in Keys : ~exposed[k]) /\ GetsCurrent
<1>1. \A k \in Keys : ~Overlap(k)
  BY DEF Overlap
<1>2. QED
  BY <1>1, WatchedApi, ExclusiveUse, WatchedCoherent, PTL
=============================================================================
