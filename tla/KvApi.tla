------------------------------- MODULE KvApi --------------------------------
(***************************************************************************)
(* What the synchronous and the asynchronous C API of the SDK have in      *)
(* common: the bodies of get, set and release (core-sdk/src/ffi.rs and     *)
(* ffi_async.rs) over the cache (KvCache) and the HTTP exchange (KvHttp).  *)
(*                                                                         *)
(* A caller begins a call, the call sends its request when it needs the    *)
(* server, and handles the answer when there is one; calls of different    *)
(* callers and the steps of cache, network and server come in between.     *)
(* Who runs the steps - a blocked thread or tokio's workers - and the life *)
(* of the client are in KvSync and KvAsync, which implement this module.   *)
(***************************************************************************)
EXTENDS KvHttp, KvCache

CONSTANTS BadKey   \* a null key pointer, or bytes that are not UTF-8

ASSUME ApiAssumption == BadKey \notin Keys

VARIABLES
    call,     \* call[c]: the call that is running, or whose result is out
    result    \* result[c]: its KvGetResult, until it is released

apiVars == <<store, wire, late, entry, retired, strong, text, call, result>>

-----------------------------------------------------------------------------
(* State *)

NoCall     == [op |-> "none"]
Get(k)     == [op |-> "get", key |-> k]
Set(k, v)  == [op |-> "set", key |-> k, value |-> v]

NoResult == [code |-> "pending", arc |-> NoArc]

\* KvGetResult::success and ::error.
Success(a)  == [code |-> "Success", arc |-> a]
Error(code) == [code |-> code, arc |-> NoArc]

Calls == {NoCall} \cup [op : {"get"}, key : Keys \cup {BadKey}]
                  \cup [op : {"set"}, key : Keys, value : Values]
Results == [code : Codes \cup {"pending"}, arc : Arcs \cup {NoArc}]

\* The call is not finished.
InCall(c) == call[c] # NoCall /\ result[c] = NoResult

\* The caller has a result whose pointer leads to block a.
Holds(c, a) == a # NoArc /\ result[c].arc = a

RequestOf(x) == IF x.op = "get" THEN GetRequest(x.key) ELSE PutRequest(x.key, x.value)

ApiInit ==
    /\ HttpInit /\ CacheInit
    /\ call = [c \in Callers |-> NoCall]
    /\ result = [c \in Callers |-> NoResult]

-----------------------------------------------------------------------------
(* Get *)

Enter(c, x) == call[c] = NoCall /\ call' = [call EXCEPT ![c] = x]

Finish(c, r) == result' = [result EXCEPT ![c] = r]

\* A null client, or a key that is null or not UTF-8.
Reject(c, k) ==
    /\ Enter(c, Get(k))
    /\ Finish(c, Error("InvalidInput"))
    /\ UNCHANGED <<httpVars, cacheVars>>

\* Mutant: a hit hands out the cache's own pointer without a reference.
Hit_NoClone(c, k) ==
    /\ entry[k] # NoArc
    /\ Enter(c, Get(k))
    /\ Finish(c, Success(entry[k]))
    /\ UNCHANGED <<httpVars, cacheVars>>

Hit(c, k) ==
    /\ entry[k] # NoArc
    /\ Enter(c, Get(k))
    /\ Clone(entry[k])
    /\ Finish(c, Success(entry[k]))
    /\ UNCHANGED <<httpVars, entry, retired>>

Miss(c, k) ==
    /\ entry[k] = NoArc
    /\ Enter(c, Get(k))
    /\ UNCHANGED <<httpVars, cacheVars, result>>

\* The call goes to the server (get or set).
SendRequest(c) ==
    /\ InCall(c)
    /\ Send(c, RequestOf(call[c]))
    /\ UNCHANGED <<cacheVars, call, result>>

\* A good answer goes into the cache and to the caller, whatever happened
\* to the key since the request was sent.
GetFilled(c, a) ==
    /\ call[c].op = "get"
    /\ Receive(c)
    /\ GetCode(wire[c]) = "Success"
    /\ Insert(call[c].key, wire[c].body, a, 2)
    /\ Finish(c, Success(a))
    /\ UNCHANGED call

GetFailed(c) ==
    /\ call[c].op = "get"
    /\ Receive(c)
    /\ GetCode(wire[c]) # "Success"
    /\ Finish(c, Error(GetCode(wire[c])))
    /\ UNCHANGED <<cacheVars, call>>

\* Mutant: the handle is not nulled, so the result can be released again.
Release_KeepsHandle(c) ==
    /\ result[c] # NoResult
    /\ IF result[c].arc = NoArc THEN UNCHANGED <<strong, text>>
                                ELSE Drop(result[c].arc)
    /\ UNCHANGED <<httpVars, entry, retired, call, result>>

\* kv_store_release_get.  It does not look at the client, which may be gone.
\* The handle is nulled: a second release of the result does nothing.
Release(c) ==
    /\ result[c] # NoResult
    /\ IF result[c].arc = NoArc THEN UNCHANGED <<strong, text>>
                                ELSE Drop(result[c].arc)
    /\ Finish(c, NoResult)
    /\ call' = [call EXCEPT ![c] = NoCall]
    /\ UNCHANGED <<httpVars, entry, retired>>

-----------------------------------------------------------------------------
(* Set: with an invalid argument it returns before it changes anything, so *)
(* that is no step.                                                        *)

BeginSet(c, k, v) ==
    /\ v \in Legal[k]
    /\ Enter(c, Set(k, v))
    /\ UNCHANGED <<httpVars, cacheVars, result>>

\* Mutant: the Arc that insert returns is leaked instead of dropped.
SetStored_LeaksArc(c, a) ==
    /\ call[c].op = "set"
    /\ Receive(c)
    /\ SetCode(wire[c]) = "Success"
    /\ Insert(call[c].key, call[c].value, a, 2)
    /\ call' = [call EXCEPT ![c] = NoCall]
    /\ UNCHANGED result

SetStored(c, a) ==
    /\ call[c].op = "set"
    /\ Receive(c)
    /\ SetCode(wire[c]) = "Success"
    /\ Insert(call[c].key, call[c].value, a, 1)
    /\ call' = [call EXCEPT ![c] = NoCall]
    /\ UNCHANGED result

\* Mutant: a failed set leaves the cached value alone.
SetFailed_KeepsEntry(c) ==
    /\ call[c].op = "set"
    /\ Receive(c)
    /\ SetCode(wire[c]) # "Success"
    /\ call' = [call EXCEPT ![c] = NoCall]
    /\ UNCHANGED <<cacheVars, result>>

\* After any error the cached value may or may not be the server's.
SetFailed(c) ==
    /\ call[c].op = "set"
    /\ Receive(c)
    /\ SetCode(wire[c]) # "Success"
    /\ Invalidate(call[c].key)
    /\ call' = [call EXCEPT ![c] = NoCall]
    /\ UNCHANGED result

-----------------------------------------------------------------------------

\* A call that has its answer ends.
Return(c) ==
    \/ \E a \in Arcs : GetFilled(c, a) \/ SetStored(c, a)
    \/ GetFailed(c)
    \/ SetFailed(c)

\* Entries go: expired, evicted, cleared, or dropped with the cache.
Purge == \E K \in SUBSET Keys : Remove(K) /\ UNCHANGED <<httpVars, call, result>>

ApiNext ==
    \/ \E c \in Callers :
          \/ \E k \in Keys \cup {BadKey} : Reject(c, k)
          \/ \E k \in Keys : Hit(c, k) \/ Miss(c, k)
          \/ \E k \in Keys, v \in Values : BeginSet(c, k, v)
          \/ SendRequest(c)
          \/ Return(c)
          \/ Release(c)
    \/ HttpStep /\ UNCHANGED <<cacheVars, call, result>>
    \/ Purge
    \/ \E a \in Arcs : Reclaim(a) /\ UNCHANGED <<httpVars, call, result>>

ApiSpec == ApiInit /\ [][ApiNext]_apiVars

-----------------------------------------------------------------------------
(* Properties *)

\* Every variable has its type; a count that falls below zero is a double
\* release in ffi.rs.
TypeOK ==
    /\ HttpTypeOK /\ CacheTypeOK
    /\ call \in [Callers -> Calls]
    /\ result \in [Callers -> Results]

Holders(a) == {c \in Callers : Holds(c, a)}

CacheOwns(a) == a \in retired \/ \E k \in Keys : entry[k] = a

Counted(a) ==
    strong[a] = Cardinality(Holders(a)) + (IF CacheOwns(a) THEN 1 ELSE 0)

\* The reference counts that into_raw and from_raw (ffi.rs:63, 222) keep by
\* hand are exact: one for the cache as long as moka has the value, one for
\* each result that is out, and none else.  A missing one is a use after
\* free under some later eviction; one too many is a leak.
ArcCount == \A a \in Arcs : Counted(a)

\* No two places of the cache own the same block, so that no removal drops
\* the reference of another.
SoleOwner ==
    /\ \A k1, k2 \in Keys : entry[k1] = entry[k2] /\ entry[k1] # NoArc => k1 = k2
    /\ \A k \in Keys : entry[k] \notin retired

\* An open exchange is that of the caller's running call; a result out is a
\* finished get's, and an Arc comes with Success and with nothing else
\* (ffi.rs:56-80).
Matched ==
    \A c \in Callers :
        /\ wire[c] # Silent => InCall(c)
        /\ InCall(c) => call[c].key \in Keys
        /\ wire[c].phase = "request" => wire[c] = RequestOf(call[c])
        /\ result[c] # NoResult =>
              call[c].op = "get" /\ (result[c].code = "Success" <=> result[c].arc # NoArc)

\* What the counts and the texts rest on.
Bookkeeping == SoleOwner /\ Matched

\* No text ever shows up at a key it was not written at: not in the store,
\* on the wire, in the cache or in a result, however calls on different keys
\* interleave and blocks are reused.
NoCrossTalk ==
    /\ \A k \in Keys : store[k] \in Legal[k] \cup {Absent}
    /\ \A c \in Callers :
          /\ call[c].op = "set" => call[c].value \in Legal[call[c].key]
          /\ (call[c].op = "get" /\ wire[c].phase = "reply" /\ wire[c].status = "200")
                => wire[c].body \in Legal[call[c].key]
          /\ result[c].arc # NoArc =>
                call[c].key \in Keys /\ text[result[c].arc] \in Legal[call[c].key]
    /\ \A s \in Strays :
          late[s] # Silent =>
             late[s] \in {PutRequest(late[s].key, v) : v \in Legal[late[s].key]}
    /\ \A k \in Keys : entry[k] # NoArc => text[entry[k]] \in Legal[k]

\* What a caller sees of its call x with result r whose pointer reads t.
View(x, r, t) ==
    CASE x = NoCall -> [state |-> "idle"]
      [] x # NoCall /\ r = NoResult -> [state |-> "calling", op |-> x.op, key |-> x.key]
      [] x # NoCall /\ r # NoResult /\ r.arc = NoArc -> [state |-> "failed", key |-> x.key]
      [] x # NoCall /\ r.arc # NoArc -> [state |-> "lent", key |-> x.key, text |-> t]

Slot(c) == View(call[c], result[c],
                IF result[c].arc = NoArc THEN Freed ELSE text[result[c].arc])

Loans == INSTANCE KvLoans WITH slot <- [c \in Callers |-> Slot(c)]

\* The API keeps its promise to the holder of a result: the text is one
\* written at the requested key, and it neither changes nor goes away before
\* the release, through evictions, overwrites, cache_clear and destroy.
LoansKept == Loans!Spec
=============================================================================
