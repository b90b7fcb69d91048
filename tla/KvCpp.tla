-------------------------------- MODULE KvCpp -------------------------------
(***************************************************************************)
(* The C++ binding of the synchronous C API (bindings/cpp/include/         *)
(* kv_store.hpp): KvStoreClient and ValueRef, which own the C API's client *)
(* and results by RAII.                                                    *)
(*                                                                         *)
(* Objects of both classes are constructed, moved, assigned and destroyed  *)
(* at any moment by the threads of the host.  A thread c (a caller of      *)
(* KvSync) can be inside one member function; Get and TryGet keep their    *)
(* ValueRef on the stack.  Each action takes the step of KvSync that the   *)
(* C++ code makes, so the binding implements KvSync.                       *)
(***************************************************************************)
EXTENDS KvSync, KvCppObjects

CONSTANTS Refs    \* ValueRef objects of the host

VARIABLES
    ref,    \* ref[o]: ValueRef object o
    frame,  \* frame[c]: the member function thread c is inside
    told    \* told[c]: what thread c's last Get, TryGet or Set came to

bindVars == <<owner, ref, frame, told>>
cppVars == <<vars, bindVars>>

-----------------------------------------------------------------------------
(* State *)

NoRef == [state |-> "gone"]

\* A ValueRef whose client_ is set, with the result of thread c's call, and
\* one that will not release: moved from, or made by a moved-from client.
Owning(c) == [state |-> "owning", of |-> c]
Empty     == [state |-> "empty"]

Owns(o, c) == ref[o] = Owning(c)

NoFrame == [fn |-> "none"]
In(fn, x) == [fn |-> fn, on |-> x]

CppInit ==
    /\ Init
    /\ OwnerInit
    /\ ref = [o \in Refs |-> NoRef]
    /\ frame = [c \in Callers |-> NoFrame]
    /\ told = [c \in Callers |-> Nothing]

\* An object is not moved or destroyed while one of its functions runs; the
\* host sees to that, as for any C++ object.
Unused(x) == \A c \in Callers : frame[c] # NoFrame => frame[c].on # x

-----------------------------------------------------------------------------
(* KvStoreClient: constructor, destructor, moves, ClearCache *)

\* A failed kv_store_init throws, and there is no object.
Construct(x) ==
    /\ Acquire(x)
    /\ Open
    /\ UNCHANGED <<ref, frame, told>>

\* kv_store_destroy, unless client_ is null.
DestroyHandle(x) == IF owner[x] = "handle" THEN Destroy ELSE UNCHANGED vars

Destruct(x) ==
    /\ Vanish(x) /\ Unused(x)
    /\ DestroyHandle(x)
    /\ UNCHANGED <<ref, frame, told>>

\* KvStoreClient y(std::move(x)).
MoveConstruct(x, y) ==
    /\ Exists(x) /\ Unused(x)
    /\ owner[y] = "gone"
    /\ Transfer(x, y)
    /\ UNCHANGED <<vars, ref, frame, told>>

\* Mutant: the assignment forgets the client it overwrites.
MoveAssign_Forgets(x, y) ==
    /\ x # y
    /\ Exists(x) /\ Unused(x)
    /\ Exists(y) /\ Unused(y)
    /\ Transfer(x, y)
    /\ UNCHANGED <<vars, ref, frame, told>>

\* y = std::move(x); to itself it does nothing.
MoveAssign(x, y) ==
    /\ x # y
    /\ Exists(x) /\ Unused(x)
    /\ Exists(y) /\ Unused(y)
    /\ DestroyHandle(y)
    /\ Transfer(x, y)
    /\ UNCHANGED <<ref, frame, told>>

\* On a moved-from object it does nothing.
ClearCache(x) ==
    /\ owner[x] = "handle"
    /\ CacheClear
    /\ UNCHANGED bindVars

-----------------------------------------------------------------------------
(* KvStoreClient: GetRef, Get, TryGet, Set *)

Ready(c, x) == frame[c] = NoFrame /\ Exists(x)

EnterFn(c, fn, x) ==
    /\ frame' = [frame EXCEPT ![c] = In(fn, x)]
    /\ told' = [told EXCEPT ![c] = Nothing]
    /\ UNCHANGED <<owner, ref>>

\* The first line of GetRef, which Get and TryGet call: kv_store_get.
CallGet(c, x, fn) ==
    /\ Ready(c, x)
    /\ fn \in {"GetRef", "Get", "TryGet"}
    /\ IF owner[x] = "null"
       THEN \E k \in Keys \cup {BadKey} : GetInvalid(c, k)
       ELSE GetInvalid(c, BadKey) \/ (GetOrSet(c) /\ call'[c].op = "get")
    /\ EnterFn(c, fn, x)

CallSet(c, x) ==
    /\ Ready(c, x)
    /\ owner[x] = "handle"
    /\ GetOrSet(c) /\ call'[c].op = "set"
    /\ EnterFn(c, "Set", x)

\* A null client or a bad argument: kv_store_set only returns InvalidInput.
SetInvalid(c, x) ==
    /\ Ready(c, x) /\ call[c] = NoCall
    /\ told' = [told EXCEPT ![c] = SetOutcome("InvalidInput")]
    /\ UNCHANGED <<vars, owner, ref, frame>>

\* The thread goes on inside kv_store_get or kv_store_set.
InSdk(c) ==
    /\ Ask(c) \/ (Resume(c) /\ call[c].op = "get")
    /\ UNCHANGED bindVars

SetReturns(c) ==
    /\ Resume(c) /\ call[c].op = "set"
    /\ frame' = [frame EXCEPT ![c] = NoFrame]
    /\ told' = [told EXCEPT ![c] = SetOutcome(SetCode(wire[c]))]
    /\ UNCHANGED <<owner, ref>>

\* kv_store_get is back in function fn of thread c.
Returned(c, fn) == frame[c] # NoFrame /\ frame[c].fn = fn /\ result[c] # NoResult

Leave(c) == frame' = [frame EXCEPT ![c] = NoFrame]

\* GetRef returns ValueRef(client_, result).  With a null client_ the object
\* never releases, and the result is an error with nothing to release.
GetRefReturns(c, o) ==
    /\ Returned(c, "GetRef")
    /\ ref[o] = NoRef
    /\ IF owner[frame[c].on] = "handle"
       THEN /\ ref' = [ref EXCEPT ![o] = Owning(c)]
            /\ UNCHANGED vars
       ELSE /\ ref' = [ref EXCEPT ![o] = Empty]
            /\ HandBack(c)
    /\ Leave(c)
    /\ UNCHANGED <<owner, told>>

Pointee(c) == IF result[c].arc = NoArc THEN Freed ELSE text[result[c].arc]

\* Mutant: Get returns the view, and the copy is made from it by the caller.
GetReturns_ReadsLate(c) ==
    /\ \E fn \in {"Get", "TryGet"} :
          /\ Returned(c, fn)
          /\ HandBack(c)
          /\ told' = [told EXCEPT ![c] =
                Outcome(fn, call[c].key, result[c].code,
                        IF result[c].arc = NoArc THEN Freed ELSE text'[result[c].arc])]
    /\ Leave(c)
    /\ UNCHANGED <<owner, ref>>

\* The text is copied, or an exception is on its way, when the local
\* ValueRef goes out of scope and releases the result.
GetReturns(c) ==
    /\ \E fn \in {"Get", "TryGet"} :
          /\ Returned(c, fn)
          /\ told' = [told EXCEPT ![c] =
                Outcome(fn, call[c].key, result[c].code, Pointee(c))]
    /\ HandBack(c)
    /\ Leave(c)
    /\ UNCHANGED <<owner, ref>>

-----------------------------------------------------------------------------
(* ValueRef: destructor and moves *)

\* kv_store_release_get, unless client_ is null.  The client may be gone.
ReleaseRef(o) == IF ref[o].state = "owning" THEN HandBack(ref[o].of) ELSE UNCHANGED vars

DropRef(o) ==
    /\ ref[o] # NoRef
    /\ ReleaseRef(o)
    /\ ref' = [ref EXCEPT ![o] = NoRef]
    /\ UNCHANGED <<owner, frame, told>>

\* Mutant: the moved-from object keeps its client_.
MoveRef_KeepsClient(o, p) ==
    /\ ref[o] # NoRef /\ ref[p] = NoRef
    /\ ref' = [ref EXCEPT ![p] = ref[o]]
    /\ UNCHANGED <<vars, owner, frame, told>>

\* ValueRef p(std::move(o)).
MoveRef(o, p) ==
    /\ ref[o] # NoRef /\ ref[p] = NoRef
    /\ ref' = [ref EXCEPT ![p] = ref[o], ![o] = Empty]
    /\ UNCHANGED <<vars, owner, frame, told>>

\* p = std::move(o); to itself it does nothing.
AssignRef(o, p) ==
    /\ o # p
    /\ ref[o] # NoRef /\ ref[p] # NoRef
    /\ ReleaseRef(p)
    /\ ref' = [ref EXCEPT ![p] = ref[o], ![o] = Empty]
    /\ UNCHANGED <<owner, frame, told>>

-----------------------------------------------------------------------------

ClientStep ==
    \/ \E x \in Objs : Construct(x) \/ Destruct(x) \/ ClearCache(x)
    \/ \E x, y \in Objs : MoveConstruct(x, y) \/ MoveAssign(x, y)

CallStep(c) ==
    \/ \E x \in Objs :
          \/ \E fn \in {"GetRef", "Get", "TryGet"} : CallGet(c, x, fn)
          \/ CallSet(c, x)
          \/ SetInvalid(c, x)
    \/ InSdk(c)
    \/ SetReturns(c)
    \/ \E o \in Refs : GetRefReturns(c, o)
    \/ GetReturns(c)

RefStep ==
    \/ \E o \in Refs : DropRef(o)
    \/ \E o, p \in Refs : MoveRef(o, p) \/ AssignRef(o, p)

CppNext ==
    \/ ClientStep
    \/ \E c \in Callers : CallStep(c)
    \/ RefStep
    \/ (Network \/ Moka) /\ UNCHANGED bindVars

CppSpec == CppInit /\ [][CppNext]_cppVars

-----------------------------------------------------------------------------
(* Properties *)

CppTypeOK ==
    /\ owner \in [Objs -> Handles]
    /\ ref \in [Refs -> {NoRef, Empty} \cup {Owning(c) : c \in Callers}]
    /\ frame \in [Callers -> {NoFrame} \cup
                             [fn : {"GetRef", "Get", "TryGet", "Set"}, on : Objs]]

\* The native client is open exactly while one object holds it, through any
\* moves and assignments (kv_store.hpp:173-196); a thread inside a member
\* function uses an object that is there.
ClientOwned ==
    /\ client = "open" <=> \E x \in Objs : owner[x] = "handle"
    /\ SoleHolder
    /\ \A c \in Callers :
          /\ frame[c] # NoFrame => Exists(frame[c].on)
          /\ InCall(c) => frame[c] # NoFrame /\ owner[frame[c].on] = "handle"

\* A result that is out belongs to the function that fetched it or to one
\* ValueRef, never to two and never to none: no double release, no leak
\* (kv_store.hpp:92-120).
OneOwner ==
    /\ \A o, p \in Refs, c \in Callers : Owns(o, c) /\ Owns(p, c) => o = p
    /\ \A o \in Refs, c \in Callers : Owns(o, c) => result[c] # NoResult /\ frame[c] = NoFrame
    /\ \A c \in Callers : result[c] # NoResult /\ frame[c] = NoFrame => \E o \in Refs : Owns(o, c)
    /\ \A c \in Callers : frame[c] # NoFrame => call[c] # NoCall

\* The string that Get and TryGet return is a text somebody wrote, copied
\* before the result is released (kv_store.hpp:213-229): evictions, sets and
\* reuse of the block do not show in it.
CopiesWhole ==
    \A c \in Callers : told[c].kind = "text" => told[c].text \in Legal[told[c].key]

\* The destructors are enough: when no object owns the client or a result any
\* more and no thread is in a member function, the cache and every value are
\* gone, but for what moka has yet to drop (kv_store.hpp:98, 173).
LeakFree ==
    (/\ \A x \in Objs : owner[x] # "handle"
     /\ \A o \in Refs : ref[o].state # "owning"
     /\ \A c \in Callers : frame[c] = NoFrame)
    => \A a \in Arcs : strong[a] = IF a \in retired THEN 1 ELSE 0
=============================================================================
