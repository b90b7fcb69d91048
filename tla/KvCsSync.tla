------------------------------- MODULE KvCsSync -----------------------------
(***************************************************************************)
(* The C# binding of the synchronous C API (bindings/csharp/KvStore/       *)
(* KvStoreClient.cs and ValueRef.cs).                                      *)
(*                                                                         *)
(* Any threads share one client and may dispose it, and a ValueRef, at any *)
(* moment: Dispose of the client has a lock against itself, and nothing    *)
(* else is locked.  What breaks then is the use of freed memory, which ends *)
(* the process, or a lost result; "raced" remembers whether the host did   *)
(* what the code cannot cope with.                                         *)
(***************************************************************************)
EXTENDS KvSync

VARIABLES
    disposed,  \* _disposed of the client
    handle,    \* _handle: "null" or "open"
    disposing, \* where the thread inside Dispose of the client is
    clearing,  \* where the thread inside ClearCache is, with the handle it read
    frame,     \* frame[c]: where the thread in GetRef, Get or Set is
    ref,       \* ref[c]: the ValueRef with the result of c
    inside,    \* inside[c]: threads in its Dispose, past the check of the flag
    reading,   \* reading[c]: the block that a thread has a span of, or NoArc
    raced,     \* the client was disposed under a call, or a ValueRef by two
               \* threads or under a reader
    crashed    \* the process has ended

dispVars == <<disposed, handle, disposing, clearing>>
refVars == <<ref, inside, reading>>
csVars == <<vars, dispVars, frame, refVars, raced, crashed>>

NoFrame == [at |-> "none"]
NoRef   == [state |-> "none"]

CsInit ==
    /\ Init
    /\ disposed = FALSE /\ handle = "null" /\ disposing = "no" /\ clearing = "no"
    /\ frame = [c \in Callers |-> NoFrame]
    /\ ref = [c \in Callers |-> NoRef]
    /\ inside = [c \in Callers |-> 0]
    /\ reading = [c \in Callers |-> NoArc]
    /\ raced = FALSE /\ crashed = FALSE

Crash == crashed' = TRUE /\ UNCHANGED <<vars, dispVars, frame, refVars, raced>>

-----------------------------------------------------------------------------
(* KvStoreClient: the constructor, ClearCache *)

Construct ==
    /\ client = "null" /\ ~disposed
    /\ Open
    /\ handle' = "open"
    /\ UNCHANGED <<disposed, disposing, clearing, frame, refVars, raced, crashed>>

\* ThrowIfDisposed.  GetCacheStats goes the same way and changes nothing.
BeginClear ==
    /\ clearing = "no"
    /\ client # "null" /\ ~disposed
    /\ clearing' = "entered"
    /\ UNCHANGED <<vars, disposed, handle, disposing, frame, refVars, raced, crashed>>

\* The native call's argument is read.
ClearReadsHandle ==
    /\ clearing = "entered"
    /\ clearing' = handle
    /\ UNCHANGED <<vars, disposed, handle, disposing, frame, refVars, raced, crashed>>

\* The native call, which does nothing with a null client.
ClearCalls ==
    /\ clearing \in {"null", "open"}
    /\ IF clearing = "open" THEN CacheClear ELSE UNCHANGED vars
    /\ clearing' = "no"
    /\ UNCHANGED <<disposed, handle, disposing, frame, refVars, raced, crashed>>

ClearDangling ==
    /\ clearing = "open" /\ client = "destroyed"
    /\ Crash

-----------------------------------------------------------------------------
(* KvStoreClient: GetRef, Get (TryGet is the same but for what it returns) *)
(* and Set                                                                 *)

At(c, place) == frame[c].at = place
Goto(c, f) == frame' = [frame EXCEPT ![c] = f]

\* ThrowIfDisposed.
Begin(c) ==
    /\ frame[c] = NoFrame /\ ref[c] = NoRef /\ call[c] = NoCall
    /\ client # "null" /\ ~disposed
    /\ \E fn \in {"GetRef", "Get", "Set"} : Goto(c, [at |-> "entered", fn |-> fn])
    /\ UNCHANGED <<vars, dispVars, refVars, raced, crashed>>

\* The native call's first argument is read.
ReadHandle(c) ==
    /\ At(c, "entered")
    /\ Goto(c, [at |-> "calling", fn |-> frame[c].fn, client |-> handle])
    /\ UNCHANGED <<vars, dispVars, refVars, raced, crashed>>

InNative(c) == frame' = [frame EXCEPT ![c].at = "native"]

CallGet(c) ==
    /\ At(c, "calling") /\ frame[c].fn # "Set"
    /\ IF frame[c].client = "null"
       THEN \E k \in Keys \cup {BadKey} : GetInvalid(c, k)
       ELSE GetInvalid(c, BadKey) \/ (GetOrSet(c) /\ call'[c].op = "get")
    /\ InNative(c)
    /\ UNCHANGED <<dispVars, refVars, raced, crashed>>

CallSet(c) ==
    /\ At(c, "calling") /\ frame[c].fn = "Set" /\ frame[c].client = "open"
    /\ GetOrSet(c) /\ call'[c].op = "set"
    /\ InNative(c)
    /\ UNCHANGED <<dispVars, refVars, raced, crashed>>

\* A null client, a bad key or a bad value; an empty one is a null pointer
\* after "fixed".
SetInvalid(c) ==
    /\ At(c, "calling") /\ frame[c].fn = "Set"
    /\ Goto(c, NoFrame)
    /\ UNCHANGED <<vars, dispVars, refVars, raced, crashed>>

\* The client was destroyed after its handle had been read; what the call
\* does with the freed memory is not followed further.
CallDangling(c) ==
    /\ At(c, "calling") /\ frame[c].client = "open"
    /\ client = "destroyed"
    /\ Crash

InSdk(c) ==
    /\ Ask(c) \/ (Resume(c) /\ call[c].op = "get")
    /\ UNCHANGED <<dispVars, frame, refVars, raced, crashed>>

SetReturns(c) ==
    /\ Resume(c) /\ call[c].op = "set"
    /\ Goto(c, NoFrame)
    /\ UNCHANGED <<dispVars, refVars, raced, crashed>>

Returned(c, fn) == At(c, "native") /\ frame[c].fn = fn /\ result[c] # NoResult

\* new ValueRef(_handle, result): the handle is read once more.
GetRefReturns(c) ==
    /\ Returned(c, "GetRef")
    /\ ref' = [ref EXCEPT ![c] = [state |-> "open", client |-> handle]]
    /\ Goto(c, NoFrame)
    /\ UNCHANGED <<vars, dispVars, inside, reading, raced, crashed>>

\* The ValueRef of Get is a local that "using" disposes; with a null client
\* it releases nothing.  No other thread has it, so that the text is read and
\* released in one step.
GetReturns(c) ==
    /\ Returned(c, "Get")
    /\ IF handle = "open"
       THEN HandBack(c) /\ UNCHANGED ref
       ELSE /\ ref' = [ref EXCEPT ![c] = [state |-> "disposed", client |-> "null"]]
            /\ UNCHANGED vars
    /\ Goto(c, NoFrame)
    /\ UNCHANGED <<dispVars, inside, reading, raced, crashed>>

-----------------------------------------------------------------------------
(* ValueRef *)

\* How many threads dispose one ValueRef at once.
MaxInside == 2

\* if (!_disposed): nothing keeps a second thread from getting past it too,
\* nor is anybody who reads asked.
EnterDispose(c) ==
    /\ ref[c].state = "open" /\ inside[c] < MaxInside
    /\ inside' = [inside EXCEPT ![c] = @ + 1]
    /\ raced' = (raced \/ inside[c] > 0 \/ reading[c] # NoArc)
    /\ UNCHANGED <<vars, dispVars, frame, ref, reading, crashed>>

\* When its last user leaves, the object goes if its result was released.
NoUser(c) == inside'[c] = 0 /\ reading'[c] = NoArc /\ result'[c] = NoResult

\* Mutant: only the flag is set.
Release_FlagOnly(c) ==
    /\ inside[c] > 0
    /\ inside' = [inside EXCEPT ![c] = @ - 1]
    /\ ref' = [ref EXCEPT ![c] = IF inside[c] = 1 THEN NoRef ELSE [@ EXCEPT !.state = "disposed"]]
    /\ UNCHANGED <<vars, dispVars, frame, reading, raced, crashed>>

\* The flag is set and, unless _client is null, kv_store_release_get called,
\* which does nothing when the other thread's call has nulled the handle.
ReleaseRef(c) ==
    /\ inside[c] > 0
    /\ inside' = [inside EXCEPT ![c] = @ - 1]
    /\ IF ref[c].client = "open" /\ result[c] # NoResult
       THEN HandBack(c) ELSE UNCHANGED vars
    /\ UNCHANGED <<dispVars, frame, reading, raced, crashed>>
    /\ ref' = [ref EXCEPT ![c] = IF NoUser(c) THEN NoRef ELSE [@ EXCEPT !.state = "disposed"]]

\* Both threads see the handle before either has nulled it.
ReleaseTwice(c) ==
    /\ inside[c] > 1
    /\ ref[c].client = "open" /\ result[c].arc # NoArc
    /\ Crash

\* AsSpan, and AsString, which reads a span of its own: past the check of the
\* flag the reader has the pointer, whatever becomes of the result.
BeginRead(c) ==
    /\ ref[c].state = "open" /\ result[c].arc # NoArc
    /\ reading[c] = NoArc
    /\ reading' = [reading EXCEPT ![c] = result[c].arc]
    /\ raced' = (raced \/ inside[c] > 0)
    /\ UNCHANGED <<vars, dispVars, frame, ref, inside, crashed>>

EndRead(c) ==
    /\ reading[c] # NoArc
    /\ reading' = [reading EXCEPT ![c] = NoArc]
    /\ UNCHANGED <<vars, dispVars, frame, inside, raced, crashed>>
    /\ ref' = [ref EXCEPT ![c] = IF NoUser(c) THEN NoRef ELSE @]

\* The text was freed under its reader.
ReadFreed(c) ==
    /\ reading[c] # NoArc
    /\ strong[reading[c]] = 0
    /\ Crash

\* The host lets the reference go without a Dispose.
ForgetRef(c) ==
    /\ ref[c].state = "open" /\ inside[c] = 0 /\ reading[c] = NoArc
    /\ ref' = [ref EXCEPT ![c].state = "forgotten"]
    /\ UNCHANGED <<vars, dispVars, frame, inside, reading, raced, crashed>>

-----------------------------------------------------------------------------
(* KvStoreClient: Dispose *)

CallUnderWay == clearing # "no" \/ \E c \in Callers : frame[c] # NoFrame

\* Mutant: the flag is set last.
BeginDispose_FlagLast ==
    /\ client = "open" /\ ~disposed /\ disposing = "no"
    /\ disposing' = "destroying"
    /\ raced' = (raced \/ CallUnderWay)
    /\ UNCHANGED <<vars, disposed, handle, clearing, frame, refVars, crashed>>

\* The flag goes up inside the lock; whoever comes second does nothing.
BeginDispose ==
    /\ client = "open" /\ ~disposed /\ disposing = "no"
    /\ disposed' = TRUE
    /\ disposing' = "destroying"
    /\ raced' = (raced \/ CallUnderWay)
    /\ UNCHANGED <<vars, handle, clearing, frame, refVars, crashed>>

DestroyNative ==
    /\ disposing = "destroying"
    /\ Destroy
    /\ disposing' = "zeroing"
    /\ UNCHANGED <<disposed, handle, clearing, frame, refVars, raced, crashed>>

\* A thread is inside of the client that is freed.
DestroyInUse ==
    /\ disposing = "destroying"
    /\ \E c \in Callers : InCall(c)
    /\ Crash

EndDispose ==
    /\ disposing = "zeroing"
    /\ handle' = "null" /\ disposed' = TRUE
    /\ disposing' = "no"
    /\ UNCHANGED <<vars, clearing, frame, refVars, raced, crashed>>

-----------------------------------------------------------------------------

ClientStep ==
    \/ Construct
    \/ BeginClear \/ ClearReadsHandle \/ ClearCalls \/ ClearDangling
    \/ BeginDispose \/ DestroyNative \/ DestroyInUse \/ EndDispose

CallStep(c) ==
    \/ ReadHandle(c)
    \/ CallGet(c) \/ CallSet(c) \/ SetInvalid(c) \/ CallDangling(c)
    \/ InSdk(c)
    \/ SetReturns(c) \/ GetRefReturns(c) \/ GetReturns(c)

RefStep(c) ==
    \/ EnterDispose(c) \/ ReleaseRef(c) \/ ReleaseTwice(c)
    \/ BeginRead(c) \/ EndRead(c) \/ ReadFreed(c)
    \/ ForgetRef(c)

CsNext ==
    /\ ~crashed
    /\ \/ ClientStep
       \/ \E c \in Callers : Begin(c) \/ CallStep(c) \/ RefStep(c)
       \/ (Network \/ Moka) /\ UNCHANGED <<dispVars, frame, refVars, raced, crashed>>

CsSpec == CsInit /\ [][CsNext]_csVars

-----------------------------------------------------------------------------
(* Properties *)

\* A result that nobody will release any more: its ValueRef has no client.
Lost(c) == ref[c] # NoRef /\ ref[c].client = "null" /\ result[c].arc # NoArc

\* A thread reads a text that its ValueRef no longer holds.
Astray(c) == reading[c] # NoArc /\ result[c].arc # reading[c]

\* The code copes with everything but three things: a Dispose of the client
\* under a call, a Dispose of a ValueRef by two threads at once, and one of a
\* ValueRef that another thread is reading.  Without them no freed memory is
\* used, no text read after its release and no result lost
\* (KvStoreClient.cs:86-95, 174, 187-204; ValueRef.cs:47-68, 75-85).
SafeUnlessRaced ==
    (crashed \/ (\E c \in Callers : Lost(c) \/ Astray(c))) => raced

\* A result that is out is that of a get about to return, or of one ValueRef
\* that has not been disposed or could not release (ValueRef.cs:26, 77).
ResultOwned ==
    \A c \in Callers :
        /\ result[c] # NoResult <=>
              \/ At(c, "native") /\ call[c].op = "get" /\ ~InCall(c)
              \/ ref[c].state \in {"open", "forgotten"}
              \/ ref[c].state = "disposed" /\ ref[c].client = "null"
        /\ inside[c] > 0 \/ reading[c] # NoArc => ref[c].state \in {"open", "disposed"}

\* A disposed client whose calls are over, in whatever order threads disposed
\* it and its references, leaves what moka has yet to drop, the texts of lost
\* results, and those of references that were dropped without a Dispose: the
\* finalizer that findings/ffi_memory_management.md:374-378 gives ValueRef is
\* not in the code (ValueRef.cs:20, KvStoreClient.cs:187-204).
OnlyForgottenLeak ==
    (/\ client = "destroyed"
     /\ \A c \in Callers : frame[c] = NoFrame /\ ref[c].state # "open")
    => \A a \in Arcs :
          strong[a] = Cardinality({c \in Holders(a) : ref[c].state = "forgotten" \/ Lost(c)})
                      + (IF a \in retired THEN 1 ELSE 0)
=============================================================================
