------------------------------- MODULE KvCsAsync ----------------------------
(***************************************************************************)
(* The C# binding of the asynchronous C API (bindings/csharp/KvStore/      *)
(* KvStoreAsyncClient.cs): a TaskCompletionSource in a context object that *)
(* a GCHandle keeps alive for the callback.                                *)
(*                                                                         *)
(* Call c of KvAsync is one GetRefAsync or SetAsync.  The thread that      *)
(* makes it, the worker that completes it, the token that cancels it and   *)
(* the thread that disposes the client run in any order; only Dispose has  *)
(* a lock, against itself.  GetAsync and TryGetAsync are a GetRefAsync, an *)
(* await and a Dispose of the reference.                                   *)
(*                                                                         *)
(* A GCHandle is a slot of a table of the runtime, which gives a freed slot *)
(* to a later Alloc.  A callback whose handle was freed finds it empty, and *)
(* the exception ends the process, or the context of whoever has it now.   *)
(* "overlap" and "twice" remember what the code cannot cope with.          *)
(***************************************************************************)
EXTENDS KvAsync

CONSTANTS
    Cancels,   \* whether the host cancels calls
    Careful,   \* whether it disposes the client only when it has awaited every
               \* task and disposed every reference
    Slots,     \* the runtime's table of GCHandles
    NoSlot     \* no handle

ASSUME CsAssumption ==
    /\ Cancels \in BOOLEAN
    /\ Careful \in BOOLEAN
    /\ NoSlot \notin Slots

VARIABLES
    disposed,  \* _disposed
    handle,    \* _handle: "null" or "open"
    disposing, \* where the thread inside Dispose is
    clearing,  \* a thread is inside ClearCache, past the check of the flag
    overlap,   \* what was under way when the client was disposed
    table,     \* table[s]: the context that a GCHandle leads to
    slot,      \* slot[c]: the GCHandle of c, user_data of its callback
    twice,     \* some GCHandle was freed a second time
    pending,   \* _pendingOperations: the calls with an entry
    unseen,    \* the entries that the loop of Dispose has not come to
    hand,      \* the entry that the loop has a copy of
    frame,     \* frame[c]: where the thread in GetRefAsync or SetAsync is
    tcs,       \* tcs[c]: its TaskCompletionSource, until it is awaited
    cb,        \* cb[c]: where its callback is
    valueRef,  \* valueRef[c]: who has the AsyncValueRef of its result
    crashed    \* the process has ended

dispVars == <<disposed, handle, disposing, clearing, overlap>>
handleVars == <<table, slot, twice, pending, unseen, hand>>
callVars == <<frame, tcs, cb, valueRef>>
csVars == <<vars, dispVars, handleVars, callVars, crashed>>

NoFrame == [at |-> "none"]
NoCb    == [at |-> "none"]
NoRef   == [at |-> "none"]
Empty   == [op |-> "none"]

CsInit ==
    /\ Init
    /\ disposed = FALSE /\ handle = "null" /\ disposing = "no" /\ clearing = FALSE
    /\ overlap = "none"
    /\ table = [s \in Slots |-> Empty]
    /\ slot = [c \in Callers |-> NoSlot]
    /\ twice = FALSE
    /\ pending = {} /\ unseen = {} /\ hand = {}
    /\ frame = [c \in Callers |-> NoFrame]
    /\ tcs = [c \in Callers |-> "none"]
    /\ cb = [c \in Callers |-> NoCb]
    /\ valueRef = [c \in Callers |-> NoRef]
    /\ crashed = FALSE

Crash == crashed' = TRUE /\ UNCHANGED <<vars, dispVars, handleVars, callVars>>

\* The GCHandle of c leads to the context of c.
Live(c) ==
    /\ slot[c] # NoSlot
    /\ table[slot[c]] # Empty
    /\ table[slot[c]].task = c

\* The runtime does not notice a second Free: it takes the handle of whoever
\* has the slot by then.
Free(c) ==
    /\ table' = [table EXCEPT ![slot[c]] = Empty]
    /\ twice' = (twice \/ ~Live(c))

-----------------------------------------------------------------------------
(* The constructor and ClearCache *)

Construct ==
    /\ ~disposed
    /\ Open
    /\ handle' = "open"
    /\ UNCHANGED <<disposed, disposing, clearing, overlap, handleVars, callVars, crashed>>

\* ThrowIfDisposed.  GetCacheStats goes the same way and changes nothing.
BeginClear ==
    /\ ~clearing
    /\ client # "null" /\ ~disposed
    /\ clearing' = TRUE
    /\ UNCHANGED <<vars, disposed, handle, disposing, overlap, handleVars, callVars, crashed>>

\* The native call, with the handle as it was at some moment since, does
\* nothing with a null client.
EndClear ==
    /\ clearing
    /\ IF handle = "open" THEN CacheClear ELSE UNCHANGED vars
    /\ clearing' = FALSE
    /\ UNCHANGED <<disposed, handle, disposing, overlap, handleVars, callVars, crashed>>

\* Its client was destroyed after the check.
ClearDangling ==
    /\ clearing
    /\ client = "destroyed"
    /\ Crash

-----------------------------------------------------------------------------
(* GetRefAsync and SetAsync, on the host's thread *)

\* Nothing is left of an earlier use of c.
Fresh(c) ==
    /\ frame[c] = NoFrame /\ tcs[c] = "none" /\ cb[c] = NoCb /\ valueRef[c] = NoRef
    /\ task[c] = "none" /\ call[c] = NoCall
    /\ ~Live(c) /\ c \notin pending

\* ThrowIfDisposed, and a task that the token can cancel.
Begin(c) ==
    /\ Fresh(c)
    /\ client # "null" /\ ~disposed
    /\ \E op \in {"get", "set"} : frame' = [frame EXCEPT ![c] = [at |-> "entered", op |-> op]]
    /\ tcs' = [tcs EXCEPT ![c] = "pending"]
    /\ UNCHANGED <<vars, dispVars, handleVars, cb, valueRef, crashed>>

\* The context, for which _handle was read at some moment since, its GCHandle
\* and the entry in _pendingOperations, which a loop under way may pass over.
Prepare(c) ==
    /\ frame[c].at = "entered"
    /\ frame' = [frame EXCEPT ![c].at = "prepared"]
    /\ \E s \in Slots, h \in {"open", handle} :
          /\ table[s] = Empty
          /\ table' = [table EXCEPT ![s] = [op |-> frame[c].op, task |-> c, client |-> h]]
          /\ slot' = [slot EXCEPT ![c] = s]
    /\ pending' = pending \cup {c}
    /\ \/ UNCHANGED unseen
       \/ disposing = "freeing" /\ unseen' = unseen \cup {c}
    /\ UNCHANGED <<vars, dispVars, twice, hand, tcs, cb, valueRef, crashed>>

\* The native call's first argument is read.
ReadHandle(c) ==
    /\ frame[c].at = "prepared"
    /\ frame' = [frame EXCEPT ![c] = [at |-> "calling", op |-> frame[c].op, client |-> handle]]
    /\ UNCHANGED <<vars, dispVars, handleVars, tcs, cb, valueRef, crashed>>

AtCall(c, op) == frame[c].at = "calling" /\ frame[c].op = op

\* The C API runs the callback inside the call.
Inside(c, ok) ==
    /\ frame' = [frame EXCEPT ![c].at = "inside"]
    /\ cb' = [cb EXCEPT ![c] = [at |-> "due", op |-> frame[c].op, ok |-> ok]]
    /\ UNCHANGED <<dispVars, handleVars, tcs, valueRef, crashed>>

\* A null client, a bad key or a bad value.
CallRejected(c) ==
    /\ \/ AtCall(c, "set") /\ UNCHANGED vars
       \/ /\ AtCall(c, "get")
          /\ \E k \in Keys \cup {BadKey} :
                (frame[c].client = "null" \/ k = BadKey) /\ GetInvalid(c, k)
    /\ Inside(c, FALSE)

CallHit(c) ==
    /\ AtCall(c, "get") /\ frame[c].client = "open"
    /\ \E k \in Keys : GetHit(c, k)
    /\ Inside(c, TRUE)

\* The callback has run inside the call, which now returns.
CallReturns(c) ==
    /\ frame[c].at = "inside" /\ cb[c] = NoCb
    /\ frame' = [frame EXCEPT ![c] = NoFrame]
    /\ UNCHANGED <<vars, dispVars, handleVars, tcs, cb, valueRef, crashed>>

CallSpawns(c) ==
    /\ frame[c].at = "calling" /\ frame[c].client = "open"
    /\ Spawn(c) /\ call'[c].op = frame[c].op
    /\ frame' = [frame EXCEPT ![c] = NoFrame]
    /\ UNCHANGED <<dispVars, handleVars, tcs, cb, valueRef, crashed>>

\* The client was destroyed after its handle had been read; what the call
\* does with the freed memory is not followed further.
CallDangling(c) ==
    /\ frame[c].at = "calling" /\ frame[c].client = "open"
    /\ client = "destroyed"
    /\ Crash

\* TrySetCanceled: the token's registration is there until the callback
\* disposes it.
Cancel(c) ==
    /\ Cancels
    /\ tcs[c] = "pending"
    /\ tcs' = [tcs EXCEPT ![c] = "canceled"]
    /\ UNCHANGED <<vars, dispVars, handleVars, frame, cb, valueRef, crashed>>

-----------------------------------------------------------------------------
(* OnGetComplete and OnSetComplete *)

\* The SDK calls back on a worker.
CallBack(c) ==
    /\ Deliver(c)
    /\ cb' = [cb EXCEPT ![c] =
                 [at |-> "due", op |-> call[c].op,
                  ok |-> "Success" = IF call[c].op = "set" THEN SetCode(wire[c])
                                                           ELSE GetCode(wire[c])]]
    /\ UNCHANGED <<dispVars, handleVars, frame, tcs, valueRef, crashed>>

\* What FromIntPtr and Target lead to.
Context(c) == table[slot[c]]

\* A task is completed once; what comes second is dropped.
TryComplete(d, s) ==
    tcs' = [tcs EXCEPT ![d] = IF @ = "pending" THEN s ELSE @]

\* A get's result, good or bad, goes into an AsyncValueRef; nobody has it when
\* TrySetResult came too late.
CompleteGet(c, d) ==
    /\ TryComplete(d, "result")
    /\ valueRef' = [valueRef EXCEPT ![c] =
                       IF tcs[d] = "pending"
                       THEN [at |-> "task", task |-> d, client |-> Context(c).client]
                       ELSE [at |-> "nobody"]]

\* Mutant: an error does not complete the task of a set.
Complete_IgnoresError(c) ==
    /\ cb[c].at = "due" /\ Context(c).op = cb[c].op
    /\ cb' = [cb EXCEPT ![c] = [at |-> "done", task |-> Context(c).task]]
    /\ IF cb[c].op = "get"
       THEN CompleteGet(c, Context(c).task)
       ELSE /\ IF cb[c].ok THEN TryComplete(Context(c).task, "result") ELSE UNCHANGED tcs
            /\ UNCHANGED valueRef
    /\ UNCHANGED <<vars, dispVars, handleVars, frame, crashed>>

\* Mutant: SetResult and SetException, which throw on a canceled task.
Complete_NotTry(c) ==
    /\ cb[c].at = "due" /\ Context(c).op = cb[c].op
    /\ tcs[Context(c).task] # "pending"
    /\ Crash

\* The registration is disposed and the task completed.
Complete(c) ==
    /\ cb[c].at = "due" /\ Context(c).op = cb[c].op
    /\ cb' = [cb EXCEPT ![c] = [at |-> "done", task |-> Context(c).task]]
    /\ IF cb[c].op = "get"
       THEN CompleteGet(c, Context(c).task)
       ELSE /\ TryComplete(Context(c).task, IF cb[c].ok THEN "result" ELSE "exception")
            /\ UNCHANGED valueRef
    /\ UNCHANGED <<vars, dispVars, handleVars, frame, crashed>>

\* The slot is empty or has a context of the other class: an exception, which
\* nothing catches between here and the SDK.
TargetWrong(c) ==
    /\ cb[c].at = "due" /\ Context(c).op # cb[c].op
    /\ Crash

\* finally: TryRemove, with the id in the context.
RemoveEntry(c) ==
    /\ cb[c].at = "done"
    /\ cb' = [cb EXCEPT ![c] = [at |-> "removed"]]
    /\ pending' = pending \ {cb[c].task}
    /\ unseen' = unseen \ {cb[c].task}
    /\ UNCHANGED <<vars, dispVars, table, slot, twice, hand, frame, tcs, valueRef, crashed>>

\* Mutant: the handle is not freed.
FreeHandle_Keeps(c) ==
    /\ cb[c].at = "removed"
    /\ cb' = [cb EXCEPT ![c] = NoCb]
    /\ UNCHANGED <<vars, dispVars, handleVars, frame, tcs, valueRef, crashed>>

\* gcHandle.Free(), whatever has become of the slot.  An entry may still have
\* the handle.
FreeHandle(c) ==
    /\ cb[c].at = "removed"
    /\ cb' = [cb EXCEPT ![c] = NoCb]
    /\ Free(c)
    /\ slot' = [slot EXCEPT ![c] = IF c \in pending \cup hand THEN @ ELSE NoSlot]
    /\ UNCHANGED <<vars, dispVars, pending, unseen, hand, frame, tcs, valueRef, crashed>>

Leave(c) ==
    /\ cb[c] = NoCb
    /\ CallbackReturns(c)
    /\ UNCHANGED <<dispVars, handleVars, callVars, crashed>>

-----------------------------------------------------------------------------
(* The host and the task *)

\* await, once the task is completed: the host has the reference in it.
Await(c) ==
    /\ tcs[c] \in {"result", "exception", "canceled"}
    /\ tcs' = [tcs EXCEPT ![c] = "none"]
    /\ valueRef' = [d \in Callers |->
                       IF valueRef[d].at = "task" /\ valueRef[d].task = c
                       THEN [valueRef[d] EXCEPT !.at = "host"] ELSE valueRef[d]]
    /\ UNCHANGED <<vars, dispVars, handleVars, frame, cb, crashed>>

\* Mutant: Dispose of the reference only sets its flag.
DisposeRef_FlagOnly(c) ==
    /\ valueRef[c].at = "host"
    /\ valueRef' = [valueRef EXCEPT ![c] = NoRef]
    /\ UNCHANGED <<vars, dispVars, handleVars, frame, tcs, cb, crashed>>

\* Dispose of the AsyncValueRef, once; the client may be gone.  Without one
\* in its context nothing is released.
DisposeRef(c) ==
    /\ valueRef[c].at = "host"
    /\ IF valueRef[c].client = "open"
       THEN HandBack(c) /\ valueRef' = [valueRef EXCEPT ![c] = NoRef]
       ELSE UNCHANGED vars /\ valueRef' = [valueRef EXCEPT ![c] = [at |-> "nobody"]]
    /\ UNCHANGED <<dispVars, handleVars, frame, tcs, cb, crashed>>

-----------------------------------------------------------------------------
(* Dispose of the client *)

\* The callback of c is still to come, or not past its Free.
Awaited(c) ==
    \/ frame[c].at \in {"prepared", "calling"}
    \/ task[c] \in {"queued", "waiting"}
    \/ cb[c] # NoCb

\* What a host can see of its calls.
CallUnderWay ==
    clearing \/ \E c \in Callers : frame[c] # NoFrame \/ tcs[c] = "pending"

AllAwaited ==
    /\ ~CallUnderWay
    /\ \A c \in Callers : tcs[c] = "none" /\ valueRef[c].at \in {"none", "nobody"}

Meeting ==
    IF CallUnderWay THEN "host"
    ELSE IF \E c \in Callers : Awaited(c) THEN "callback" ELSE "none"

\* Mutant: the flag is set last.
BeginDispose_FlagLast ==
    /\ client = "open" /\ ~disposed /\ disposing = "no"
    /\ Careful => AllAwaited
    /\ disposing' = "freeing"
    /\ unseen' = pending
    /\ overlap' = Meeting
    /\ UNCHANGED <<vars, disposed, handle, clearing, table, slot, twice, pending, hand,
                   callVars, crashed>>

\* The flag goes up inside the lock; whoever comes second does nothing.
BeginDispose ==
    /\ client = "open" /\ ~disposed /\ disposing = "no"
    /\ Careful => AllAwaited
    /\ disposed' = TRUE
    /\ disposing' = "freeing"
    /\ unseen' = pending
    /\ overlap' = Meeting
    /\ UNCHANGED <<vars, handle, clearing, table, slot, twice, pending, hand, callVars, crashed>>

\* The loop comes to an entry: kvp is a copy of it.
TakeEntry(c) ==
    /\ disposing = "freeing" /\ hand = {} /\ c \in unseen
    /\ hand' = {c}
    /\ unseen' = unseen \ {c}
    /\ UNCHANGED <<vars, dispVars, table, slot, twice, pending, callVars, crashed>>

\* IsAllocated asks the copy, which does not know of a Free by the callback.
FreeEntry(c) ==
    /\ c \in hand
    /\ Free(c)
    /\ hand' = {}
    /\ UNCHANGED <<vars, dispVars, slot, pending, unseen, callVars, crashed>>

\* _pendingOperations.Clear(), also of what the loop has passed over.
ClearPending ==
    /\ disposing = "freeing" /\ hand = {} /\ unseen = {}
    /\ disposing' = "destroying"
    /\ pending' = {}
    /\ UNCHANGED <<vars, disposed, handle, clearing, overlap, table, slot, twice, unseen, hand,
                   callVars, crashed>>

DestroyNative ==
    /\ disposing = "destroying"
    /\ Destroy
    /\ disposing' = "zeroing"
    /\ UNCHANGED <<disposed, handle, clearing, overlap, handleVars, callVars, crashed>>

EndDispose ==
    /\ disposing = "zeroing"
    /\ handle' = "null" /\ disposed' = TRUE
    /\ disposing' = "no"
    /\ UNCHANGED <<vars, clearing, overlap, handleVars, callVars, crashed>>

-----------------------------------------------------------------------------

ClientStep ==
    \/ Construct
    \/ BeginClear \/ EndClear \/ ClearDangling
    \/ BeginDispose \/ (\E c \in Callers : TakeEntry(c) \/ FreeEntry(c)) \/ ClearPending
    \/ DestroyNative \/ EndDispose

Call(c) == CallRejected(c) \/ CallHit(c) \/ CallSpawns(c) \/ CallDangling(c)

HostThread(c) == Prepare(c) \/ ReadHandle(c) \/ Call(c) \/ CallReturns(c)

Callback(c) == Complete(c) \/ TargetWrong(c) \/ RemoveEntry(c) \/ FreeHandle(c)

Worker(c) ==
    \/ Start(c) /\ UNCHANGED <<dispVars, handleVars, callVars, crashed>>
    \/ CallBack(c)
    \/ Leave(c)

CsNext ==
    /\ ~crashed
    /\ \/ ClientStep
       \/ \E c \in Callers :
             \/ Begin(c) \/ HostThread(c) \/ Cancel(c)
             \/ Worker(c) \/ Callback(c)
             \/ Await(c) \/ DisposeRef(c)
       \/ (Network \/ Moka) /\ UNCHANGED <<dispVars, handleVars, callVars, crashed>>

CsSpec == CsInit /\ [][CsNext]_csVars

\* As in KvAsync, until the process ends.  A thread inside GetRefAsync or
\* SetAsync runs on, and so does a callback: it is the binding's own, and
\* continuations of the host run elsewhere (RunContinuationsAsynchronously).
\* The host need not await, cancel or dispose anything.
CsFairness ==
    /\ \A c \in Callers :
          /\ WF_csVars(~crashed /\ Timeout(c)
                       /\ UNCHANGED <<cacheVars, call, result, asyncVars,
                                      dispVars, handleVars, callVars, crashed>>)
          /\ SF_csVars(~crashed /\ Start(c) /\ UNCHANGED <<dispVars, handleVars, callVars, crashed>>)
          /\ SF_csVars(~crashed /\ CallBack(c))
          /\ WF_csVars(~crashed /\ HostThread(c))
          /\ WF_csVars(~crashed /\ Callback(c))
          /\ WF_csVars(~crashed /\ Leave(c))
    /\ \A a \in Arcs :
          WF_csVars(~crashed /\ Reclaim(a)
                    /\ UNCHANGED <<httpVars, call, result, asyncVars,
                                   dispVars, handleVars, callVars, crashed>>)

CsFairSpec == CsSpec /\ CsFairness

-----------------------------------------------------------------------------
(* Properties *)

\* Until a Dispose meets a call or a callback, a callback finds the context
\* that was allocated for it, frees its handle once, and its entry goes with
\* it; and whatever Dispose meets, no handle is left without a callback to
\* come, and none freed twice but by a Dispose and a callback together: those
\* of calls that the host has awaited may still be in their finally
\* (KvStoreAsyncClient.cs:100, 314, 329-330, 376-381).
HandleAlive ==
    /\ \A c \in Callers : Live(c) => Awaited(c)
    /\ twice => overlap # "none"
    /\ overlap = "none" =>
          \A c \in Callers :
              /\ Awaited(c) => Live(c)
              /\ c \in pending <=> Awaited(c) /\ cb[c].at # "removed"
              /\ cb[c].at = "done" => cb[c].task = c

\* No call of GetRefAsync, SetAsync or ClearCache goes in with the handle of a
\* destroyed client, unless the host disposed it under that call: then the
\* flag, checked before the handle is read, does not save it
\* (KvStoreAsyncClient.cs:160, 188, 298-299, 373).
ClientAlive ==
    (\/ clearing
     \/ \E c \in Callers : frame[c].at = "calling" /\ frame[c].client = "open")
    => client = "open" \/ overlap = "host"

\* A get's result is in the hands of its callback, of its task or of the host,
\* until the host disposes it; there is no finalizer.  Only when calls are
\* canceled, or the client is disposed under them, can it be nobody's, or in
\* the task of another call (KvStoreAsyncClient.cs:75, 323-324).
ResultOwned ==
    \A c \in Callers :
        result[c] # NoResult =>
            \/ cb[c].at = "due" /\ valueRef[c] = NoRef
            \/ /\ valueRef[c].at = "task"
               /\ tcs[valueRef[c].task] = "result"
               /\ valueRef[c].task = c \/ overlap = "host"
            \/ valueRef[c].at = "host"
            \/ valueRef[c].at = "nobody" /\ (Cancels \/ overlap = "host")

\* A task that is not completed has somebody who will complete it: the thread
\* in GetRefAsync or SetAsync, the SDK's task or a callback that has not got to
\* it (KvStoreAsyncClient.cs:324, 348, 353).  No path forgets it but a Dispose
\* under the call.
TaskAnswered ==
    \A c \in Callers :
        tcs[c] = "pending" =>
            \/ frame[c].at \in {"entered", "prepared", "calling"}
            \/ task[c] \in {"queued", "waiting"}
            \/ cb[c].at = "due"
            \/ overlap = "host"

\* Arcs is a bound of the model: the allocator always has a block again.
BlocksLeft == []<>(\E a \in Arcs : strong[a] = 0)

\* Every task is completed, whatever the server does and the host cancels, if
\* the host does not dispose the client under it
\* (KvStoreAsyncClient.cs:324, 348, 353).
TaskCompletes ==
    BlocksLeft => \A c \in Callers : tcs[c] = "pending" ~> tcs[c] # "pending"

\* Only a Dispose under a call ends the process, or one after a call that was
\* canceled: its task is completed long before its callback comes.  No
\* cancellation and no callback ends it by itself
\* (KvStoreAsyncClient.cs:165, 315, 330, 379).
CrashNeedsDispose ==
    crashed => overlap = "host" \/ (overlap = "callback" /\ Cancels)

\* When a disposed client's calls are over and its references disposed, no
\* handle is left, and of the texts what moka has yet to drop and those that
\* nobody got, for ever: of calls that were canceled, or had the client
\* disposed under them (KvStoreAsyncClient.cs:323-324, 330, 376).
OnlyCanceledLeak ==
    (/\ client = "destroyed"
     /\ \A c \in Callers :
           /\ frame[c] = NoFrame /\ task[c] = "none" /\ cb[c] = NoCb
           /\ valueRef[c].at \in {"none", "nobody"})
    => /\ \A c \in Callers : ~Live(c)
       /\ overlap # "host" => pending = {}
       /\ \A a \in Arcs :
             strong[a] = Cardinality({c \in Holders(a) : /\ valueRef[c].at = "nobody"
                                                         /\ Cancels \/ overlap = "host"})
                         + (IF a \in retired THEN 1 ELSE 0)
=============================================================================
