--------------------------- MODULE KvCsAsync_proofs --------------------------
(***************************************************************************)
(* The asynchronous C# binding implements KvAsync, and what holds of its   *)
(* handles, tasks and results for every host, however it cancels calls and *)
(* whenever it disposes the client: everything until a Dispose, and after  *)
(* it as much as "overlap", what that Dispose met, leaves.                 *)
(***************************************************************************)
EXTENDS KvCsAsync, KvAsync_proofs

\* Whatever threads call, cancel and dispose, the C API sees its own steps
\* until the process has ended.
LEMMA CsStep == [CsNext]_csVars => [Next]_vars
<1> SUFFICES ASSUME CsNext PROVE Next \/ UNCHANGED vars
  BY DEF csVars
<1> USE DEF Crash
<1>1. CASE ClientStep
  BY <1>1 DEF ClientStep, Construct, BeginClear, EndClear, ClearDangling, BeginDispose, TakeEntry,
              FreeEntry, ClearPending, DestroyNative, EndDispose, Next
<1>2. ASSUME NEW c \in Callers, HandBack(c) \/ Spawn(c) \/ Task(c) PROVE Next
  BY <1>2 DEF Next, Host
<1>3. ASSUME NEW c \in Callers, Begin(c) \/ HostThread(c) PROVE Next \/ UNCHANGED vars
  <2>1. CASE CallRejected(c) \/ CallHit(c)
    BY <2>1 DEF CallRejected, CallHit, Next, Host
  <2>2. QED
    BY <1>2, <1>3, <2>1
    DEF Begin, HostThread, Prepare, ReadHandle, Call, CallSpawns, CallDangling, CallReturns
<1>4. ASSUME NEW c \in Callers, Worker(c) PROVE Next
  BY <1>2, <1>4 DEF Worker, CallBack, Leave, Task
<1>5. ASSUME NEW c \in Callers, Callback(c) \/ Cancel(c) \/ Await(c) PROVE UNCHANGED vars
  BY <1>5 DEF Callback, Complete, TargetWrong, RemoveEntry, FreeHandle, Cancel, Await
<1>6. ASSUME NEW c \in Callers, DisposeRef(c) PROVE Next \/ UNCHANGED vars
  BY <1>2, <1>6 DEF DisposeRef
<1>7. CASE Network \/ Moka
  BY <1>7 DEF Next
<1>8. QED
  BY <1>1, <1>3, <1>4, <1>5, <1>6, <1>7 DEF CsNext

\* The binding implements the asynchronous API.
THEOREM CsKeepsAsync == CsSpec => Spec
<1>1. CsInit => Init
  BY DEF CsInit
<1>2. QED
  BY <1>1, CsStep, PTL DEF CsSpec, Spec

-----------------------------------------------------------------------------
(* Types *)

Ops == {"get", "set"}
Clients == {"null", "open"}

Frames ==
    {NoFrame} \cup [at : {"entered", "prepared"}, op : Ops]
              \cup [at : {"calling", "inside"}, op : Ops, client : Clients]

Cbs ==
    {NoCb} \cup [at : {"due"}, op : Ops, ok : BOOLEAN]
           \cup [at : {"done"}, task : Callers] \cup [at : {"removed"}]

Contexts == [op : Ops, task : Callers, client : Clients]

Refs ==
    {NoRef} \cup [at : {"nobody"}]
            \cup [at : {"task", "host"}, task : Callers, client : Clients]

CsTypeOK ==
    /\ disposed \in BOOLEAN /\ clearing \in BOOLEAN
    /\ twice \in BOOLEAN /\ crashed \in BOOLEAN
    /\ handle \in Clients
    /\ disposing \in {"no", "freeing", "destroying", "zeroing"}
    /\ overlap \in {"none", "callback", "host"}
    /\ table \in [Slots -> {Empty} \cup Contexts]
    /\ slot \in [Callers -> Slots \cup {NoSlot}]
    /\ pending \in SUBSET Callers /\ unseen \in SUBSET Callers /\ hand \in SUBSET Callers
    /\ frame \in [Callers -> Frames]
    /\ tcs \in [Callers -> {"none", "pending", "result", "exception", "canceled"}]
    /\ cb \in [Callers -> Cbs]
    /\ valueRef \in [Callers -> Refs]

\* A call has a handle until its callback is past the Free, and then none that
\* leads to it, whatever Dispose frees.
Slotted(c) ==
    /\ Awaited(c) => slot[c] # NoSlot
    /\ Live(c) => Awaited(c)

AllSlotted == \A c \in Callers : Slotted(c)

-----------------------------------------------------------------------------
(* What the steps do to the call they belong to *)

LEMMA PrepareDoes ==
  ASSUME CsTypeOK, NEW c \in Callers, Prepare(c)
  PROVE  /\ frame[c].at = "entered" /\ frame[c].op \in Ops
         /\ \E f \in Frames : /\ f.at = "prepared" /\ f.op = frame[c].op
                              /\ frame' = [frame EXCEPT ![c] = f]
         /\ \E s \in Slots, h \in Clients :
               /\ table[s] = Empty
               /\ table' = [table EXCEPT ![s] = [op |-> frame[c].op, task |-> c, client |-> h]]
               /\ slot' = [slot EXCEPT ![c] = s]
               /\ handle = "open" => h = "open"
         /\ pending' = pending \cup {c}
         /\ unseen' = unseen \/ (disposing = "freeing" /\ unseen' = unseen \cup {c})
         /\ UNCHANGED <<vars, dispVars, twice, hand, tcs, cb, valueRef, crashed>>
<1>1. frame[c].at = "entered" /\ frame' = [frame EXCEPT ![c] = [frame[c] EXCEPT !.at = "prepared"]]
  BY DEF Prepare
<1>2. /\ [frame[c] EXCEPT !.at = "prepared"] \in Frames /\ frame[c].op \in Ops
      /\ [frame[c] EXCEPT !.at = "prepared"].at = "prepared"
      /\ [frame[c] EXCEPT !.at = "prepared"].op = frame[c].op
  BY <1>1 DEF CsTypeOK, Frames, NoFrame, Ops
<1>3. \E s \in Slots, h \in Clients :
         /\ table[s] = Empty
         /\ table' = [table EXCEPT ![s] = [op |-> frame[c].op, task |-> c, client |-> h]]
         /\ slot' = [slot EXCEPT ![c] = s]
         /\ handle = "open" => h = "open"
  BY DEF Prepare, CsTypeOK, Clients
<1>4. /\ pending' = pending \cup {c}
      /\ unseen' = unseen \/ (disposing = "freeing" /\ unseen' = unseen \cup {c})
      /\ UNCHANGED <<vars, dispVars, twice, hand, tcs, cb, valueRef, crashed>>
  BY DEF Prepare
<1>5. QED
  BY <1>1, <1>2, <1>3, <1>4

\* A call answered inside.
LEMMA InsideDoes ==
  ASSUME IInv, TaskPerCall, CsTypeOK, NEW c \in Callers, CallRejected(c) \/ CallHit(c)
  PROVE  /\ frame[c].at = "calling" /\ frame[c].op \in Ops
         /\ \E f \in Frames : f.at = "inside" /\ frame' = [frame EXCEPT ![c] = f]
         /\ \E x \in Cbs : x.at = "due" /\ x.op = frame[c].op /\ cb' = [cb EXCEPT ![c] = x]
         /\ \/ frame[c].op = "set" /\ UNCHANGED <<call, result>>
            \/ /\ frame[c].op = "get"
               /\ \E x \in Calls : call' = [call EXCEPT ![c] = x]
               /\ \E r \in Results \ {NoResult} : result' = [result EXCEPT ![c] = r]
         /\ UNCHANGED <<task, client, dispVars, handleVars, tcs, valueRef, crashed>>
<1>1. PICK ok \in BOOLEAN : Inside(c, ok)
  BY DEF CallRejected, CallHit
<1>2. frame[c].at = "calling"
  BY DEF CallRejected, CallHit, AtCall
<1>3. /\ [frame[c] EXCEPT !.at = "inside"] \in Frames /\ frame[c].op \in Ops
      /\ [frame[c] EXCEPT !.at = "inside"].at = "inside"
  BY <1>2 DEF CsTypeOK, Frames, NoFrame, Ops
<1>4. [at |-> "due", op |-> frame[c].op, ok |-> ok] \in Cbs
  BY <1>3 DEF Cbs
<1>5. /\ UNCHANGED <<task, client>>
      /\ \/ frame[c].op = "set" /\ UNCHANGED <<call, result>>
         \/ /\ frame[c].op = "get"
            /\ \E x \in Calls : call' = [call EXCEPT ![c] = x]
            /\ \E r \in Results \ {NoResult} : result' = [result EXCEPT ![c] = r]
  <2>1. CASE CallRejected(c) /\ frame[c].op = "set"
    BY <2>1 DEF CallRejected, AtCall, vars, apiVars, asyncVars
  <2>2. CASE CallRejected(c) /\ frame[c].op # "set"
    <3>1. frame[c].op = "get" /\ \E k \in Keys \cup {BadKey} : GetInvalid(c, k)
      BY <2>2 DEF CallRejected, AtCall
    <3>2. UNCHANGED client
      BY <3>1 DEF GetInvalid, asyncVars
    <3>3. QED
      BY <3>1, <3>2, CallEffects
  <2>3. CASE CallHit(c)
    <3>1. frame[c].op = "get" /\ \E k \in Keys : GetHit(c, k)
      BY <2>3 DEF CallHit, AtCall
    <3>2. UNCHANGED client
      BY <3>1 DEF GetHit, asyncVars
    <3>3. QED
      BY <3>1, <3>2, CallEffects
  <2>4. QED
    BY <2>1, <2>2, <2>3
<1>6. QED
  BY <1>1, <1>2, <1>3, <1>4, <1>5 DEF Inside

LEMMA SpawnDoes ==
  ASSUME IInv, TaskPerCall, NEW c \in Callers, CallSpawns(c)
  PROVE  /\ frame[c].at = "calling" /\ frame' = [frame EXCEPT ![c] = NoFrame]
         /\ result[c] = NoResult
         /\ task' = [task EXCEPT ![c] = "queued"]
         /\ \E x \in Calls \ {NoCall} : x.op = frame[c].op /\ call' = [call EXCEPT ![c] = x]
         /\ UNCHANGED <<client, result, dispVars, handleVars, tcs, cb, valueRef, crashed>>
<1>1. /\ Spawn(c) /\ call'[c].op = frame[c].op /\ call \in [Callers -> Calls]
      /\ UNCHANGED client
  BY DEF CallSpawns, Spawn, IInv, TypeOK
<1>2. QED
  BY <1>1, CallEffects DEF CallSpawns

\* The SDK calls back from the task.
LEMMA CallBackDoes ==
  ASSUME IInv, TaskPerCall, NEW c \in Callers, CallBack(c)
  PROVE  /\ task[c] = "waiting" /\ task' = [task EXCEPT ![c] = "callback"]
         /\ result[c] = NoResult
         /\ \E x \in Cbs : x.at = "due" /\ x.op = call[c].op /\ cb' = [cb EXCEPT ![c] = x]
         /\ \/ /\ call[c].op = "get" /\ UNCHANGED call
               /\ \E r \in Results \ {NoResult} : result' = [result EXCEPT ![c] = r]
            \/ /\ call[c].op = "set" /\ UNCHANGED result
               /\ call' = [call EXCEPT ![c] = NoCall]
         /\ UNCHANGED <<client, dispVars, handleVars, frame, tcs, valueRef, crashed>>
<1>1. /\ Deliver(c)
      /\ UNCHANGED <<client, dispVars, handleVars, frame, tcs, valueRef, crashed>>
  BY DEF CallBack, Deliver
<1>2. /\ task[c] = "waiting" /\ task' = [task EXCEPT ![c] = "callback"]
      /\ result[c] = NoResult
      /\ \/ /\ call[c].op = "get" /\ UNCHANGED call
            /\ \E r \in Results \ {NoResult} : result' = [result EXCEPT ![c] = r]
         \/ /\ call[c].op = "set" /\ UNCHANGED result
            /\ call' = [call EXCEPT ![c] = NoCall]
  BY <1>1, TaskEffects
<1>3. \E x \in Cbs : x.at = "due" /\ x.op = call[c].op /\ cb' = [cb EXCEPT ![c] = x]
  <2> DEFINE good == "Success" = IF call[c].op = "set" THEN SetCode(wire[c])
                                                       ELSE GetCode(wire[c])
             x == [at |-> "due", op |-> call[c].op, ok |-> good]
  <2>1. cb' = [cb EXCEPT ![c] = x]
    BY DEF CallBack
  <2>2. good \in BOOLEAN /\ call[c].op \in Ops
    BY <1>2 DEF Ops
  <2>3. x \in Cbs /\ x.at = "due" /\ x.op = call[c].op
    BY <2>2 DEF Cbs
  <2>4. QED
    BY <2>1, <2>3
<1>4. QED
  BY <1>1, <1>2, <1>3

\* A callback completes the task of the context it finds.
LEMMA CompleteDoes ==
  ASSUME CsTypeOK, AllSlotted, NEW c \in Callers, Complete(c)
  PROVE  /\ cb[c].at = "due" /\ cb[c].op \in Ops
         /\ Context(c) \in Contexts /\ Context(c).op = cb[c].op
         /\ slot[c] \in Slots
         /\ cb' = [cb EXCEPT ![c] = [at |-> "done", task |-> Context(c).task]]
         /\ \E s \in {"result", "exception"} : TryComplete(Context(c).task, s)
         /\ \/ cb[c].op = "get" /\ CompleteGet(c, Context(c).task)
            \/ cb[c].op = "set" /\ UNCHANGED valueRef
         /\ UNCHANGED <<vars, dispVars, handleVars, frame, crashed>>
<1>1. cb[c].at = "due" /\ Context(c).op = cb[c].op
  BY DEF Complete
<1>2. cb[c].op \in Ops /\ cb[c] # NoCb
  BY <1>1 DEF CsTypeOK, Cbs, NoCb
<1>3. slot[c] \in Slots
  BY <1>2 DEF CsTypeOK, AllSlotted, Slotted, Awaited
<1>4. Context(c) \in Contexts
  BY <1>1, <1>2, <1>3 DEF CsTypeOK, Context, Empty, Ops
<1>5. /\ cb' = [cb EXCEPT ![c] = [at |-> "done", task |-> Context(c).task]]
      /\ UNCHANGED <<vars, dispVars, handleVars, frame, crashed>>
  BY DEF Complete
<1>6. /\ \E s \in {"result", "exception"} : TryComplete(Context(c).task, s)
      /\ \/ cb[c].op = "get" /\ CompleteGet(c, Context(c).task)
         \/ cb[c].op = "set" /\ UNCHANGED valueRef
  <2>1. CASE cb[c].op = "get"
    BY <2>1 DEF Complete, CompleteGet
  <2>2. CASE cb[c].op = "set"
    <3>1. TryComplete(Context(c).task, IF cb[c].ok THEN "result" ELSE "exception")
          /\ UNCHANGED valueRef
      BY <2>2 DEF Complete
    <3>2. QED
      BY <2>2, <3>1
  <2>3. QED
    BY <1>2, <2>1, <2>2 DEF Ops
<1>7. QED
  BY <1>1, <1>2, <1>3, <1>4, <1>5, <1>6

\* What it makes of tasks and references, point by point.
LEMMA CompletePoints ==
  ASSUME CsTypeOK, AllSlotted, NEW c \in Callers, Complete(c)
  PROVE  /\ Context(c).task \in Callers
         /\ \A e \in Callers \ {Context(c).task} : tcs'[e] = tcs[e]
         /\ tcs[Context(c).task] # "pending" => tcs'[Context(c).task] = tcs[Context(c).task]
         /\ tcs'[Context(c).task] # "pending"
         /\ \A e \in Callers \ {c} : valueRef'[e] = valueRef[e] /\ cb'[e] = cb[e]
         /\ cb'[c] = [at |-> "done", task |-> Context(c).task]
         /\ \/ cb[c].op = "set" /\ valueRef'[c] = valueRef[c]
            \/ /\ cb[c].op = "get" /\ tcs[Context(c).task] = "pending"
               /\ tcs'[Context(c).task] = "result"
               /\ valueRef'[c] =
                     [at |-> "task", task |-> Context(c).task, client |-> Context(c).client]
            \/ /\ cb[c].op = "get" /\ tcs[Context(c).task] # "pending"
               /\ valueRef'[c] = [at |-> "nobody"]
<1> DEFINE d == Context(c).task
<1>1. d \in Callers
  BY CompleteDoes DEF Contexts
<1> HIDE DEF d
<1>2. \E s \in {"result", "exception"} :
         tcs' = [tcs EXCEPT ![d] = IF tcs[d] = "pending" THEN s ELSE tcs[d]]
  BY CompleteDoes DEF TryComplete, d
<1>3. cb' = [cb EXCEPT ![c] = [at |-> "done", task |-> d]]
  BY CompleteDoes DEF d
<1>4. \/ cb[c].op = "set" /\ UNCHANGED valueRef
      \/ /\ cb[c].op = "get"
         /\ tcs' = [tcs EXCEPT ![d] = IF tcs[d] = "pending" THEN "result" ELSE tcs[d]]
         /\ valueRef' = [valueRef EXCEPT ![c] =
                            IF tcs[d] = "pending"
                            THEN [at |-> "task", task |-> d, client |-> Context(c).client]
                            ELSE [at |-> "nobody"]]
  BY CompleteDoes DEF CompleteGet, TryComplete, d
<1>5. QED
  BY <1>1, <1>2, <1>3, <1>4 DEF CsTypeOK, d

LEMMA DisposeRefDoes ==
  ASSUME IInv, TaskPerCall, NEW c \in Callers, DisposeRef(c)
  PROVE  /\ valueRef[c].at = "host"
         /\ \/ /\ valueRef' = [valueRef EXCEPT ![c] = NoRef]
               /\ call' = [call EXCEPT ![c] = NoCall]
               /\ result' = [result EXCEPT ![c] = NoResult]
            \/ /\ valueRef[c].client # "open"
               /\ valueRef' = [valueRef EXCEPT ![c] = [at |-> "nobody"]]
               /\ UNCHANGED <<call, result>>
         /\ UNCHANGED <<task, client, dispVars, handleVars, frame, tcs, cb, crashed>>
<1>1. CASE valueRef[c].client = "open"
  BY <1>1, CallEffects DEF DisposeRef, HandBack, asyncVars
<1>2. CASE valueRef[c].client # "open"
  BY <1>2 DEF DisposeRef, vars, apiVars, asyncVars
<1>3. QED
  BY <1>1, <1>2

\* The client's own steps touch nothing of a call but its handle and entry.
LEMMA ClientDoes ==
  ASSUME ClientStep
  PROVE  /\ UNCHANGED <<task, call, result, slot, callVars>>
         /\ table' = table \/ \E c \in Callers : FreeEntry(c)
<1> USE DEF Crash, callVars, handleVars
<1>1. CASE Construct \/ DestroyNative \/ EndDispose
  BY <1>1 DEF Construct, DestroyNative, EndDispose, Open, Destroy, vars, apiVars, asyncVars
<1>2. CASE BeginClear \/ EndClear \/ ClearDangling
  BY <1>2 DEF BeginClear, EndClear, ClearDangling, CacheClear, vars, apiVars, asyncVars
<1>3. CASE BeginDispose \/ ClearPending \/ \E c \in Callers : TakeEntry(c) \/ FreeEntry(c)
  BY <1>3 DEF BeginDispose, TakeEntry, FreeEntry, ClearPending, vars, apiVars, asyncVars
<1>4. QED
  BY <1>1, <1>2, <1>3 DEF ClientStep

\* The binding's own variables keep their types.
LEMMA CsTypeStep ==
  IInv /\ TaskPerCall /\ CsTypeOK /\ AllSlotted /\ [CsNext]_csVars => CsTypeOK'
<1> SUFFICES ASSUME IInv, TaskPerCall, CsTypeOK, AllSlotted, [CsNext]_csVars PROVE CsTypeOK'
  OBVIOUS
<1> USE DEF CsTypeOK, dispVars, handleVars, callVars
<1>1. CASE ClientStep
  <2>1. CASE BeginDispose
    <3>1. Meeting \in {"none", "callback", "host"}
      BY DEF Meeting
    <3>2. /\ overlap' \in {"none", "callback", "host"}
          /\ disposed' = TRUE /\ disposing' = "freeing" /\ unseen' = pending
          /\ UNCHANGED <<handle, clearing, table, slot, twice, pending, hand, callVars, crashed>>
      BY <2>1, <3>1 DEF BeginDispose
    <3>3. QED
      BY <3>2
  <2>2. ASSUME NEW c \in Callers, FreeEntry(c) PROVE CsTypeOK'
    BY <2>2 DEF FreeEntry, Free
  <2>3. QED
    BY <1>1, <2>1, <2>2
    DEF ClientStep, Construct, BeginClear, EndClear, ClearDangling, TakeEntry, ClearPending,
        DestroyNative, EndDispose, Crash, Clients
<1>2. ASSUME NEW c \in Callers, Begin(c) \/ Prepare(c) \/ ReadHandle(c) \/ CallReturns(c)
      PROVE  CsTypeOK'
  <2>1. CASE Begin(c)
    BY <2>1 DEF Begin, Frames, Ops
  <2>2. CASE Prepare(c)
    <3>1. /\ frame' \in [Callers -> Frames] /\ table' \in [Slots -> {Empty} \cup Contexts]
          /\ slot' \in [Callers -> Slots \cup {NoSlot}]
      BY <2>2, PrepareDoes DEF Contexts
    <3>2. QED
      BY <2>2, <3>1, PrepareDoes
  <2>3. CASE ReadHandle(c)
    BY <2>3 DEF ReadHandle, Frames, NoFrame, Ops
  <2>4. CASE CallReturns(c)
    BY <2>4 DEF CallReturns, Frames
  <2>5. QED
    BY <1>2, <2>1, <2>2, <2>3, <2>4
<1>3. ASSUME NEW c \in Callers, CallRejected(c) \/ CallHit(c) PROVE CsTypeOK'
  BY <1>3, InsideDoes
<1>4. ASSUME NEW c \in Callers, CallSpawns(c) PROVE CsTypeOK'
  BY <1>4, SpawnDoes DEF Frames
<1>5. ASSUME NEW c \in Callers, CallDangling(c) \/ TargetWrong(c) PROVE CsTypeOK'
  BY <1>5 DEF CallDangling, TargetWrong, Crash
<1>6. ASSUME NEW c \in Callers, Worker(c) PROVE CsTypeOK'
  <2>1. CASE CallBack(c)
    BY <2>1, CallBackDoes
  <2>2. QED
    BY <1>6, <2>1 DEF Worker, Leave
<1>7. ASSUME NEW c \in Callers, Complete(c) PROVE CsTypeOK'
  <2>1. [at |-> "nobody"] \in Refs /\ \A d \in Callers : [at |-> "done", task |-> d] \in Cbs
    BY DEF Refs, Cbs
  <2>2. [at |-> "task", task |-> Context(c).task, client |-> Context(c).client] \in Refs
    BY <1>7, CompleteDoes DEF Contexts, Refs
  <2>3. Context(c).task \in Callers
    BY <1>7, CompleteDoes DEF Contexts
  <2>4. valueRef' \in [Callers -> Refs]
    BY <1>7, <2>1, <2>2, CompleteDoes DEF CompleteGet
  <2>5. tcs' \in [Callers -> {"none", "pending", "result", "exception", "canceled"}]
    BY <1>7, <2>3, CompleteDoes DEF TryComplete
  <2>6. cb' \in [Callers -> Cbs]
    BY <1>7, <2>1, <2>3, CompleteDoes
  <2>7. UNCHANGED <<dispVars, handleVars, frame, crashed>>
    BY <1>7 DEF Complete
  <2>8. QED
    BY <2>4, <2>5, <2>6, <2>7
<1>8. ASSUME NEW c \in Callers, RemoveEntry(c) \/ FreeHandle(c) PROVE CsTypeOK'
  <2>1. CASE RemoveEntry(c)
    BY <2>1 DEF RemoveEntry, Cbs
  <2>2. CASE FreeHandle(c)
    <3>1. \E s \in {slot[c], NoSlot} : slot' = [slot EXCEPT ![c] = s]
      BY <2>2 DEF FreeHandle
    <3>2. /\ \E x \in Cbs : cb' = [cb EXCEPT ![c] = x]
          /\ table' = [table EXCEPT ![slot[c]] = Empty]
          /\ \E b \in BOOLEAN : twice' = (twice \/ b)
          /\ UNCHANGED <<dispVars, pending, unseen, hand, frame, tcs, valueRef, crashed>>
      BY <2>2 DEF FreeHandle, Free, Cbs, Live
    <3>3. QED
      BY <3>1, <3>2
  <2>3. QED
    BY <1>8, <2>1, <2>2
<1>9. ASSUME NEW c \in Callers, Cancel(c) PROVE CsTypeOK'
  BY <1>9 DEF Cancel
<1>10. ASSUME NEW c \in Callers, Await(c) PROVE CsTypeOK'
  <2>1. \A d \in Callers : valueRef[d].at = "task" =>
            [valueRef[d] EXCEPT !.at = "host"] \in Refs
    BY DEF Refs, NoRef
  <2>2. valueRef' \in [Callers -> Refs]
    BY <1>10, <2>1 DEF Await
  <2>3. QED
    BY <1>10, <2>2 DEF Await
<1>11. ASSUME NEW c \in Callers, DisposeRef(c) PROVE CsTypeOK'
  BY <1>11, DisposeRefDoes DEF Refs
<1>12. CASE UNCHANGED <<dispVars, handleVars, callVars, crashed>>
  BY <1>12
<1>13. QED
  BY <1>1, <1>2, <1>3, <1>4, <1>5, <1>6, <1>7, <1>8, <1>9, <1>10, <1>11, <1>12
  DEF CsNext, HostThread, Call, Worker, Callback, csVars

-----------------------------------------------------------------------------
(* Where a call can be *)

\* The host's thread, the task and the callback of a call follow one another,
\* also when the client is disposed under it.
Phase(c) ==
    /\ frame[c] # NoFrame => task[c] = "none"
    /\ frame[c].at \in {"entered", "prepared", "calling"} => call[c] = NoCall /\ cb[c] = NoCb
    /\ cb[c] # NoCb => frame[c].at = "inside" \/ task[c] = "callback"
    /\ valueRef[c] # NoRef =>
          /\ cb[c].at # "due"
          /\ frame[c].at \in {"none", "inside"}
          /\ task[c] \notin {"queued", "waiting"}
    /\ cb[c].at = "due" /\ cb[c].op = "set" => result[c] = NoResult

AllPhases == \A c \in Callers : Phase(c)

\* The variables of a call.
phaseOf(c) == <<task[c], call[c], result[c], frame[c], cb[c], valueRef[c]>>

LEMMA PhaseElsewhere ==
  ASSUME AllPhases, NEW c \in Callers, Phase(c)',
         \A d \in Callers \ {c} : phaseOf(d)' = phaseOf(d)
  PROVE  AllPhases'
BY DEF AllPhases, Phase, phaseOf

\* Nothing is known of a call that has not begun but that it is idle.
LEMMA NoResultYet == ASSUME IInv, NEW c \in Callers, call[c] = NoCall PROVE result[c] = NoResult
BY DEF IInv, Matched, NoCall

\* The steps of a call, one after the other.
LEMMA PhaseStep ==
  ASSUME IInv, TaskPerCall, CsTypeOK, AllSlotted, AllPhases, [CsNext]_csVars
  PROVE  AllPhases'
<1>1. /\ task \in [Callers -> Phases] /\ call \in [Callers -> Calls]
      /\ result \in [Callers -> Results]
  BY DEF IInv, TypeOK, TaskPerCall
<1> USE DEF NoFrame, NoCb, NoRef
<1>2. ASSUME \A d \in Callers : phaseOf(d)' = phaseOf(d) PROVE AllPhases'
  BY <1>2 DEF AllPhases, Phase, phaseOf
<1>3. CASE ClientStep
  BY <1>2, <1>3, ClientDoes DEF phaseOf, callVars
<1>4. ASSUME NEW c \in Callers, Begin(c) \/ Prepare(c) \/ ReadHandle(c) \/ CallReturns(c)
      PROVE  AllPhases'
  <2>1. /\ UNCHANGED <<task, call, result, cb, valueRef>>
        /\ \E f \in Frames : frame' = [frame EXCEPT ![c] = f] /\ (f = NoFrame => cb[c] = NoCb)
                            /\ f.at \in {"entered", "prepared", "calling", "none"}
        /\ Phase(c)
        /\ \/ Fresh(c) \/ frame[c].at \in {"entered", "prepared", "calling"}
           \/ frame'[c] = NoFrame
    <3>1. CASE Begin(c)
      <4>1. \E op \in Ops : frame' = [frame EXCEPT ![c] = [at |-> "entered", op |-> op]]
        BY <3>1 DEF Begin, Ops
      <4>2. \A op \in Ops : [at |-> "entered", op |-> op] \in Frames
        BY DEF Frames
      <4>3. QED
        BY <3>1, <4>1, <4>2 DEF Begin, AllPhases, vars, apiVars, asyncVars
    <3>2. CASE Prepare(c)
      <4>1. /\ frame[c].at = "entered" /\ UNCHANGED <<vars, cb, valueRef>>
            /\ \E f \in Frames : f.at = "prepared" /\ frame' = [frame EXCEPT ![c] = f]
        BY <3>2, PrepareDoes
      <4>2. QED
        <5>1. PICK f \in Frames : f.at = "prepared" /\ frame' = [frame EXCEPT ![c] = f]
          BY <4>1
        <5>2. f # NoFrame
          BY <5>1
        <5>3. UNCHANGED <<task, call, result>> /\ Phase(c)
          BY <4>1 DEF AllPhases, vars, apiVars, asyncVars
        <5>4. QED
          BY <4>1, <5>1, <5>2, <5>3
    <3>3. CASE ReadHandle(c)
      <4>1. [at |-> "calling", op |-> frame[c].op, client |-> handle] \in Frames
        BY <3>3 DEF ReadHandle, CsTypeOK, Frames, Ops
      <4>2. QED
        BY <3>3, <4>1 DEF ReadHandle, AllPhases, vars, apiVars, asyncVars
    <3>4. CASE CallReturns(c)
      <4>1. frame' = [frame EXCEPT ![c] = NoFrame] /\ cb[c] = NoCb /\ NoFrame.at = "none"
        BY <3>4 DEF CallReturns
      <4>2. NoFrame \in Frames /\ frame'[c] = NoFrame
        BY <4>1 DEF CsTypeOK, Frames
      <4>3. UNCHANGED <<task, call, result, cb, valueRef>> /\ Phase(c)
        BY <3>4 DEF CallReturns, AllPhases, vars, apiVars, asyncVars
      <4>4. QED
        BY <4>1, <4>2, <4>3
    <3>5. QED
      BY <1>4, <3>1, <3>2, <3>3, <3>4
  <2>2. \A d \in Callers \ {c} : phaseOf(d)' = phaseOf(d)
    BY <2>1 DEF phaseOf, CsTypeOK
  <2>3. Phase(c)'
    BY <2>1 DEF Phase, Fresh, CsTypeOK
  <2>4. QED
    BY <2>2, <2>3, PhaseElsewhere
<1>5. ASSUME NEW c \in Callers, CallRejected(c) \/ CallHit(c) PROVE AllPhases'
  <2>1. /\ UNCHANGED <<task, valueRef>>
        /\ frame[c].at = "calling"
        /\ \E f \in Frames : f.at = "inside" /\ frame' = [frame EXCEPT ![c] = f]
        /\ \E x \in Cbs : x.at = "due" /\ x.op = frame[c].op /\ cb' = [cb EXCEPT ![c] = x]
        /\ \/ frame[c].op = "set" /\ UNCHANGED <<call, result>>
           \/ /\ frame[c].op = "get"
              /\ \E x \in Calls : call' = [call EXCEPT ![c] = x]
              /\ \E r \in Results \ {NoResult} : result' = [result EXCEPT ![c] = r]
    BY <1>5, InsideDoes
  <2>2. \A d \in Callers \ {c} : phaseOf(d)' = phaseOf(d)
    BY <1>1, <2>1 DEF phaseOf, CsTypeOK
  <2>3. Phase(c)'
    <3>1. /\ frame'[c].at = "inside" /\ cb'[c].at = "due" /\ cb'[c].op = frame[c].op
          /\ frame'[c] # NoFrame
      BY <2>1 DEF CsTypeOK
    <3>2. Phase(c) /\ call[c] = NoCall /\ result[c] = NoResult
      BY <2>1, NoResultYet DEF AllPhases, Phase
    <3>3. QED
      BY <1>1, <2>1, <3>1, <3>2 DEF Phase
  <2>4. QED
    BY <2>2, <2>3, PhaseElsewhere
<1>6. ASSUME NEW c \in Callers, CallSpawns(c) PROVE AllPhases'
  <2>1. /\ frame[c].at = "calling" /\ frame' = [frame EXCEPT ![c] = NoFrame]
        /\ UNCHANGED <<result, cb, valueRef>>
        /\ task' = [task EXCEPT ![c] = "queued"]
        /\ \E x \in Calls \ {NoCall} : call' = [call EXCEPT ![c] = x]
    BY <1>6, SpawnDoes
  <2>2. \A d \in Callers \ {c} : phaseOf(d)' = phaseOf(d)
    BY <1>1, <2>1 DEF phaseOf, CsTypeOK
  <2>3. Phase(c)'
    BY <1>1, <2>1 DEF AllPhases, Phase, CsTypeOK
  <2>4. QED
    BY <2>2, <2>3, PhaseElsewhere
<1>7. ASSUME NEW c \in Callers, CallDangling(c) \/ TargetWrong(c) \/ Cancel(c) PROVE AllPhases'
  BY <1>2, <1>7 DEF CallDangling, TargetWrong, Cancel, Crash, phaseOf, vars, apiVars, asyncVars,
                    callVars
<1>8. ASSUME NEW c \in Callers, Start(c), UNCHANGED <<dispVars, handleVars, callVars, crashed>>
      PROVE  AllPhases'
  <2>1. /\ task[c] = "queued" /\ task' = [task EXCEPT ![c] = "waiting"]
        /\ UNCHANGED <<call, result, frame, cb, valueRef>>
    BY <1>8, TaskEffects DEF callVars
  <2>2. \A d \in Callers \ {c} : phaseOf(d)' = phaseOf(d)
    BY <1>1, <2>1 DEF phaseOf
  <2>3. Phase(c)'
    BY <1>1, <2>1 DEF AllPhases, Phase
  <2>4. QED
    BY <2>2, <2>3, PhaseElsewhere
<1>9. ASSUME NEW c \in Callers, CallBack(c) PROVE AllPhases'
  <2>1. /\ task[c] = "waiting" /\ task' = [task EXCEPT ![c] = "callback"]
        /\ result[c] = NoResult
        /\ \E x \in Cbs : x.at = "due" /\ x.op = call[c].op /\ cb' = [cb EXCEPT ![c] = x]
        /\ \/ /\ call[c].op = "get" /\ UNCHANGED call
              /\ \E r \in Results \ {NoResult} : result' = [result EXCEPT ![c] = r]
           \/ /\ call[c].op = "set" /\ UNCHANGED result
              /\ call' = [call EXCEPT ![c] = NoCall]
        /\ UNCHANGED <<frame, valueRef>>
    BY <1>9, CallBackDoes
  <2>2. \A d \in Callers \ {c} : phaseOf(d)' = phaseOf(d)
    BY <1>1, <2>1 DEF phaseOf, CsTypeOK
  <2>3. Phase(c)'
    BY <1>1, <2>1 DEF AllPhases, Phase, CsTypeOK
  <2>4. QED
    BY <2>2, <2>3, PhaseElsewhere
<1>10. ASSUME NEW c \in Callers, Complete(c) \/ RemoveEntry(c) \/ FreeHandle(c) PROVE AllPhases'
  <2>1. /\ UNCHANGED <<task, call, result, frame>>
        /\ cb[c] # NoCb
        /\ \E x \in Cbs : cb' = [cb EXCEPT ![c] = x] /\ x.at # "due"
        /\ cb[c].at = "due" \/ UNCHANGED valueRef
        /\ \A d \in Callers \ {c} : valueRef'[d] = valueRef[d]
    <3>1. CASE Complete(c)
      <4>1. /\ [at |-> "done", task |-> Context(c).task] \in Cbs /\ cb[c].at = "due"
            /\ cb' = [cb EXCEPT ![c] = [at |-> "done", task |-> Context(c).task]]
        BY <3>1, CompleteDoes DEF Cbs, Contexts
      <4>2. UNCHANGED <<task, call, result, frame>>
        BY <3>1 DEF Complete, vars, apiVars, asyncVars
      <4>3. QED
        <5>1. \A d \in Callers \ {c} : valueRef'[d] = valueRef[d]
          BY <3>1, CompletePoints
        <5>2. [at |-> "done", task |-> Context(c).task].at # "due" /\ cb[c] # NoCb
          BY <4>1
        <5>3. QED
          BY <4>1, <4>2, <5>1, <5>2
    <3>2. CASE RemoveEntry(c) \/ FreeHandle(c)
      BY <3>2 DEF RemoveEntry, FreeHandle, Cbs, vars, apiVars, asyncVars
    <3>3. QED
      BY <1>10, <3>1, <3>2
  <2>2. \A d \in Callers \ {c} : phaseOf(d)' = phaseOf(d)
    BY <2>1 DEF phaseOf, CsTypeOK
  <2>3. Phase(c)'
    BY <2>1 DEF AllPhases, Phase, CsTypeOK
  <2>4. QED
    BY <2>2, <2>3, PhaseElsewhere
<1>11. ASSUME NEW c \in Callers, Leave(c) PROVE AllPhases'
  <2>1. /\ cb[c] = NoCb /\ task' = [task EXCEPT ![c] = "none"]
        /\ UNCHANGED <<call, result, frame, cb, valueRef>>
    BY <1>11, TaskEffects DEF Leave, callVars
  <2>2. \A d \in Callers \ {c} : phaseOf(d)' = phaseOf(d)
    BY <1>1, <2>1 DEF phaseOf
  <2>3. Phase(c)'
    BY <1>1, <2>1 DEF AllPhases, Phase
  <2>4. QED
    BY <2>2, <2>3, PhaseElsewhere
<1>12. ASSUME NEW c \in Callers, Await(c) PROVE AllPhases'
  <2>1. /\ UNCHANGED <<task, call, result, frame, cb>>
        /\ \A d \in Callers : valueRef'[d] # NoRef => valueRef[d] # NoRef
    BY <1>12 DEF Await, CsTypeOK, vars, apiVars, asyncVars
  <2>2. QED
    BY <2>1 DEF AllPhases, Phase
<1>13. ASSUME NEW c \in Callers, DisposeRef(c) PROVE AllPhases'
  <2>1. /\ UNCHANGED <<task, frame, cb>> /\ valueRef[c].at = "host"
        /\ \E v \in Refs : valueRef' = [valueRef EXCEPT ![c] = v]
        /\ \/ UNCHANGED <<call, result>>
           \/ /\ call' = [call EXCEPT ![c] = NoCall]
              /\ result' = [result EXCEPT ![c] = NoResult]
    BY <1>13, DisposeRefDoes DEF Refs
  <2>2. \A d \in Callers \ {c} : phaseOf(d)' = phaseOf(d)
    BY <1>1, <2>1 DEF phaseOf, CsTypeOK
  <2>3. Phase(c)'
    BY <1>1, <2>1 DEF AllPhases, Phase, CsTypeOK
  <2>4. QED
    BY <2>2, <2>3, PhaseElsewhere
<1>14. CASE (Network \/ Moka) /\ UNCHANGED <<dispVars, handleVars, callVars, crashed>>
  BY <1>2, <1>14 DEF Network, Moka, phaseOf, asyncVars, callVars
<1>15. CASE UNCHANGED csVars
  BY <1>2, <1>15 DEF csVars, phaseOf, vars, apiVars, asyncVars, callVars
<1>16. QED
  BY <1>3, <1>4, <1>5, <1>6, <1>7, <1>8, <1>9, <1>10, <1>11, <1>12, <1>13, <1>14, <1>15
  DEF CsNext, HostThread, Call, Worker, Callback

-----------------------------------------------------------------------------
(* The table of handles *)

\* A new handle leads to its call and leaves the others alone.
LEMMA PrepareSlots ==
  ASSUME CsTypeOK, NEW c \in Callers, Prepare(c)
  PROVE  /\ Live(c)' /\ Context(c)' \in Contexts /\ Context(c)'.op = frame[c].op
         /\ Awaited(c)'
         /\ \A d \in Callers \ {c} :
               /\ Live(d)' <=> Live(d)
               /\ Live(d) => Context(d)' = Context(d)
               /\ slot'[d] = slot[d]
<1>1. PICK s \in Slots, h \in Clients :
         /\ table[s] = Empty
         /\ table' = [table EXCEPT ![s] = [op |-> frame[c].op, task |-> c, client |-> h]]
         /\ slot' = [slot EXCEPT ![c] = s]
  BY PrepareDoes
<1> DEFINE x == [op |-> frame[c].op, task |-> c, client |-> h]
<1>2. x \in Contexts /\ x.op = frame[c].op /\ x.task = c
  BY PrepareDoes DEF Contexts
<1>3. x # Empty
  BY <1>2, PrepareDoes DEF Empty, Ops
<1>4. table'[s] = x /\ slot'[c] = s /\ s # NoSlot
  BY <1>1, CsAssumption DEF CsTypeOK
<1> HIDE DEF x
<1>5. Live(c)' /\ Context(c)' = x
  BY <1>2, <1>3, <1>4 DEF Live, Context, Empty
<1>6. ASSUME NEW d \in Callers \ {c}
      PROVE  /\ Live(d)' <=> Live(d)
             /\ Live(d) => Context(d)' = Context(d)
             /\ slot'[d] = slot[d]
  <2>1. slot'[d] = slot[d]
    BY <1>1 DEF CsTypeOK
  <2>2. CASE slot[d] = s
    BY <1>1, <1>2, <1>4, <2>1, <2>2 DEF Live, Context
  <2>3. CASE slot[d] # s
    <3>1. slot[d] # NoSlot => table'[slot[d]] = table[slot[d]]
      BY <1>1, <2>3 DEF CsTypeOK
    <3>2. Empty' = Empty
      BY DEF Empty
    <3>3. QED
      BY <2>1, <3>1, <3>2 DEF Live, Context
  <2>4. QED
    BY <2>2, <2>3
<1>7. Awaited(c)'
  <2>1. \E f \in Frames : f.at = "prepared" /\ frame' = [frame EXCEPT ![c] = f]
    BY PrepareDoes
  <2>2. frame'[c].at = "prepared"
    BY <2>1 DEF CsTypeOK
  <2>3. QED
    BY <2>2 DEF Awaited
<1>8. QED
  BY <1>2, <1>5, <1>6, <1>7

\* A Free takes one slot: that of c, if it still leads to c.
LEMMA FreeSlots ==
  ASSUME CsTypeOK, NEW c \in Callers, FreeHandle(c) \/ FreeEntry(c)
  PROVE  /\ ~Live(c)'
         /\ \A d \in Callers : Live(d)' => Live(d) /\ Context(d)' = Context(d)
         /\ Live(c) => \A d \in Callers \ {c} : Live(d) => Live(d)'
         /\ twice' => twice \/ ~Live(c)
         /\ \A s \in Slots : table'[s] # Empty => table'[s] = table[s]
<1>1. /\ table' = [table EXCEPT ![slot[c]] = Empty]
      /\ twice' = (twice \/ ~Live(c))
      /\ \E s \in {slot[c], NoSlot} : slot' = [slot EXCEPT ![c] = s]
  <2>1. CASE FreeHandle(c)
    BY <2>1 DEF FreeHandle, Free
  <2>2. CASE FreeEntry(c)
    <3>1. slot' = [slot EXCEPT ![c] = slot[c]]
      BY <2>2 DEF FreeEntry, CsTypeOK
    <3>2. QED
      BY <2>2, <3>1 DEF FreeEntry, Free
  <2>3. QED
    BY <2>1, <2>2
<1>2. Empty' = Empty
  BY DEF Empty
<1>3. \A d \in Callers \ {c} : slot'[d] = slot[d]
  BY <1>1 DEF CsTypeOK
<1>4. slot'[c] \in {slot[c], NoSlot}
  BY <1>1 DEF CsTypeOK
<1>5. \A s \in Slots : table'[s] = IF s = slot[c] THEN Empty ELSE table[s]
  BY <1>1 DEF CsTypeOK
<1>6. slot[c] \in Slots \cup {NoSlot} /\ NoSlot \notin Slots
  BY CsAssumption DEF CsTypeOK
<1>7. ~Live(c)'
  BY <1>2, <1>4, <1>5, <1>6 DEF Live
<1>8. ASSUME NEW d \in Callers, Live(d)' PROVE Live(d) /\ Context(d)' = Context(d)
  <2>1. d # c /\ slot'[d] = slot[d] /\ slot[d] \in Slots
    BY <1>3, <1>7, <1>8 DEF Live, CsTypeOK
  <2>2. table'[slot[d]] # Empty
    BY <1>2, <1>8, <2>1 DEF Live
  <2>3. table'[slot[d]] = table[slot[d]] /\ slot[d] # NoSlot
    BY <1>5, <1>6, <2>1, <2>2
  <2>4. QED
    BY <1>8, <2>1, <2>2, <2>3 DEF Live, Context
<1>9. ASSUME Live(c), NEW d \in Callers \ {c}, Live(d) PROVE Live(d)'
  <2>1. slot[d] # slot[c] /\ slot[d] \in Slots
    BY <1>9 DEF Live, CsTypeOK
  <2>2. table'[slot[d]] = table[slot[d]] /\ slot'[d] = slot[d]
    BY <1>3, <1>5, <2>1
  <2>3. QED
    BY <1>2, <1>9, <2>2 DEF Live
<1>10. twice' => twice \/ ~Live(c)
  BY <1>1
<1>11. QED
  BY <1>5, <1>7, <1>8, <1>9, <1>10

\* The variables that tell whether a callback of c is to come.
waitOf(c) == <<frame[c], task[c], cb[c]>>

LEMMA WaitElsewhere ==
  ASSUME NEW c \in Callers, waitOf(c)' = waitOf(c)
  PROVE  Awaited(c)' <=> Awaited(c)
<1>1. NoCb' = NoCb
  BY DEF NoCb
<1>2. QED
  BY <1>1 DEF waitOf, Awaited

\* A callback is to come from Prepare on, and until its Free.
LEMMA AwaitedStep ==
  ASSUME IInv, TaskPerCall, CsTypeOK, AllSlotted, AllPhases, [CsNext]_csVars, NEW d \in Callers
  PROVE  \/ Prepare(d) /\ ~Awaited(d)
         \/ FreeHandle(d) /\ Awaited(d) /\ ~Awaited(d)'
         \/ Awaited(d)' <=> Awaited(d)
<1>1. task \in [Callers -> Phases]
  BY DEF TaskPerCall
<1> USE WaitElsewhere
<1>2. \A c \in Callers : Phase(c)
  BY DEF AllPhases
<1>3. CASE ClientStep
  BY <1>3, ClientDoes DEF waitOf, callVars
<1>4. ASSUME NEW c \in Callers, Begin(c)
      PROVE  Awaited(d)' <=> Awaited(d)
  <2>1. /\ UNCHANGED <<task, cb>> /\ frame[c] = NoFrame
        /\ \E op \in Ops : frame' = [frame EXCEPT ![c] = [at |-> "entered", op |-> op]]
    BY <1>4 DEF Begin, Fresh, vars, asyncVars, Ops
  <2>2. QED
    BY <2>1 DEF waitOf, Awaited, NoFrame, NoCb, CsTypeOK
<1>5. ASSUME NEW c \in Callers, Prepare(c)
      PROVE  (c = d /\ ~Awaited(d)) \/ (Awaited(d)' <=> Awaited(d))
  <2>1. /\ UNCHANGED <<task, cb>> /\ frame[c].at = "entered"
        /\ \E f \in Frames : frame' = [frame EXCEPT ![c] = f]
    BY <1>5, PrepareDoes DEF vars, asyncVars
  <2>2. CASE c = d
    <3>1. task[d] = "none" /\ cb[d] = NoCb
      BY <1>2, <2>1, <2>2 DEF Phase, NoFrame
    <3>2. QED
      BY <2>1, <2>2, <3>1 DEF Awaited
  <2>3. CASE c # d
    BY <2>1, <2>3 DEF waitOf, CsTypeOK
  <2>4. QED
    BY <2>2, <2>3
<1>6. ASSUME NEW c \in Callers, ReadHandle(c) \/ CallReturns(c)
      PROVE  Awaited(d)' <=> Awaited(d)
  <2>1. /\ UNCHANGED <<task, cb>>
        /\ \E x : /\ frame' = [frame EXCEPT ![c] = x]
                  /\ \/ frame[c].at = "prepared" /\ x.at = "calling"
                     \/ frame[c].at = "inside" /\ x.at = "none"
    <3>1. CASE ReadHandle(c)
      <4>1. [at |-> "calling", op |-> frame[c].op, client |-> handle].at = "calling"
        OBVIOUS
      <4>2. QED
        BY <3>1, <4>1 DEF ReadHandle, vars, asyncVars
    <3>2. CASE CallReturns(c)
      <4>1. NoFrame.at = "none"
        BY DEF NoFrame
      <4>2. QED
        BY <3>2, <4>1 DEF CallReturns, vars, asyncVars
    <3>3. QED
      BY <1>6, <3>1, <3>2
  <2>2. QED
    BY <2>1 DEF waitOf, Awaited, NoCb, CsTypeOK
<1>7. ASSUME NEW c \in Callers, CallRejected(c) \/ CallHit(c)
      PROVE  Awaited(d)' <=> Awaited(d)
  <2>1. /\ frame[c].at = "calling" /\ UNCHANGED task
        /\ \E f \in Frames : f.at = "inside" /\ frame' = [frame EXCEPT ![c] = f]
        /\ \E x \in Cbs : x.at = "due" /\ cb' = [cb EXCEPT ![c] = x]
    BY <1>7, InsideDoes
  <2>2. QED
    BY <2>1 DEF waitOf, Awaited, NoCb, CsTypeOK
<1>8. ASSUME NEW c \in Callers, CallSpawns(c)
      PROVE  Awaited(d)' <=> Awaited(d)
  <2>1. /\ frame[c].at = "calling" /\ frame' = [frame EXCEPT ![c] = NoFrame]
        /\ task' = [task EXCEPT ![c] = "queued"] /\ UNCHANGED cb
    BY <1>8, SpawnDoes
  <2>2. QED
    BY <1>1, <2>1 DEF waitOf, Awaited, NoCb, CsTypeOK
<1>9. ASSUME NEW c \in Callers, CallDangling(c) \/ TargetWrong(c) \/ Cancel(c) \/ Await(c)
      PROVE  Awaited(d)' <=> Awaited(d)
  BY <1>9 DEF CallDangling, TargetWrong, Cancel, Await, Crash, callVars, vars, asyncVars, waitOf
<1>10. ASSUME NEW c \in Callers, Worker(c)
      PROVE  Awaited(d)' <=> Awaited(d)
  <2>1. CASE CallBack(c)
    <3>1. /\ task[c] = "waiting" /\ task' = [task EXCEPT ![c] = "callback"] /\ UNCHANGED frame
          /\ \E x \in Cbs : x.at = "due" /\ cb' = [cb EXCEPT ![c] = x]
      BY <2>1, CallBackDoes
    <3>2. QED
      BY <1>1, <3>1 DEF waitOf, Awaited, NoCb, CsTypeOK
  <2>2. CASE ~CallBack(c)
    <3>1. /\ UNCHANGED <<frame, cb>>
          /\ \/ task[c] = "queued" /\ task' = [task EXCEPT ![c] = "waiting"]
             \/ task[c] = "callback" /\ task' = [task EXCEPT ![c] = "none"]
      <4>1. CASE Start(c) /\ UNCHANGED callVars
        BY <4>1, TaskEffects DEF callVars
      <4>2. CASE Leave(c)
        <5>1. CallbackReturns(c) /\ UNCHANGED <<frame, cb>>
          BY <4>2 DEF Leave, callVars
        <5>2. QED
          BY <5>1 DEF CallbackReturns, Move
      <4>3. QED
        BY <1>10, <2>2, <4>1, <4>2 DEF Worker
    <3>2. QED
      BY <1>1, <3>1 DEF waitOf, Awaited
  <2>3. QED
    BY <2>1, <2>2
<1>11. ASSUME NEW c \in Callers, Complete(c) \/ RemoveEntry(c)
      PROVE  Awaited(d)' <=> Awaited(d)
  <2>1. /\ UNCHANGED <<frame, task>> /\ cb[c] # NoCb
        /\ \E x : x # NoCb /\ cb' = [cb EXCEPT ![c] = x]
    BY <1>11 DEF Complete, RemoveEntry, NoCb, vars, asyncVars
  <2>2. QED
    BY <2>1 DEF waitOf, Awaited, NoCb, CsTypeOK
<1>12. ASSUME NEW c \in Callers, FreeHandle(c)
       PROVE  (c = d /\ Awaited(d) /\ ~Awaited(d)') \/ (Awaited(d)' <=> Awaited(d))
  <2>1. /\ UNCHANGED <<frame, task>> /\ cb[c].at = "removed"
        /\ cb' = [cb EXCEPT ![c] = NoCb]
    BY <1>12 DEF FreeHandle, vars, asyncVars
  <2>2. CASE c = d
    <3>1. frame[d].at = "inside" \/ (task[d] = "callback" /\ frame[d] = NoFrame)
      <4>1. cb[d] # NoCb
        BY <2>1, <2>2 DEF NoCb
      <4>2. QED
        BY <1>2, <4>1 DEF Phase
    <3>2. QED
      BY <1>1, <2>1, <2>2, <3>1 DEF Awaited, NoFrame, NoCb, CsTypeOK
  <2>3. CASE c # d
    BY <2>1, <2>3 DEF waitOf, CsTypeOK
  <2>4. QED
    BY <2>2, <2>3
<1>13. ASSUME NEW c \in Callers, DisposeRef(c) PROVE Awaited(d)' <=> Awaited(d)
  BY <1>13, DisposeRefDoes DEF waitOf
<1>14. CASE ((Network \/ Moka) /\ UNCHANGED <<dispVars, handleVars, callVars, crashed>>)
            \/ UNCHANGED csVars
  BY <1>14 DEF Network, Moka, csVars, callVars, vars, asyncVars, waitOf
<1>15. QED
  BY <1>3, <1>4, <1>5, <1>6, <1>7, <1>8, <1>9, <1>10, <1>11, <1>12, <1>13, <1>14
  DEF CsNext, HostThread, Call, Callback

\* Who touches the table.
LEMMA TableStep ==
  ASSUME IInv, TaskPerCall, [CsNext]_csVars
  PROVE  \/ UNCHANGED <<table, slot>>
         \/ \E c \in Callers : Prepare(c) \/ FreeHandle(c) \/ FreeEntry(c)
<1> USE DEF handleVars
<1>1. CASE ClientStep
  BY <1>1 DEF ClientStep, Construct, BeginClear, EndClear, ClearDangling, BeginDispose, TakeEntry,
              ClearPending, DestroyNative, EndDispose, Crash
<1>2. ASSUME NEW c \in Callers, Begin(c) \/ ReadHandle(c) \/ CallReturns(c) \/ Cancel(c) \/ Await(c)
      PROVE  UNCHANGED <<table, slot>>
  BY <1>2 DEF Begin, ReadHandle, CallReturns, Cancel, Await
<1>3. ASSUME NEW c \in Callers, Call(c) \/ Worker(c)
      PROVE  UNCHANGED <<table, slot>>
  BY <1>3 DEF Call, CallRejected, CallHit, Inside, CallSpawns, CallDangling, Crash, Worker,
              CallBack, Leave
<1>4. ASSUME NEW c \in Callers, Complete(c) \/ TargetWrong(c) \/ RemoveEntry(c) \/ DisposeRef(c)
      PROVE  UNCHANGED <<table, slot>>
  BY <1>4 DEF Complete, TargetWrong, Crash, RemoveEntry, DisposeRef
<1>5. CASE UNCHANGED handleVars
  BY <1>5
<1>6. QED
  BY <1>1, <1>2, <1>3, <1>4, <1>5 DEF CsNext, HostThread, Callback, csVars

LEMMA SlotStep ==
  ASSUME IInv, TaskPerCall, CsTypeOK, AllSlotted, AllPhases, [CsNext]_csVars
  PROVE  AllSlotted'
<1> SUFFICES ASSUME NEW d \in Callers PROVE Slotted(d)'
  BY DEF AllSlotted
<1>1. Slotted(d)
  BY DEF AllSlotted
<1>2. CASE UNCHANGED <<table, slot>> /\ \A c \in Callers : ~Prepare(c) /\ ~FreeHandle(c)
  <2>1. Live(d)' <=> Live(d)
    <3>1. Empty' = Empty
      BY DEF Empty
    <3>2. QED
      BY <1>2, <3>1 DEF Live
  <2>2. Awaited(d)' <=> Awaited(d)
    BY <1>2, AwaitedStep
  <2>3. QED
    BY <1>1, <1>2, <2>1, <2>2 DEF Slotted
<1>3. ASSUME NEW c \in Callers, Prepare(c) PROVE Slotted(d)'
  <2>1. CASE c = d
    BY <1>3, <2>1, PrepareSlots DEF Slotted, Live
  <2>2. CASE c # d
    <3>1. Awaited(d)' <=> Awaited(d)
      <4>1. frame'[d] = frame[d] /\ UNCHANGED <<task, cb>>
        BY <1>3, <2>2, PrepareDoes DEF CsTypeOK, vars, asyncVars
      <4>2. QED
        BY <4>1, WaitElsewhere DEF waitOf
    <3>2. QED
      BY <1>1, <1>3, <2>2, <3>1, PrepareSlots DEF Slotted
  <2>3. QED
    BY <2>1, <2>2
<1>4. ASSUME NEW c \in Callers, FreeEntry(c) PROVE Slotted(d)'
  <2>1. UNCHANGED <<slot, frame, task, cb>>
    BY <1>4 DEF FreeEntry, callVars, vars, asyncVars
  <2>2. Awaited(d)' <=> Awaited(d)
    BY <2>1, WaitElsewhere DEF waitOf
  <2>3. Live(d)' => Live(d)
    BY <1>4, FreeSlots
  <2>4. QED
    BY <1>1, <2>1, <2>2, <2>3 DEF Slotted
<1>5. ASSUME NEW c \in Callers, FreeHandle(c) PROVE Slotted(d)'
  <2>1. CASE c = d
    <3>1. ~Live(d)'
      BY <1>5, <2>1, FreeSlots
    <3>2. ~Awaited(d)'
      <4>1. UNCHANGED <<frame, task>> /\ cb[d].at = "removed" /\ cb' = [cb EXCEPT ![d] = NoCb]
        BY <1>5, <2>1 DEF FreeHandle, vars, asyncVars
      <4>2. \/ frame[d].at = "inside" /\ task[d] = "none"
            \/ task[d] = "callback" /\ frame[d] = NoFrame
        <5>1. Phase(d) /\ cb[d] # NoCb
          BY <4>1 DEF AllPhases, NoCb
        <5>2. frame[d].at = "inside" => frame[d] # NoFrame
          BY DEF NoFrame
        <5>3. QED
          BY <5>1, <5>2 DEF Phase
      <4>3. task \in [Callers -> Phases]
        BY DEF TaskPerCall
      <4>4. QED
        BY <4>1, <4>2, <4>3 DEF Awaited, NoFrame, NoCb, CsTypeOK
    <3>3. QED
      BY <3>1, <3>2 DEF Slotted
  <2>2. CASE c # d
    <3>1. UNCHANGED <<frame, task>> /\ cb'[d] = cb[d] /\ slot'[d] = slot[d]
      BY <1>5, <2>2 DEF FreeHandle, vars, asyncVars, CsTypeOK
    <3>2. Awaited(d)' <=> Awaited(d)
      BY <3>1, WaitElsewhere DEF waitOf
    <3>3. QED
      BY <1>1, <1>5, <3>1, <3>2, FreeSlots DEF Slotted
  <2>3. QED
    BY <2>1, <2>2
<1>6. QED
  BY <1>2, <1>3, <1>4, <1>5, TableStep

-----------------------------------------------------------------------------
(* Dispose and the calls it meets *)

\* The flag is up before the client goes, and nothing is met before.
FlagFirst ==
    /\ client = "destroyed" \/ disposing # "no" => disposed
    /\ handle = "null" => client = "null" \/ disposed
    /\ clearing => client # "null"
    /\ \A c \in Callers : frame[c] # NoFrame => client # "null"
    /\ ~disposed => overlap = "none" /\ unseen = {} /\ hand = {}

\* A Dispose that met no call: none begins after it, no task is open, and if it
\* met no callback either, none is to come.
Met(c) ==
    /\ frame[c] = NoFrame /\ tcs[c] # "pending"
    /\ overlap = "none" => ~Awaited(c)
    /\ ~Cancels => task[c] \notin {"queued", "waiting"} /\ cb[c].at # "due"

Quiet ==
    disposed /\ overlap # "host" =>
        /\ ~clearing
        /\ \A c \in Callers : Met(c)
        /\ overlap = "none" => pending = {} /\ unseen = {} /\ hand = {}
        /\ disposing = "destroying" \/ client = "destroyed" => pending = {}

\* Only the client's own steps touch it, its flags and what the loop has.
LEMMA DispStep ==
  ASSUME IInv, TaskPerCall, [CsNext]_csVars
  PROVE  \/ ClientStep
         \/ \E c \in Callers : Prepare(c)
         \/ /\ UNCHANGED <<client, dispVars, hand>>
            /\ unseen = {} => unseen' = {}
            /\ pending' \subseteq pending
<1> USE DEF handleVars, callVars
<1>1. ASSUME NEW c \in Callers, Call(c)
      PROVE  UNCHANGED <<client, dispVars, hand, unseen, pending>>
  <2>1. CASE CallRejected(c) \/ CallHit(c)
    BY <2>1 DEF CallRejected, CallHit, Inside, GetInvalid, GetHit, vars, asyncVars
  <2>2. QED
    BY <1>1, <2>1 DEF Call, CallSpawns, Spawn, CallDangling, Crash, vars, asyncVars
<1>2. ASSUME NEW c \in Callers, Worker(c)
      PROVE  UNCHANGED <<client, dispVars, hand, unseen, pending>>
  BY <1>2 DEF Worker, Start, CallBack, Deliver, Leave, CallbackReturns
<1>3. ASSUME NEW c \in Callers, Begin(c) \/ ReadHandle(c) \/ CallReturns(c) \/ Cancel(c) \/ Await(c)
      PROVE  UNCHANGED <<client, dispVars, hand, unseen, pending>>
  BY <1>3 DEF Begin, ReadHandle, CallReturns, Cancel, Await, vars, asyncVars
<1>4. ASSUME NEW c \in Callers, Callback(c)
      PROVE  /\ UNCHANGED <<client, dispVars, hand>>
             /\ unseen = {} => unseen' = {}
             /\ pending' \subseteq pending
  BY <1>4 DEF Callback, Complete, TargetWrong, Crash, RemoveEntry, FreeHandle, vars, asyncVars
<1>5. ASSUME NEW c \in Callers, DisposeRef(c)
      PROVE  UNCHANGED <<client, dispVars, hand, unseen, pending>>
  <2>1. UNCHANGED <<dispVars, handleVars>>
    BY <1>5 DEF DisposeRef
  <2>2. UNCHANGED client
    BY <1>5, DisposeRefDoes
  <2>3. QED
    BY <2>1, <2>2
<1>6. CASE (Network \/ Moka) /\ UNCHANGED <<dispVars, handleVars, callVars, crashed>>
  BY <1>6 DEF Network, Moka, asyncVars
<1>7. CASE UNCHANGED csVars
  BY <1>7 DEF csVars, vars, asyncVars
<1>8. QED
  BY <1>1, <1>2, <1>3, <1>4, <1>5, <1>6, <1>7 DEF CsNext, HostThread

\* The steps of the client, one by one.
LEMMA ClientCases ==
  ASSUME CsTypeOK, ClientStep
  PROVE  \/ Construct /\ client = "null" /\ client' = "open" /\ ~disposed /\ handle' = "open"
            /\ UNCHANGED <<disposed, disposing, clearing, overlap, pending, unseen, hand>>
         \/ client # "null" /\ ~disposed
            /\ UNCHANGED <<client, disposed, handle, disposing, overlap, pending, unseen, hand>>
         \/ (clearing' => clearing)
            /\ UNCHANGED <<client, disposed, handle, disposing, overlap, pending, unseen, hand>>
         \/ BeginDispose
         \/ disposing = "freeing" /\ UNCHANGED <<client, dispVars, pending>>
            /\ (unseen = {} => hand' = {}) /\ unseen' \subseteq unseen
         \/ hand # {} /\ hand' = {} /\ UNCHANGED <<client, dispVars, pending, unseen>>
         \/ disposing = "freeing" /\ disposing' = "destroying" /\ pending' = {}
            /\ UNCHANGED <<client, disposed, handle, clearing, overlap, unseen, hand>>
         \/ disposing = "destroying" /\ disposing' = "zeroing" /\ client' = "destroyed"
            /\ UNCHANGED <<disposed, handle, clearing, overlap, pending, unseen, hand>>
         \/ disposing = "zeroing" /\ disposing' = "no" /\ handle' = "null" /\ disposed'
            /\ UNCHANGED <<client, clearing, overlap, pending, unseen, hand>>
<1> USE DEF dispVars, handleVars
<1>1. CASE Construct
  BY <1>1 DEF Construct, Open
<1>2. CASE BeginClear
  BY <1>2 DEF BeginClear, vars, asyncVars
<1>3. CASE EndClear
  BY <1>3 DEF EndClear, CacheClear, vars, asyncVars
<1>4. CASE ClearDangling
  BY <1>4 DEF ClearDangling, Crash, vars, asyncVars
<1>5. ASSUME NEW c \in Callers, TakeEntry(c)
      PROVE  /\ disposing = "freeing" /\ UNCHANGED <<client, dispVars, pending>>
             /\ unseen # {} /\ unseen' \subseteq unseen
  BY <1>5 DEF TakeEntry, vars, asyncVars
<1>6. ASSUME NEW c \in Callers, FreeEntry(c)
      PROVE  hand # {} /\ hand' = {} /\ UNCHANGED <<client, dispVars, pending, unseen>>
  BY <1>6 DEF FreeEntry, vars, asyncVars
<1>7. CASE ClearPending
  BY <1>7 DEF ClearPending, vars, asyncVars
<1>8. CASE DestroyNative
  BY <1>8 DEF DestroyNative, Destroy
<1>9. CASE EndDispose
  BY <1>9 DEF EndDispose, vars, asyncVars
<1>10. QED
  BY <1>1, <1>2, <1>3, <1>4, <1>5, <1>6, <1>7, <1>8, <1>9 DEF ClientStep

\* What only a call that has begun can come to.
LEMMA CallStep ==
  ASSUME IInv, TaskPerCall, CsTypeOK, AllSlotted, AllPhases, [CsNext]_csVars, NEW d \in Callers
  PROVE  \/ Begin(d)
         \/ /\ frame[d] = NoFrame => frame'[d] = NoFrame
            /\ tcs[d] # "pending" => tcs'[d] # "pending"
            /\ frame[d] = NoFrame /\ task[d] \notin {"queued", "waiting"} /\ cb[d].at # "due"
               => task'[d] \notin {"queued", "waiting"} /\ cb'[d].at # "due"
<1>1. task \in [Callers -> Phases]
  BY DEF TaskPerCall
<1> DEFINE same == frame'[d] = frame[d] /\ tcs'[d] = tcs[d] /\ task'[d] = task[d] /\ cb'[d] = cb[d]
<1>2. CASE ClientStep
  BY <1>2, ClientDoes DEF callVars
<1>3. ASSUME NEW c \in Callers, Begin(c), c # d PROVE same
  BY <1>3 DEF Begin, vars, asyncVars, CsTypeOK
<1>4. ASSUME NEW c \in Callers, Prepare(c) \/ ReadHandle(c) \/ CallReturns(c)
      PROVE  /\ frame[d] = NoFrame => frame'[d] = NoFrame
             /\ UNCHANGED <<tcs, task, cb>>
  <2>1. UNCHANGED <<tcs, task, cb>> /\ \E x : frame' = [frame EXCEPT ![c] = x]
    BY <1>4 DEF Prepare, ReadHandle, CallReturns, vars, asyncVars
  <2>2. CASE Prepare(c) \/ ReadHandle(c)
    <3>1. frame[c] # NoFrame
      BY <2>2 DEF Prepare, ReadHandle, NoFrame
    <3>2. QED
      BY <2>1, <3>1 DEF CsTypeOK
  <2>3. CASE CallReturns(c)
    BY <2>1, <2>3 DEF CallReturns, CsTypeOK
  <2>4. QED
    BY <1>4, <2>1, <2>2, <2>3
<1>5. ASSUME NEW c \in Callers, CallRejected(c) \/ CallHit(c)
      PROVE  same \/ (c = d /\ frame[d] # NoFrame /\ UNCHANGED tcs)
  <2>1. /\ frame[c].at = "calling" /\ UNCHANGED <<task, tcs>>
        /\ \E x : frame' = [frame EXCEPT ![c] = x]
        /\ \E x : cb' = [cb EXCEPT ![c] = x]
    BY <1>5, InsideDoes DEF handleVars
  <2>2. frame[c] # NoFrame
    BY <2>1 DEF NoFrame
  <2>3. QED
    BY <2>1, <2>2 DEF CsTypeOK
<1>6. ASSUME NEW c \in Callers, CallSpawns(c)
      PROVE  same \/ (c = d /\ frame[d] # NoFrame /\ UNCHANGED tcs)
  <2>1. /\ frame[c].at = "calling" /\ UNCHANGED <<cb, tcs>>
        /\ frame' = [frame EXCEPT ![c] = NoFrame]
        /\ task' = [task EXCEPT ![c] = "queued"]
    BY <1>6, SpawnDoes
  <2>2. frame[c] # NoFrame
    BY <2>1 DEF NoFrame
  <2>3. QED
    BY <1>1, <2>1, <2>2 DEF CsTypeOK
<1>7. ASSUME NEW c \in Callers, CallDangling(c) \/ TargetWrong(c) PROVE same
  BY <1>7 DEF CallDangling, TargetWrong, Crash, callVars, vars, asyncVars
<1>8. ASSUME NEW c \in Callers, Cancel(c) \/ Await(c)
      PROVE  /\ UNCHANGED <<frame, task, cb>>
             /\ tcs[d] # "pending" => tcs'[d] # "pending"
  BY <1>8 DEF Cancel, Await, vars, asyncVars, CsTypeOK
<1>9. ASSUME NEW c \in Callers, CallBack(c)
      PROVE  same \/ (c = d /\ UNCHANGED <<frame, tcs>> /\ task[d] = "waiting")
  <2>1. /\ task[c] = "waiting" /\ task' = [task EXCEPT ![c] = "callback"]
        /\ \E x : cb' = [cb EXCEPT ![c] = x]
        /\ UNCHANGED <<frame, tcs>>
    BY <1>9, CallBackDoes
  <2>2. QED
    BY <1>1, <2>1 DEF CsTypeOK
<1>10. ASSUME NEW c \in Callers,
              Start(c) \/ CallbackReturns(c), UNCHANGED callVars
       PROVE  /\ UNCHANGED <<frame, tcs, cb>>
              /\ task'[d] = task[d] \/ task[d] = "queued" \/ task'[d] = "none"
  <2>1. UNCHANGED <<frame, tcs, cb>>
    BY <1>10 DEF callVars
  <2>2. CASE Start(c)
    BY <1>1, <2>1, <2>2 DEF Start, Move
  <2>3. CASE CallbackReturns(c)
    BY <1>1, <2>1, <2>3 DEF CallbackReturns, Move
  <2>4. QED
    BY <1>10, <2>2, <2>3
<1>11. ASSUME NEW c \in Callers, Complete(c)
       PROVE  /\ UNCHANGED <<frame, task>>
              /\ tcs[d] # "pending" => tcs'[d] # "pending"
              /\ cb[d].at # "due" => cb'[d].at # "due"
  <2>1. UNCHANGED <<frame, task>>
    BY <1>11 DEF Complete, vars, asyncVars
  <2>2. /\ tcs'[d] = tcs[d] \/ tcs'[d] # "pending"
        /\ cb'[d] = cb[d] \/ cb'[d].at = "done"
    <3>1. tcs'[d] = tcs[d] \/ tcs'[d] # "pending"
      <4>1. CASE d = Context(c).task
        BY <1>11, <4>1, CompletePoints
      <4>2. CASE d # Context(c).task
        BY <1>11, <4>2, CompletePoints
      <4>3. QED
        BY <4>1, <4>2
    <3>2. cb'[d] = cb[d] \/ cb'[d].at = "done"
      <4>1. cb' = [cb EXCEPT ![c] = [at |-> "done", task |-> Context(c).task]]
        BY <1>11, CompleteDoes
      <4>2. QED
        BY <4>1 DEF CsTypeOK
    <3>3. QED
      BY <3>1, <3>2
  <2>3. QED
    BY <2>1, <2>2
<1>12. ASSUME NEW c \in Callers, RemoveEntry(c) \/ FreeHandle(c)
       PROVE  /\ UNCHANGED <<frame, tcs, task>>
              /\ cb[d].at # "due" => cb'[d].at # "due"
  BY <1>12 DEF RemoveEntry, FreeHandle, NoCb, vars, asyncVars, CsTypeOK
<1>13. ASSUME NEW c \in Callers, DisposeRef(c) PROVE same
  BY <1>13, DisposeRefDoes
<1>14. CASE ((Network \/ Moka) /\ UNCHANGED <<dispVars, handleVars, callVars, crashed>>)
            \/ UNCHANGED csVars
  BY <1>14 DEF Network, Moka, csVars, callVars, vars, asyncVars
<1>15. QED
  BY <1>2, <1>3, <1>4, <1>5, <1>6, <1>7, <1>8, <1>9, <1>10, <1>11, <1>12, <1>13, <1>14
  DEF CsNext, HostThread, Call, Worker, Leave, Callback

\* The flag goes up at the start of Dispose and stays.
LEMMA FlagStays ==
  ASSUME IInv, TaskPerCall, CsTypeOK, FlagFirst, [CsNext]_csVars, ~BeginDispose
  PROVE  (disposed' <=> disposed) /\ overlap' = overlap
<1> USE DEF dispVars
<1>1. CASE ClientStep
  BY <1>1, ClientCases DEF FlagFirst, CsTypeOK
<1>2. ASSUME NEW c \in Callers, Prepare(c) PROVE UNCHANGED dispVars
  BY <1>2, PrepareDoes
<1>3. QED
  BY <1>1, <1>2, DispStep

\* What the flag says, before Dispose and after it.
LEMMA FlagStep ==
  ASSUME IInv, TaskPerCall, CsTypeOK, AllSlotted, AllPhases, FlagFirst, [CsNext]_csVars
  PROVE  FlagFirst'
<1> USE DEF dispVars
<1>1. \A d \in Callers : frame'[d] # NoFrame' => frame[d] # NoFrame \/ client # "null"
  BY CallStep DEF Begin, NoFrame
<1>2. (/\ client = "destroyed" \/ disposing # "no" => disposed
       /\ handle = "null" => client = "null" \/ disposed
       /\ clearing => client # "null"
       /\ ~disposed => overlap = "none" /\ unseen = {} /\ hand = {})'
  <2>1. CASE ClientStep
    <3>1. CASE BeginDispose
      BY <3>1 DEF BeginDispose, vars, asyncVars, FlagFirst
    <3>2. CASE ~BeginDispose
      <4>1. disposed' <=> disposed
        BY <2>1, <3>2, ClientCases DEF FlagFirst, CsTypeOK
      <4>2. client' = "destroyed" \/ disposing' # "no" => disposed
        BY <2>1, <3>2, ClientCases DEF FlagFirst
      <4>3. handle' = "null" => client' = "null" \/ disposed
        BY <2>1, <3>2, ClientCases DEF FlagFirst
      <4>4. clearing' => client' # "null"
        BY <2>1, <3>2, ClientCases DEF FlagFirst, CsTypeOK
      <4>5. ~disposed => overlap' = "none" /\ unseen' = {} /\ hand' = {}
        BY <2>1, <3>2, ClientCases DEF FlagFirst
      <4>6. QED
        BY <4>1, <4>2, <4>3, <4>4, <4>5
    <3>3. QED
      BY <3>1, <3>2
  <2>2. ASSUME NEW c \in Callers, Prepare(c)
        PROVE  /\ UNCHANGED <<client, dispVars, hand>>
               /\ disposing = "no" => unseen' = unseen
    BY <2>2, PrepareDoes DEF vars, asyncVars
  <2>3. QED
    BY <2>1, <2>2, DispStep DEF FlagFirst
<1>3. client # "null" => client' # "null"
  <2>1. CASE ClientStep
    <3>1. CASE BeginDispose
      BY <3>1 DEF BeginDispose, vars, asyncVars
    <3>2. QED
      BY <2>1, <3>1, ClientCases
  <2>2. ASSUME NEW c \in Callers, Prepare(c) PROVE UNCHANGED client
    BY <2>2, PrepareDoes DEF vars, asyncVars
  <2>3. QED
    BY <2>1, <2>2, DispStep
<1>4. QED
  BY <1>1, <1>2, <1>3 DEF FlagFirst

-----------------------------------------------------------------------------
(* The owners of results, and the handles, entries and tasks of calls *)

\* Whoever has the result of c.
OwnerOf(c) ==
    /\ result[c] # NoResult /\ valueRef[c] = NoRef => cb[c].at = "due"
    /\ valueRef[c].at = "task" => tcs[valueRef[c].task] = "result"

\* Without a Dispose under a call it is c's own, and releases its text.
LentBy(c) ==
    /\ valueRef[c].at = "task" => valueRef[c].task = c
    /\ valueRef[c].at \in {"task", "host"} => valueRef[c].client = "open"
    /\ valueRef[c].at = "nobody" => Cancels

Owned ==
    /\ \A c \in Callers : OwnerOf(c)
    /\ overlap # "host" =>
          /\ \A c \in Callers : LentBy(c)
          /\ \A s \in Slots : table[s] # Empty => table[s].client = "open"

\* The task of a call, when no token can complete it.
TaskOf(c) ==
    \/ frame[c].at \in {"entered", "prepared", "calling"}
    \/ task[c] \in {"queued", "waiting"}
    \/ cb[c].at = "due"
    => tcs[c] = "pending"

\* Who completes the task of a call.
AnswerOf(c) ==
    tcs[c] = "pending" =>
        \/ frame[c].at \in {"entered", "prepared", "calling"}
        \/ task[c] \in {"queued", "waiting"}
        \/ cb[c].at = "due"

\* The handle and the entry of a call, and the class of its context.
HandleOf(c) ==
    /\ Awaited(c) => Live(c)
    /\ c \in pending <=> Awaited(c) /\ cb[c].at # "removed"
    /\ cb[c].at = "done" => cb[c].task = c
    /\ frame[c].at \in {"prepared", "calling"} => Context(c).op = frame[c].op
    /\ task[c] \in {"queued", "waiting"} => Context(c).op = call[c].op
    /\ cb[c].at = "due" => Context(c).op = cb[c].op

Order(c) == HandleOf(c) /\ AnswerOf(c) /\ (~Cancels => TaskOf(c))

InOrder == overlap = "none" => ~twice /\ \A c \in Callers : Order(c)

LEMMA OwnerStep ==
  ASSUME IInv, TaskPerCall, CsTypeOK, AllSlotted, AllPhases, [CsNext]_csVars,
         \A d \in Callers : OwnerOf(d)
  PROVE  \A d \in Callers : OwnerOf(d)'
<1> SUFFICES ASSUME NEW d \in Callers PROVE OwnerOf(d)'
  OBVIOUS
<1>1. /\ result \in [Callers -> Results] /\ OwnerOf(d)
      /\ NoResult' = NoResult /\ NoRef' = NoRef
  BY DEF IInv, TypeOK, NoResult, NoRef
<1>2. ASSUME result'[d] = result[d], valueRef'[d] = valueRef[d],
             cb[d].at = "due" => cb'[d].at = "due",
             valueRef[d].at = "task" => tcs'[valueRef[d].task] = tcs[valueRef[d].task]
      PROVE  OwnerOf(d)'
  BY <1>1, <1>2 DEF OwnerOf
<1>3. CASE ClientStep
  BY <1>2, <1>3, ClientDoes DEF callVars
<1>4. ASSUME NEW c \in Callers, Begin(c) \/ Cancel(c) PROVE OwnerOf(d)'
  <2>1. /\ UNCHANGED <<result, valueRef, cb>> /\ tcs[c] \in {"none", "pending"}
        /\ \E x : tcs' = [tcs EXCEPT ![c] = x]
    BY <1>4 DEF Begin, Fresh, Cancel, vars, apiVars
  <2>2. valueRef[d].at = "task" => valueRef[d].task # c
    BY <1>1, <2>1 DEF OwnerOf
  <2>3. QED
    BY <1>2, <2>1, <2>2 DEF CsTypeOK
<1>5. ASSUME NEW c \in Callers, Prepare(c) \/ ReadHandle(c) \/ CallReturns(c)
      PROVE  OwnerOf(d)'
  BY <1>2, <1>5 DEF Prepare, ReadHandle, CallReturns, vars, apiVars
<1>6. ASSUME NEW c \in Callers, CallRejected(c) \/ CallHit(c) PROVE OwnerOf(d)'
  <2>1. /\ UNCHANGED <<tcs, valueRef>>
        /\ \E x \in Cbs : x.at = "due" /\ cb' = [cb EXCEPT ![c] = x]
        /\ \E r : result' = [result EXCEPT ![c] = r]
    <3>1. CASE frame[c].op = "set"
      <4>1. result' = [result EXCEPT ![c] = result[c]]
        BY <1>1, <1>6, <3>1, InsideDoes
      <4>2. QED
        BY <1>6, <4>1, InsideDoes
    <3>2. CASE frame[c].op # "set"
      BY <1>6, <3>2, InsideDoes
    <3>3. QED
      BY <3>1, <3>2
  <2>2. QED
    BY <1>1, <2>1 DEF OwnerOf, CsTypeOK
<1>7. ASSUME NEW c \in Callers, CallSpawns(c) PROVE OwnerOf(d)'
  BY <1>2, <1>7, SpawnDoes
<1>8. ASSUME NEW c \in Callers, CallDangling(c) \/ TargetWrong(c) PROVE OwnerOf(d)'
  BY <1>2, <1>8 DEF CallDangling, TargetWrong, Crash, callVars, vars, apiVars
<1>9. ASSUME NEW c \in Callers, CallBack(c) PROVE OwnerOf(d)'
  <2>1. /\ UNCHANGED <<tcs, valueRef>>
        /\ \E x \in Cbs : x.at = "due" /\ cb' = [cb EXCEPT ![c] = x]
        /\ \E r : result' = [result EXCEPT ![c] = r]
    <3>1. CASE call[c].op = "set"
      <4>1. result' = [result EXCEPT ![c] = result[c]]
        BY <1>1, <1>9, <3>1, CallBackDoes
      <4>2. QED
        BY <1>9, <4>1, CallBackDoes
    <3>2. CASE call[c].op # "set"
      BY <1>9, <3>2, CallBackDoes
    <3>3. QED
      BY <3>1, <3>2
  <2>2. QED
    BY <1>1, <2>1 DEF OwnerOf, CsTypeOK
<1>10. ASSUME NEW c \in Callers, Start(c) \/ CallbackReturns(c), UNCHANGED callVars
       PROVE  OwnerOf(d)'
  BY <1>2, <1>10, TaskEffects DEF callVars
<1>11. ASSUME NEW c \in Callers, Complete(c) PROVE OwnerOf(d)'
  <2>1. \A e \in Callers : tcs[e] = "result" => tcs'[e] = "result"
    <3>1. \A e \in Callers \ {Context(c).task} : tcs'[e] = tcs[e]
      BY <1>11, CompletePoints
    <3>2. tcs[Context(c).task] = "result" => tcs'[Context(c).task] = "result"
      BY <1>11, CompletePoints
    <3>3. QED
      BY <3>1, <3>2
  <2>2. UNCHANGED result
    BY <1>11 DEF Complete, vars, apiVars
  <2>3. CASE c # d
    <3>1. valueRef'[d] = valueRef[d] /\ cb'[d] = cb[d]
      <4>1. \A e \in Callers \ {c} : valueRef'[e] = valueRef[e] /\ cb'[e] = cb[e]
        BY <1>11, CompletePoints
      <4>2. QED
        BY <2>3, <4>1
    <3>2. valueRef[d].at = "task" => valueRef[d].task \in Callers
      BY DEF CsTypeOK, Refs, NoRef
    <3>3. QED
      BY <1>1, <2>1, <2>2, <3>1, <3>2 DEF OwnerOf
  <2>4. CASE c = d /\ cb[d].op = "set"
    <3>1. /\ valueRef'[d] = valueRef[d] /\ result[d] = NoResult
          /\ valueRef[d] = NoRef
      BY <1>11, <2>4, CompletePoints, CompleteDoes DEF AllPhases, Phase
    <3>2. QED
      BY <1>1, <2>2, <3>1 DEF OwnerOf, NoRef
  <2>5. CASE c = d /\ cb[d].op # "set"
    <3>1. \/ valueRef'[d] = [at |-> "nobody"]
          \/ /\ valueRef'[d] = [at |-> "task", task |-> Context(c).task,
                                client |-> Context(c).client]
             /\ tcs'[Context(c).task] = "result"
      BY <1>11, <2>5, CompletePoints
    <3>2. QED
      BY <3>1 DEF OwnerOf, NoRef
  <2>6. QED
    BY <2>3, <2>4, <2>5
<1>12. ASSUME NEW c \in Callers, RemoveEntry(c) \/ FreeHandle(c) PROVE OwnerOf(d)'
  <2>1. UNCHANGED <<result, valueRef, tcs>> /\ cb[c].at # "due"
        /\ \E x : cb' = [cb EXCEPT ![c] = x]
    BY <1>12 DEF RemoveEntry, FreeHandle, vars, apiVars
  <2>2. QED
    BY <1>2, <2>1 DEF CsTypeOK
<1>13. ASSUME NEW c \in Callers, Await(c) PROVE OwnerOf(d)'
  <2>1. UNCHANGED <<result, cb>> /\ tcs' = [tcs EXCEPT ![c] = "none"]
    BY <1>13 DEF Await, vars, apiVars
  <2>2. CASE valueRef[d].at = "task" /\ valueRef[d].task = c
    <3>1. valueRef'[d].at = "host"
      <4>1. valueRef'[d] = [valueRef[d] EXCEPT !.at = "host"]
        BY <1>13, <2>2 DEF Await
      <4>2. QED
        BY <2>2, <4>1 DEF CsTypeOK, Refs, NoRef
    <3>2. QED
      BY <3>1 DEF OwnerOf, NoRef
  <2>3. CASE ~(valueRef[d].at = "task" /\ valueRef[d].task = c)
    <3>1. valueRef'[d] = valueRef[d]
      BY <1>13, <2>3 DEF Await
    <3>2. QED
      BY <1>2, <2>1, <2>3, <3>1 DEF CsTypeOK
  <2>4. QED
    BY <2>2, <2>3
<1>14. ASSUME NEW c \in Callers, DisposeRef(c) PROVE OwnerOf(d)'
  <2>1. CASE c = d
    <3>1. UNCHANGED tcs /\ (\/ valueRef'[d] = NoRef /\ result'[d] = NoResult
                            \/ valueRef'[d] = [at |-> "nobody"])
      BY <1>1, <1>14, <2>1, DisposeRefDoes DEF CsTypeOK
    <3>2. QED
      BY <1>1, <3>1 DEF OwnerOf, NoRef
  <2>2. CASE c # d
    <3>1. valueRef'[d] = valueRef[d] /\ result'[d] = result[d] /\ UNCHANGED <<tcs, cb>>
      BY <1>1, <1>14, <2>2, DisposeRefDoes DEF CsTypeOK
    <3>2. QED
      BY <1>2, <3>1
  <2>3. QED
    BY <2>1, <2>2
<1>15. CASE ((Network \/ Moka) /\ UNCHANGED <<dispVars, handleVars, callVars, crashed>>)
            \/ UNCHANGED csVars
  BY <1>2, <1>15 DEF Network, Moka, csVars, callVars, vars, apiVars
<1>16. QED
  BY <1>3, <1>4, <1>5, <1>6, <1>7, <1>8, <1>9, <1>10, <1>11, <1>12, <1>13, <1>14, <1>15
  DEF CsNext, HostThread, Call, Worker, Leave, Callback

\* A step of another call leaves a call in order.
LEMMA OrderElsewhere ==
  ASSUME NEW d \in Callers, Order(d),
         frame'[d] = frame[d], task'[d] = task[d], cb'[d] = cb[d], tcs'[d] = tcs[d],
         task[d] \in {"queued", "waiting"} => call'[d] = call[d],
         d \in pending' <=> d \in pending,
         Live(d) => Live(d)' /\ Context(d)' = Context(d)
  PROVE  Order(d)'
<1>1. Awaited(d)' <=> Awaited(d)
  BY WaitElsewhere DEF waitOf
<1>2. NoCb' = NoCb /\ (cb[d].at \in {"due", "done", "removed"} => cb[d] # NoCb)
  BY DEF NoCb
<1>3. HandleOf(d)'
  <2>1. HandleOf(d)
    BY DEF Order
  <2>2. (/\ Awaited(d) => Live(d)
         /\ d \in pending <=> Awaited(d) /\ cb[d].at # "removed"
         /\ cb[d].at = "done" => cb[d].task = d)'
    BY <1>1, <2>1 DEF HandleOf
  <2>3. (/\ frame[d].at \in {"prepared", "calling"} => Context(d).op = frame[d].op
         /\ task[d] \in {"queued", "waiting"} => Context(d).op = call[d].op
         /\ cb[d].at = "due" => Context(d).op = cb[d].op)'
    BY <1>2, <2>1 DEF HandleOf, Awaited
  <2>4. QED
    BY <2>2, <2>3 DEF HandleOf
<1>4. AnswerOf(d)'
  BY DEF Order, AnswerOf
<1>5. ~Cancels => TaskOf(d)'
  BY DEF Order, TaskOf
<1>6. QED
  BY <1>3, <1>4, <1>5 DEF Order

\* The same table, and a call whose callback is to come as before.
LEMMA SameTable ==
  ASSUME UNCHANGED <<table, slot>>, NEW d \in Callers
  PROVE  (Live(d)' <=> Live(d)) /\ Context(d)' = Context(d)
BY DEF Live, Context, Empty

\* Until a Dispose meets a call or a callback everything goes in order.
LEMMA OrderStep ==
  ASSUME IInv, TaskPerCall, CsTypeOK, AllSlotted, AllPhases, FlagFirst, Quiet, [CsNext]_csVars,
         overlap = "none", ~twice, \A c \in Callers : Order(c)
  PROVE  ~twice' /\ \A d \in Callers : Order(d)'
<1>1. /\ task \in [Callers -> Phases] /\ call \in [Callers -> Calls]
      /\ \A c \in Callers : Phase(c) /\ Order(c)
  BY DEF TaskPerCall, IInv, TypeOK, AllPhases
<1>2. hand = {} /\ unseen = {} /\ (disposed => pending = {})
  BY DEF FlagFirst, Quiet
<1>3. ASSUME NEW d \in Callers,
             frame'[d] = frame[d], task'[d] = task[d], cb'[d] = cb[d], tcs'[d] = tcs[d],
             task[d] \in {"queued", "waiting"} => call'[d] = call[d],
             d \in pending' <=> d \in pending,
             UNCHANGED <<table, slot>>
      PROVE  Order(d)'
  BY <1>1, <1>3, SameTable, OrderElsewhere
<1>4. CASE ClientStep
  <2>1. UNCHANGED <<table, slot, twice>> /\ pending' = pending
    <3>1. ASSUME NEW c \in Callers PROVE ~TakeEntry(c) /\ ~FreeEntry(c)
      BY <1>2 DEF TakeEntry, FreeEntry
    <3>2. ClearPending => pending' = pending
      BY <1>2 DEF ClearPending, FlagFirst
    <3>3. QED
      BY <1>4, <3>1, <3>2
      DEF ClientStep, Construct, BeginClear, EndClear, ClearDangling, Crash, BeginDispose,
          ClearPending, DestroyNative, EndDispose, handleVars
  <2>2. QED
    BY <1>3, <1>4, <2>1, ClientDoes DEF callVars
<1>5. ASSUME NEW c \in Callers, Begin(c)
      PROVE  ~twice' /\ \A d \in Callers : Order(d)'
  <2>1. /\ Fresh(c) /\ UNCHANGED <<task, call, cb, table, slot, pending, twice>>
        /\ tcs' = [tcs EXCEPT ![c] = "pending"]
        /\ \E op \in Ops : frame' = [frame EXCEPT ![c] = [at |-> "entered", op |-> op]]
    BY <1>5 DEF Begin, handleVars, vars, apiVars, asyncVars, Ops
  <2>2. ASSUME NEW d \in Callers \ {c} PROVE Order(d)'
    BY <1>3, <2>1 DEF CsTypeOK
  <2>3. Order(c)'
    <3>1. /\ frame'[c].at = "entered" /\ tcs'[c] = "pending"
          /\ task'[c] = "none" /\ cb'[c] = NoCb /\ c \notin pending'
      BY <2>1 DEF Fresh, CsTypeOK
    <3>2. cb'[c].at = "none" /\ NoCb' = NoCb
      BY <3>1 DEF NoCb
    <3>3. QED
      BY <3>1, <3>2 DEF Order, HandleOf, AnswerOf, TaskOf, Awaited
  <2>4. QED
    BY <2>1, <2>2, <2>3
<1>6. ASSUME NEW c \in Callers, Prepare(c)
      PROVE  ~twice' /\ \A d \in Callers : Order(d)'
  <2>1. /\ UNCHANGED <<task, call, cb, tcs, twice>>
        /\ pending' = pending \cup {c} /\ frame[c].at = "entered"
        /\ \E f \in Frames : /\ f.at = "prepared" /\ f.op = frame[c].op
                             /\ frame' = [frame EXCEPT ![c] = f]
    BY <1>6, PrepareDoes DEF vars, apiVars, asyncVars
  <2>2. ASSUME NEW d \in Callers \ {c} PROVE Order(d)'
    <3>1. frame'[d] = frame[d] /\ (d \in pending' <=> d \in pending)
      BY <2>1 DEF CsTypeOK
    <3>2. Live(d) => Live(d)' /\ Context(d)' = Context(d)
      BY <1>6, PrepareSlots
    <3>3. QED
      BY <1>1, <2>1, <3>1, <3>2, OrderElsewhere
  <2>3. Order(c)'
    <3>1. frame[c] # NoFrame
      BY <2>1 DEF NoFrame
    <3>2. /\ frame'[c].at = "prepared" /\ frame'[c].op = frame[c].op
          /\ task'[c] = "none" /\ cb'[c] = NoCb /\ c \in pending'
      BY <1>1, <2>1, <3>1 DEF Phase, CsTypeOK
    <3>3. cb'[c].at = "none"
      BY <3>2 DEF NoCb
    <3>4. /\ Live(c)' /\ Awaited(c)' /\ Context(c)'.op = frame[c].op
          /\ ~Cancels => tcs'[c] = "pending"
      BY <1>1, <1>6, <2>1, PrepareSlots DEF Order, TaskOf
    <3>5. QED
      BY <3>2, <3>3, <3>4 DEF Order, HandleOf, AnswerOf, TaskOf
  <2>4. QED
    BY <2>1, <2>2, <2>3
<1>7. ASSUME NEW c \in Callers, ReadHandle(c)
      PROVE  ~twice' /\ \A d \in Callers : Order(d)'
  <2>1. /\ UNCHANGED <<task, call, cb, tcs, table, slot, pending, twice>>
        /\ frame[c].at = "prepared"
        /\ frame' = [frame EXCEPT ![c] = [at |-> "calling", op |-> frame[c].op, client |-> handle]]
    BY <1>7 DEF ReadHandle, handleVars, vars, apiVars, asyncVars
  <2>2. ASSUME NEW d \in Callers \ {c} PROVE Order(d)'
    BY <1>3, <2>1 DEF CsTypeOK
  <2>3. Order(c)'
    <3>1. frame'[c].at = "calling" /\ frame'[c].op = frame[c].op
      BY <2>1 DEF CsTypeOK
    <3>2. /\ (Live(c)' <=> Live(c)) /\ Context(c)' = Context(c)
          /\ Awaited(c) /\ Awaited(c)'
      BY <2>1, <3>1, SameTable DEF Awaited
    <3>3. QED
      BY <1>1, <2>1, <3>1, <3>2 DEF Order, HandleOf, AnswerOf, TaskOf
  <2>4. QED
    BY <2>1, <2>2, <2>3
<1>8. ASSUME NEW c \in Callers, CallReturns(c)
      PROVE  ~twice' /\ \A d \in Callers : Order(d)'
  <2>1. /\ UNCHANGED <<task, call, cb, tcs, table, slot, pending, twice>>
        /\ frame[c].at = "inside" /\ cb[c] = NoCb
        /\ frame' = [frame EXCEPT ![c] = NoFrame]
    BY <1>8 DEF CallReturns, handleVars, vars, apiVars, asyncVars
  <2>2. ASSUME NEW d \in Callers \ {c} PROVE Order(d)'
    BY <1>3, <2>1 DEF CsTypeOK
  <2>3. Order(c)'
    <3>1. /\ frame'[c].at = "none" /\ cb[c].at = "none" /\ frame[c] # NoFrame
      BY <2>1 DEF CsTypeOK, NoFrame, NoCb
    <3>2. task[c] = "none"
      BY <1>1, <3>1 DEF Phase
    <3>3. ~Awaited(c) /\ ~Awaited(c)'
      <4>1. NoCb' = NoCb
        BY DEF NoCb
      <4>2. QED
        BY <2>1, <3>1, <3>2, <4>1 DEF Awaited
    <3>4. QED
      BY <1>1, <2>1, <3>1, <3>2, <3>3 DEF Order, HandleOf, AnswerOf, TaskOf
  <2>4. QED
    BY <2>1, <2>2, <2>3
<1>9. ASSUME NEW c \in Callers, CallRejected(c) \/ CallHit(c)
      PROVE  ~twice' /\ \A d \in Callers : Order(d)'
  <2>1. /\ frame[c].at = "calling" /\ UNCHANGED <<task, tcs, table, slot, pending, twice>>
        /\ \E f \in Frames : f.at = "inside" /\ frame' = [frame EXCEPT ![c] = f]
        /\ \E x \in Cbs : x.at = "due" /\ x.op = frame[c].op /\ cb' = [cb EXCEPT ![c] = x]
    BY <1>9, InsideDoes DEF handleVars
  <2>2. \A d \in Callers \ {c} : call'[d] = call[d]
    <3>1. UNCHANGED call \/ \E x \in Calls : call' = [call EXCEPT ![c] = x]
      BY <1>9, InsideDoes
    <3>2. QED
      BY <1>1, <3>1
  <2>3. ASSUME NEW d \in Callers \ {c} PROVE Order(d)'
    BY <1>3, <2>1, <2>2 DEF CsTypeOK
  <2>4. Order(c)'
    <3>1. /\ frame'[c].at = "inside" /\ cb'[c].at = "due" /\ cb'[c].op = frame[c].op
          /\ frame[c] # NoFrame
      BY <2>1 DEF CsTypeOK, NoFrame
    <3>2. task'[c] = "none" /\ cb[c].at = "none" /\ cb'[c] # NoCb /\ NoCb' = NoCb
      BY <1>1, <2>1, <3>1 DEF Phase, NoCb
    <3>3. Awaited(c) /\ Awaited(c)' /\ Live(c)' /\ Context(c)' = Context(c)
      BY <1>1, <2>1, <3>2, SameTable DEF Awaited, Order, HandleOf
    <3>4. QED
      BY <1>1, <2>1, <3>1, <3>2, <3>3 DEF Order, HandleOf, AnswerOf, TaskOf
  <2>5. QED
    BY <2>1, <2>3, <2>4
<1>10. ASSUME NEW c \in Callers, CallSpawns(c)
       PROVE  ~twice' /\ \A d \in Callers : Order(d)'
  <2>1. /\ frame[c].at = "calling" /\ UNCHANGED <<cb, tcs, table, slot, pending, twice>>
        /\ frame' = [frame EXCEPT ![c] = NoFrame]
        /\ task' = [task EXCEPT ![c] = "queued"]
        /\ \E x \in Calls : x.op = frame[c].op /\ call' = [call EXCEPT ![c] = x]
    BY <1>10, SpawnDoes DEF handleVars
  <2>2. ASSUME NEW d \in Callers \ {c} PROVE Order(d)'
    BY <1>1, <1>3, <2>1 DEF CsTypeOK
  <2>3. Order(c)'
    <3>1. /\ frame'[c].at = "none" /\ task'[c] = "queued" /\ call'[c].op = frame[c].op
      BY <1>1, <2>1 DEF CsTypeOK, NoFrame
    <3>2. cb'[c].at = "none" /\ cb[c].at = "none"
      BY <1>1, <2>1 DEF Phase, NoCb
    <3>3. Awaited(c) /\ Awaited(c)' /\ Live(c)' /\ Context(c)' = Context(c)
      BY <1>1, <2>1, <3>1, SameTable DEF Awaited, Order, HandleOf
    <3>4. QED
      BY <1>1, <2>1, <3>1, <3>2, <3>3 DEF Order, HandleOf, AnswerOf, TaskOf
  <2>4. QED
    BY <2>1, <2>2, <2>3
<1>11. ASSUME NEW c \in Callers, CallDangling(c) \/ TargetWrong(c)
       PROVE  ~twice' /\ \A d \in Callers : Order(d)'
  BY <1>3, <1>11 DEF CallDangling, TargetWrong, Crash, handleVars, callVars, vars, apiVars, asyncVars
<1>12. ASSUME NEW c \in Callers, Cancel(c) \/ Await(c)
       PROVE  ~twice' /\ \A d \in Callers : Order(d)'
  <2>1. /\ UNCHANGED <<frame, task, call, cb, table, slot, pending, twice>>
        /\ \E x : x # "pending" /\ tcs' = [tcs EXCEPT ![c] = x]
        /\ Cancels \/ tcs[c] # "pending"
    BY <1>12 DEF Cancel, Await, handleVars, vars, apiVars, asyncVars
  <2>2. ASSUME NEW d \in Callers \ {c} PROVE Order(d)'
    BY <1>3, <2>1 DEF CsTypeOK
  <2>3. Order(c)'
    <3>1. tcs'[c] # "pending"
      BY <2>1 DEF CsTypeOK
    <3>2. HandleOf(c)'
      <4>1. Awaited(c)' <=> Awaited(c)
        BY <2>1, WaitElsewhere DEF waitOf
      <4>2. QED
        BY <1>1, <2>1, <4>1, SameTable DEF Order, HandleOf
    <3>3. QED
      BY <1>1, <2>1, <3>1, <3>2 DEF Order, AnswerOf, TaskOf
  <2>4. QED
    BY <2>1, <2>2, <2>3
<1>13. ASSUME NEW c \in Callers, Start(c) \/ CallBack(c),
              UNCHANGED <<dispVars, handleVars, frame, tcs, valueRef, crashed>>,
              Start(c) => UNCHANGED cb
       PROVE  ~twice' /\ \A d \in Callers : Order(d)'
  <2>1. UNCHANGED <<frame, tcs, table, slot, pending, twice>>
    BY <1>13 DEF handleVars
  <2>2. \/ /\ task[c] = "queued" /\ task' = [task EXCEPT ![c] = "waiting"]
           /\ UNCHANGED <<call, cb>>
        \/ /\ task[c] = "waiting" /\ task' = [task EXCEPT ![c] = "callback"]
           /\ \E x \in Cbs : x.at = "due" /\ x.op = call[c].op /\ cb' = [cb EXCEPT ![c] = x]
           /\ \E x : call' = [call EXCEPT ![c] = x]
    <3>1. CASE Start(c)
      BY <1>13, <3>1, TaskEffects
    <3>2. CASE CallBack(c)
      <4>1. \E x : call' = [call EXCEPT ![c] = x]
        <5>1. UNCHANGED call => call' = [call EXCEPT ![c] = call[c]]
          BY <1>1
        <5>2. QED
          BY <3>2, <5>1, CallBackDoes
      <4>2. QED
        BY <3>2, <4>1, CallBackDoes
    <3>3. QED
      BY <1>13, <3>1, <3>2
  <2>3. ASSUME NEW d \in Callers \ {c} PROVE Order(d)'
    BY <1>1, <1>3, <2>1, <2>2 DEF CsTypeOK
  <2>4. Order(c)'
    <3>1. Awaited(c) /\ frame[c] = NoFrame
      BY <1>1, <2>2 DEF Awaited, Phase
    <3>2. frame'[c].at = "none" /\ Live(c)' /\ Context(c)' = Context(c)
      BY <1>1, <2>1, <3>1, SameTable DEF Order, HandleOf, NoFrame
    <3>3. CASE task[c] = "queued"
      <4>1. task'[c] = "waiting" /\ cb'[c] = cb[c] /\ call'[c] = call[c]
        BY <1>1, <2>2, <3>3
      <4>2. Awaited(c)'
        BY <4>1 DEF Awaited
      <4>3. QED
        BY <1>1, <2>1, <3>1, <3>2, <3>3, <4>1, <4>2 DEF Order, HandleOf, AnswerOf, TaskOf
    <3>4. CASE task[c] # "queued"
      <4>1. task'[c] = "callback" /\ cb'[c].at = "due" /\ cb'[c].op = call[c].op
        BY <1>1, <2>2, <3>4 DEF CsTypeOK
      <4>2. Awaited(c)' /\ task[c] = "waiting"
        BY <2>2, <3>4, <4>1 DEF Awaited, NoCb
      <4>3. cb[c] = NoCb /\ cb[c].at = "none"
        BY <1>1, <3>1, <4>2 DEF Phase, NoCb, NoFrame
      <4>4. QED
        BY <1>1, <2>1, <3>1, <3>2, <4>1, <4>2, <4>3 DEF Order, HandleOf, AnswerOf, TaskOf
    <3>5. QED
      BY <3>3, <3>4
  <2>5. QED
    BY <2>1, <2>3, <2>4
<1>14. ASSUME NEW c \in Callers, Leave(c)
       PROVE  ~twice' /\ \A d \in Callers : Order(d)'
  <2>1. /\ UNCHANGED <<call, frame, cb, tcs, table, slot, pending, twice>>
        /\ task[c] = "callback" /\ task' = [task EXCEPT ![c] = "none"] /\ cb[c] = NoCb
    BY <1>14 DEF Leave, CallbackReturns, Move, handleVars, callVars
  <2>2. ASSUME NEW d \in Callers \ {c} PROVE Order(d)'
    BY <1>1, <1>3, <2>1
  <2>3. Order(c)'
    <3>1. frame[c] = NoFrame /\ frame[c].at = "none" /\ cb[c].at = "none" /\ task'[c] = "none"
      BY <1>1, <2>1 DEF Phase, NoFrame, NoCb
    <3>2. ~Awaited(c) /\ ~Awaited(c)'
      <4>1. NoCb' = NoCb
        BY DEF NoCb
      <4>2. QED
        BY <2>1, <3>1, <4>1 DEF Awaited
    <3>3. QED
      BY <1>1, <2>1, <3>1, <3>2 DEF Order, HandleOf, AnswerOf, TaskOf
  <2>4. QED
    BY <2>1, <2>2, <2>3
<1>15. ASSUME NEW c \in Callers, Complete(c)
       PROVE  ~twice' /\ \A d \in Callers : Order(d)'
  <2>1. /\ UNCHANGED <<task, call, frame, table, slot, pending, twice>>
        /\ cb[c].at = "due"
    BY <1>15, CompleteDoes DEF handleVars, vars, apiVars, asyncVars
  <2>2. Awaited(c) /\ Context(c).task = c
    <3>1. cb[c] # NoCb
      BY <2>1 DEF NoCb
    <3>2. QED
      BY <1>1, <3>1 DEF Awaited, Order, HandleOf, Live, Context
  <2>3. /\ \A d \in Callers \ {c} : cb'[d] = cb[d] /\ tcs'[d] = tcs[d]
        /\ cb'[c] = [at |-> "done", task |-> c] /\ tcs'[c] # "pending"
    BY <1>15, <2>2, CompletePoints
  <2>4. ASSUME NEW d \in Callers \ {c} PROVE Order(d)'
    BY <1>3, <2>1, <2>3
  <2>5. Order(c)'
    <3>1. cb'[c].at = "done" /\ cb'[c].task = c /\ cb'[c] # NoCb /\ cb[c] # NoCb /\ NoCb' = NoCb
      BY <2>1, <2>3 DEF NoCb
    <3>2. /\ frame[c].at \notin {"entered", "prepared", "calling"}
          /\ task[c] \notin {"queued", "waiting"}
      <4>1. Phase(c) /\ (frame[c].at \in {"entered", "prepared", "calling", "inside"} =>
                            frame[c] # NoFrame)
        BY <1>1 DEF NoFrame
      <4>2. QED
        BY <3>1, <4>1 DEF Phase
    <3>3. Awaited(c)' /\ Live(c)'
      BY <1>1, <2>1, <2>2, <3>1, SameTable DEF Awaited, Order, HandleOf
    <3>4. QED
      BY <1>1, <2>1, <2>2, <2>3, <3>1, <3>2, <3>3 DEF Order, HandleOf, AnswerOf, TaskOf
  <2>6. QED
    BY <2>1, <2>4, <2>5
<1>16. ASSUME NEW c \in Callers, RemoveEntry(c)
       PROVE  ~twice' /\ \A d \in Callers : Order(d)'
  <2>1. /\ UNCHANGED <<task, call, frame, tcs, table, slot, twice>>
        /\ cb[c].at = "done" /\ cb' = [cb EXCEPT ![c] = [at |-> "removed"]]
        /\ pending' = pending \ {cb[c].task}
    BY <1>16 DEF RemoveEntry, vars, apiVars, asyncVars
  <2>2. cb[c].task = c
    BY <1>1, <2>1 DEF Order, HandleOf
  <2>3. ASSUME NEW d \in Callers \ {c} PROVE Order(d)'
    BY <1>3, <2>1, <2>2 DEF CsTypeOK
  <2>4. Order(c)'
    <3>1. cb'[c].at = "removed" /\ cb'[c] # NoCb /\ cb[c] # NoCb /\ NoCb' = NoCb
      BY <2>1 DEF CsTypeOK, NoCb
    <3>2. /\ frame[c].at \notin {"entered", "prepared", "calling"}
          /\ task[c] \notin {"queued", "waiting"}
      <4>1. Phase(c) /\ (frame[c].at \in {"entered", "prepared", "calling", "inside"} =>
                            frame[c] # NoFrame)
        BY <1>1 DEF NoFrame
      <4>2. QED
        BY <3>1, <4>1 DEF Phase
    <3>3. Awaited(c)' /\ Live(c)'
      BY <1>1, <2>1, <3>1, SameTable DEF Awaited, Order, HandleOf
    <3>4. QED
      BY <1>1, <2>1, <2>2, <3>1, <3>2, <3>3 DEF Order, HandleOf, AnswerOf, TaskOf
  <2>5. QED
    BY <2>1, <2>3, <2>4
<1>17. ASSUME NEW c \in Callers, FreeHandle(c)
       PROVE  ~twice' /\ \A d \in Callers : Order(d)'
  <2>1. /\ UNCHANGED <<task, call, frame, tcs, pending>>
        /\ cb[c].at = "removed" /\ cb' = [cb EXCEPT ![c] = NoCb]
    BY <1>17 DEF FreeHandle, vars, apiVars, asyncVars
  <2>2. cb[c] # NoCb /\ NoCb.at = "none" /\ NoCb' = NoCb
    BY <2>1 DEF NoCb
  <2>3. Live(c) /\ c \notin pending
    BY <1>1, <2>1, <2>2 DEF Awaited, Order, HandleOf
  <2>4. ~twice'
    BY <1>17, <2>3, FreeSlots
  <2>5. ASSUME NEW d \in Callers \ {c} PROVE Order(d)'
    <3>1. Live(d) => Live(d)' /\ Context(d)' = Context(d)
      BY <1>17, <2>3, FreeSlots
    <3>2. cb'[d] = cb[d]
      BY <2>1 DEF CsTypeOK
    <3>3. QED
      BY <1>1, <2>1, <3>1, <3>2, OrderElsewhere
  <2>6. Order(c)'
    <3>1. /\ frame[c].at \notin {"entered", "prepared", "calling"}
          /\ task[c] \notin {"queued", "waiting"}
      <4>1. Phase(c) /\ (frame[c].at \in {"entered", "prepared", "calling", "inside"} =>
                            frame[c] # NoFrame)
        BY <1>1 DEF NoFrame
      <4>2. QED
        BY <2>2, <4>1 DEF Phase
    <3>2. cb'[c] = NoCb /\ cb'[c].at = "none"
      BY <2>1, <2>2 DEF CsTypeOK
    <3>3. ~Awaited(c)'
      BY <2>1, <2>2, <3>1, <3>2 DEF Awaited
    <3>4. QED
      BY <1>1, <2>1, <2>3, <3>1, <3>2, <3>3 DEF Order, HandleOf, AnswerOf, TaskOf
  <2>7. QED
    BY <2>4, <2>5, <2>6
<1>18. ASSUME NEW c \in Callers, DisposeRef(c)
       PROVE  ~twice' /\ \A d \in Callers : Order(d)'
  <2>1. /\ UNCHANGED <<task, frame, cb, tcs, table, slot, pending, twice>>
        /\ valueRef[c].at = "host"
    BY <1>18, DisposeRefDoes DEF handleVars
  <2>2. \A d \in Callers \ {c} : call'[d] = call[d]
    BY <1>1, <1>18, DisposeRefDoes
  <2>3. task[c] \notin {"queued", "waiting"}
    BY <1>1, <2>1 DEF Phase, NoRef
  <2>4. QED
    BY <1>3, <2>1, <2>2, <2>3
<1>19. CASE ((Network \/ Moka) /\ UNCHANGED <<dispVars, handleVars, callVars, crashed>>)
            \/ UNCHANGED csVars
  <2>1. UNCHANGED <<task, call, frame, cb, tcs, table, slot, pending, twice>>
    <3>1. Network \/ Moka => UNCHANGED <<call, task>>
      BY DEF Network, Moka, asyncVars
    <3>2. QED
      BY <1>19, <3>1 DEF csVars, callVars, handleVars, vars, apiVars, asyncVars
  <2>2. QED
    BY <1>3, <2>1
<1>20. ASSUME NEW c \in Callers, Worker(c) PROVE ~twice' /\ \A d \in Callers : Order(d)'
  <2>1. CASE Start(c) /\ UNCHANGED <<dispVars, handleVars, callVars, crashed>>
    BY <1>13, <2>1 DEF callVars
  <2>2. CASE CallBack(c)
    <3>1. UNCHANGED <<dispVars, handleVars, frame, tcs, valueRef, crashed>>
      BY <2>2 DEF CallBack
    <3>2. Start(c) => UNCHANGED cb
      BY <1>1, <2>2, CallBackDoes, TaskEffects
    <3>3. QED
      BY <1>13, <2>2, <3>1, <3>2
  <2>3. QED
    BY <1>14, <1>20, <2>1, <2>2 DEF Worker
<1>21. ASSUME NEW c \in Callers, HostThread(c) \/ Callback(c)
       PROVE  ~twice' /\ \A d \in Callers : Order(d)'
  BY <1>6, <1>7, <1>8, <1>9, <1>10, <1>11, <1>15, <1>16, <1>17, <1>21
  DEF HostThread, Call, Callback
<1>22. QED
  BY <1>4, <1>5, <1>12, <1>18, <1>19, <1>20, <1>21 DEF CsNext

-----------------------------------------------------------------------------
(* What a Dispose that met no call leaves *)

LEMMA MeetingIs ==
  /\ Meeting # "host" => ~CallUnderWay
  /\ Meeting = "none" => \A c \in Callers : ~Awaited(c)
  /\ Meeting \in {"none", "callback", "host"}
BY DEF Meeting

LEMMA QuietStep ==
  ASSUME IInv, TaskPerCall, CsTypeOK, AllSlotted, AllPhases, FlagFirst, Quiet, InOrder,
         [CsNext]_csVars
  PROVE  Quiet'
<1> USE DEF dispVars
<1>1. CASE BeginDispose
  <2>1. /\ client = "open" /\ ~disposed /\ overlap' = Meeting
        /\ unseen' = pending /\ disposing' = "freeing"
        /\ UNCHANGED <<task, client, clearing, pending, hand, frame, tcs, cb>>
    BY <1>1 DEF BeginDispose, callVars, vars, asyncVars
  <2>2. /\ overlap = "none" /\ hand = {}
        /\ \A c \in Callers : Order(c)
    BY <2>1 DEF FlagFirst, InOrder
  <2>3. CASE Meeting = "host"
    BY <2>1, <2>3 DEF Quiet
  <2>4. CASE Meeting # "host"
    <3>1. ~clearing /\ \A c \in Callers : frame[c] = NoFrame /\ tcs[c] # "pending"
      BY <2>4, MeetingIs DEF CallUnderWay
    <3>2. ASSUME NEW c \in Callers PROVE Met(c)'
      <4>1. Awaited(c)' <=> Awaited(c)
        BY <2>1, WaitElsewhere DEF waitOf
      <4>2. NoFrame' = NoFrame
        BY DEF NoFrame
      <4>3. ~Cancels => task[c] \notin {"queued", "waiting"} /\ cb[c].at # "due"
        BY <2>2, <3>1 DEF Order, TaskOf
      <4>4. QED
        BY <2>1, <3>1, <4>1, <4>2, <4>3, MeetingIs DEF Met
    <3>3. overlap' = "none" => pending = {}
      BY <2>1, <2>2, MeetingIs DEF Order, HandleOf, CsTypeOK
    <3>4. QED
      BY <2>1, <2>2, <3>1, <3>2, <3>3 DEF Quiet
  <2>5. QED
    BY <2>3, <2>4
<1>2. CASE ~BeginDispose
  <2> SUFFICES ASSUME disposed', overlap' # "host"
               PROVE  /\ ~clearing'
                      /\ \A c \in Callers : Met(c)'
                      /\ overlap' = "none" => pending' = {} /\ unseen' = {} /\ hand' = {}
                      /\ disposing' = "destroying" \/ client' = "destroyed" => pending' = {}
    BY DEF Quiet
  <2>1. /\ disposed /\ overlap # "host" /\ overlap' = overlap
        /\ ~clearing /\ \A c \in Callers : Met(c)
        /\ overlap = "none" => pending = {} /\ unseen = {} /\ hand = {}
        /\ disposing = "destroying" \/ client = "destroyed" => pending = {}
    BY <1>2, FlagStays DEF Quiet
  <2>2. ASSUME NEW c \in Callers PROVE ~Begin(c) /\ ~Prepare(c)
    BY <2>1 DEF Begin, Prepare, Met, NoFrame
  <2>3. ASSUME NEW c \in Callers PROVE Met(c)'
    <3>1. /\ frame'[c] = NoFrame /\ tcs'[c] # "pending"
          /\ ~Cancels => task'[c] \notin {"queued", "waiting"} /\ cb'[c].at # "due"
      BY <2>1, <2>2, CallStep DEF Met
    <3>2. overlap = "none" => ~Awaited(c)'
      BY <2>1, <2>2, AwaitedStep DEF Met
    <3>3. NoFrame' = NoFrame
      BY DEF NoFrame
    <3>4. QED
      BY <2>1, <3>1, <3>2, <3>3 DEF Met
  <2>4. /\ ~clearing'
        /\ overlap = "none" => pending' = {} /\ unseen' = {} /\ hand' = {}
        /\ disposing' = "destroying" \/ client' = "destroyed" => pending' = {}
    <3>1. CASE ClientStep
      BY <1>2, <2>1, <3>1, ClientCases DEF FlagFirst
    <3>2. CASE ~ClientStep
      BY <2>1, <2>2, <3>2, DispStep
    <3>3. QED
      BY <3>1, <3>2
  <2>5. QED
    BY <2>1, <2>3, <2>4
<1>3. QED
  BY <1>1, <1>2

\* Without a Dispose under a call a result goes where its own call goes.
LEMMA LentStep ==
  ASSUME IInv, TaskPerCall, CsTypeOK, AllSlotted, AllPhases, FlagFirst, Quiet, Owned, InOrder,
         [CsNext]_csVars, overlap' # "host"
  PROVE  /\ \A d \in Callers : LentBy(d)'
         /\ \A s \in Slots : table'[s] # Empty' => table'[s].client = "open"
<1>1. /\ overlap # "host"
      /\ \A d \in Callers : LentBy(d)
      /\ \A s \in Slots : table[s] # Empty => table[s].client = "open"
      /\ Empty' = Empty
  <2>1. overlap # "host"
    <3>1. CASE BeginDispose
      BY <3>1 DEF BeginDispose, FlagFirst
    <3>2. CASE ~BeginDispose
      BY <3>2, FlagStays
    <3>3. QED
      BY <3>1, <3>2
  <2>2. Empty' = Empty
    BY DEF Empty
  <2>3. QED
    BY <2>1, <2>2 DEF Owned
<1>2. \A s \in Slots : table'[s] # Empty => table'[s].client = "open"
  <2>1. ASSUME NEW c \in Callers, Prepare(c)
        PROVE  \A s \in Slots : table'[s] # Empty => table'[s].client = "open"
    <3>1. frame[c] # NoFrame
      BY <2>1 DEF Prepare, NoFrame
    <3>2. handle = "open"
      BY <1>1, <3>1 DEF FlagFirst, Quiet, Met, CsTypeOK, Clients
    <3>3. PICK s \in Slots :
             table' = [table EXCEPT ![s] = [op |-> frame[c].op, task |-> c, client |-> "open"]]
      BY <2>1, <3>2, PrepareDoes
    <3>4. QED
      BY <1>1, <3>3 DEF CsTypeOK
  <2>2. ASSUME NEW c \in Callers, FreeHandle(c) \/ FreeEntry(c)
        PROVE  \A s \in Slots : table'[s] # Empty => table'[s].client = "open"
    BY <1>1, <2>2, FreeSlots
  <2>3. QED
    BY <1>1, <2>1, <2>2, TableStep
<1>3. ASSUME NEW d \in Callers PROVE LentBy(d)'
  <2>1. ASSUME valueRef'[d] = valueRef[d] PROVE LentBy(d)'
    BY <1>1, <2>1 DEF LentBy
  <2>2. ASSUME NEW c \in Callers, Complete(c) PROVE LentBy(d)'
    <3>1. CASE c # d \/ cb[c].op = "set"
      <4>1. valueRef'[d] = valueRef[d]
        <5>1. \A e \in Callers \ {c} : valueRef'[e] = valueRef[e]
          BY <2>2, CompletePoints
        <5>2. cb[c].op = "set" => valueRef'[c] = valueRef[c]
          BY <2>2, CompletePoints
        <5>3. QED
          BY <3>1, <5>1, <5>2
      <4>2. QED
        BY <2>1, <4>1
    <3>2. CASE c = d /\ cb[c].op # "set"
      <4>1. \/ /\ valueRef'[d] = [at |-> "task", task |-> Context(d).task,
                                  client |-> Context(d).client]
               /\ tcs[Context(d).task] = "pending"
            \/ valueRef'[d] = [at |-> "nobody"] /\ tcs[Context(d).task] # "pending"
        BY <2>2, <3>2, CompletePoints
      <4>2. cb[d].at = "due" /\ cb[d] # NoCb /\ Context(d).task \in Callers
        BY <2>2, <3>2, CompleteDoes DEF NoCb, Contexts
      <4>3. Context(d).client = "open"
        <5>1. slot[d] \in Slots /\ Context(d) \in Contexts
          BY <2>2, <3>2, CompleteDoes
        <5>2. Context(d) # Empty
          BY <5>1 DEF Contexts, Empty, Ops
        <5>3. QED
          BY <1>1, <5>1, <5>2 DEF Context
      <4>4. CASE overlap = "none"
        <5>1. Order(d) /\ Awaited(d)
          BY <4>2, <4>4 DEF InOrder, Awaited
        <5>2. Context(d).task = d /\ (~Cancels => tcs[d] = "pending")
          BY <4>2, <5>1 DEF Order, HandleOf, TaskOf, Live, Context
        <5>3. QED
          BY <4>1, <4>3, <5>2 DEF LentBy
      <4>5. CASE overlap # "none"
        <5>1. tcs[Context(d).task] # "pending" /\ Cancels
          BY <1>1, <4>2, <4>5 DEF FlagFirst, Quiet, Met
        <5>2. valueRef'[d] = [at |-> "nobody"]
          BY <4>1, <5>1
        <5>3. QED
          BY <5>1, <5>2 DEF LentBy
      <4>6. QED
        BY <4>4, <4>5
    <3>3. QED
      BY <3>1, <3>2
  <2>3. ASSUME NEW c \in Callers, Await(c) PROVE LentBy(d)'
    <3>1. CASE valueRef[d].at = "task" /\ valueRef[d].task = c
      <4>1. valueRef'[d] = [valueRef[d] EXCEPT !.at = "host"]
        BY <2>3, <3>1 DEF Await
      <4>2. /\ [valueRef[d] EXCEPT !.at = "host"].at = "host"
            /\ [valueRef[d] EXCEPT !.at = "host"].client = valueRef[d].client
        BY <3>1 DEF CsTypeOK, Refs, NoRef
      <4>3. QED
        BY <1>1, <3>1, <4>1, <4>2 DEF LentBy
    <3>2. CASE ~(valueRef[d].at = "task" /\ valueRef[d].task = c)
      BY <2>1, <2>3, <3>2 DEF Await
    <3>3. QED
      BY <3>1, <3>2
  <2>4. ASSUME NEW c \in Callers, DisposeRef(c) PROVE LentBy(d)'
    <3>1. valueRef[c].client = "open" /\ valueRef' = [valueRef EXCEPT ![c] = NoRef]
      BY <1>1, <2>4, DisposeRefDoes DEF LentBy
    <3>2. CASE c = d
      BY <3>1, <3>2 DEF LentBy, NoRef, CsTypeOK
    <3>3. CASE c # d
      BY <2>1, <3>1, <3>3 DEF CsTypeOK
    <3>4. QED
      BY <3>2, <3>3
  <2>5. CASE UNCHANGED valueRef
    BY <2>1, <2>5
  <2>6. ASSUME NEW c \in Callers,
               ~Complete(c) /\ ~Await(c) /\ ~DisposeRef(c),
               Begin(c) \/ HostThread(c) \/ Cancel(c) \/ Worker(c) \/ Callback(c)
        PROVE  UNCHANGED valueRef
    BY <2>6
    DEF Begin, HostThread, Prepare, ReadHandle, Call, CallRejected, CallHit, Inside, CallSpawns,
        CallDangling, CallReturns, Cancel, Worker, CallBack, Leave, Callback, TargetWrong,
        RemoveEntry, FreeHandle, Crash, callVars
  <2>7. QED
    BY <2>2, <2>3, <2>4, <2>5, <2>6, ClientDoes DEF CsNext, callVars, csVars
<1>4. QED
  BY <1>1, <1>2, <1>3

\* What ends the process.
LEMMA CrashStep ==
  ASSUME IInv, TaskPerCall, CsTypeOK, AllSlotted, AllPhases, FlagFirst, Quiet, InOrder,
         CrashNeedsDispose, [CsNext]_csVars
  PROVE  CrashNeedsDispose'
<1>1. \/ ~crashed'
      \/ UNCHANGED csVars
      \/ ClearDangling
      \/ \E c \in Callers : CallDangling(c) \/ TargetWrong(c)
  <2>1. CASE ClientStep
    BY <2>1 DEF ClientStep, Construct, BeginClear, EndClear, BeginDispose, TakeEntry, FreeEntry,
                ClearPending, DestroyNative, EndDispose, CsNext, csVars
  <2>2. ASSUME NEW c \in Callers, Begin(c) \/ HostThread(c) \/ Cancel(c) \/ Worker(c)
        PROVE  UNCHANGED crashed \/ CallDangling(c)
    BY <2>2
    DEF Begin, HostThread, Prepare, ReadHandle, Call, CallRejected, CallHit, Inside, CallSpawns,
        CallReturns, Cancel, Worker, CallBack, Leave
  <2>3. ASSUME NEW c \in Callers, Callback(c) \/ Await(c) \/ DisposeRef(c)
        PROVE  UNCHANGED crashed \/ TargetWrong(c)
    BY <2>3 DEF Callback, Complete, RemoveEntry, FreeHandle, Await, DisposeRef
  <2>4. QED
    BY <2>1, <2>2, <2>3 DEF CsNext
<1>2. CASE UNCHANGED csVars
  BY <1>2 DEF CrashNeedsDispose, csVars, dispVars
<1>3. CASE ClearDangling
  BY <1>3 DEF ClearDangling, Crash, dispVars, FlagFirst, Quiet, CrashNeedsDispose
<1>4. ASSUME NEW c \in Callers, CallDangling(c) PROVE CrashNeedsDispose'
  <2>1. frame[c] # NoFrame
    BY <1>4 DEF CallDangling, NoFrame
  <2>2. overlap = "host"
    BY <1>4, <2>1 DEF CallDangling, FlagFirst, Quiet, Met
  <2>3. QED
    BY <1>4, <2>2 DEF CallDangling, Crash, dispVars, CrashNeedsDispose
<1>5. ASSUME NEW c \in Callers, TargetWrong(c) PROVE CrashNeedsDispose'
  <2>1. cb[c].at = "due" /\ Context(c).op # cb[c].op /\ UNCHANGED overlap
    BY <1>5 DEF TargetWrong, Crash, dispVars
  <2>2. overlap # "none"
    BY <2>1 DEF InOrder, Order, HandleOf
  <2>3. overlap # "host" => Cancels
    BY <2>1, <2>2 DEF FlagFirst, Quiet, Met
  <2>4. QED
    BY <2>1, <2>2, <2>3 DEF CrashNeedsDispose, CsTypeOK
<1>6. QED
  BY <1>1, <1>2, <1>3, <1>4, <1>5 DEF CrashNeedsDispose

-----------------------------------------------------------------------------
(* The invariant *)

CsInv ==
    /\ IInv /\ TaskPerCall
    /\ CsTypeOK /\ AllSlotted /\ AllPhases
    /\ FlagFirst /\ Quiet /\ Owned /\ InOrder
    /\ CrashNeedsDispose

LEMMA CsInitInv ==
  ASSUME CsInit
  PROVE  /\ CsTypeOK /\ AllSlotted /\ AllPhases
         /\ FlagFirst /\ Quiet /\ Owned /\ InOrder /\ CrashNeedsDispose
<1>1. CsTypeOK
  <2>1. /\ table \in [Slots -> {Empty} \cup Contexts]
        /\ slot \in [Callers -> Slots \cup {NoSlot}]
        /\ frame \in [Callers -> Frames] /\ cb \in [Callers -> Cbs]
        /\ tcs \in [Callers -> {"none", "pending", "result", "exception", "canceled"}]
        /\ valueRef \in [Callers -> Refs]
    BY DEF CsInit, Frames, Cbs, Refs
  <2>2. /\ disposed \in BOOLEAN /\ clearing \in BOOLEAN
        /\ twice \in BOOLEAN /\ crashed \in BOOLEAN
        /\ handle \in Clients /\ overlap \in {"none", "callback", "host"}
        /\ disposing \in {"no", "freeing", "destroying", "zeroing"}
        /\ pending \in SUBSET Callers /\ unseen \in SUBSET Callers /\ hand \in SUBSET Callers
    BY DEF CsInit, Clients
  <2>3. QED
    BY <2>1, <2>2 DEF CsTypeOK
<1>2. /\ ~disposed /\ ~crashed /\ ~clearing /\ ~twice /\ handle = "null" /\ client = "null"
      /\ disposing = "no" /\ overlap = "none" /\ pending = {} /\ unseen = {} /\ hand = {}
      /\ \A s \in Slots : table[s] = Empty
      /\ \A c \in Callers :
            /\ task[c] = "none" /\ call[c] = NoCall /\ result[c] = NoResult
            /\ frame[c] = NoFrame /\ cb[c] = NoCb /\ valueRef[c] = NoRef
            /\ tcs[c] = "none" /\ slot[c] = NoSlot
  BY DEF CsInit, Init, ApiInit
<1>3. NoFrame.at = "none" /\ NoCb.at = "none" /\ NoRef.at = "none"
  BY DEF NoFrame, NoCb, NoRef
<1>4. \A c \in Callers : ~Awaited(c) /\ ~Live(c)
  BY <1>2, <1>3 DEF Awaited, Live
<1>5. AllSlotted /\ AllPhases
  BY <1>2, <1>3, <1>4 DEF AllSlotted, Slotted, AllPhases, Phase
<1>6. FlagFirst /\ Quiet /\ CrashNeedsDispose
  BY <1>2 DEF FlagFirst, Quiet, CrashNeedsDispose
<1>7. Owned
  BY <1>2, <1>3 DEF Owned, OwnerOf, LentBy
<1>8. InOrder
  BY <1>2, <1>3, <1>4 DEF InOrder, Order, HandleOf, AnswerOf, TaskOf
<1>9. QED
  BY <1>1, <1>5, <1>6, <1>7, <1>8

LEMMA CsInvStep ==
  ASSUME CsInv, [CsNext]_csVars
  PROVE  /\ CsTypeOK' /\ AllSlotted' /\ AllPhases'
         /\ FlagFirst' /\ Quiet' /\ Owned' /\ InOrder' /\ CrashNeedsDispose'
<1> USE DEF CsInv
<1>1. CsTypeOK' /\ AllSlotted' /\ AllPhases'
  BY CsTypeStep, SlotStep, PhaseStep
<1>2. FlagFirst' /\ Quiet' /\ CrashNeedsDispose'
  BY FlagStep, QuietStep, CrashStep
<1>3. Owned'
  <2>1. \A d \in Callers : OwnerOf(d)'
    BY OwnerStep DEF Owned
  <2>2. QED
    BY <2>1, LentStep DEF Owned
<1>4. InOrder'
  <2>1. CASE overlap = "none"
    BY <2>1, OrderStep DEF InOrder
  <2>2. CASE overlap # "none"
    <3>1. disposed
      BY <2>2 DEF FlagFirst
    <3>2. overlap' = overlap
      BY <3>1, FlagStays DEF BeginDispose
    <3>3. QED
      BY <2>2, <3>2 DEF InOrder
  <2>3. QED
    BY <2>1, <2>2
<1>5. QED
  BY <1>1, <1>2, <1>3, <1>4

LEMMA CsInvariance == CsSpec => []CsInv
<1>1. CsSpec => [](IInv /\ TaskPerCall)
  BY CsKeepsAsync, AsyncInvariance, PTL
<1>2. CsInv <=> /\ IInv /\ TaskPerCall
                /\ CsTypeOK /\ AllSlotted /\ AllPhases
                /\ FlagFirst /\ Quiet /\ Owned /\ InOrder /\ CrashNeedsDispose
  BY DEF CsInv
<1>3. CsInv /\ [CsNext]_csVars => /\ CsTypeOK' /\ AllSlotted' /\ AllPhases'
                                  /\ FlagFirst' /\ Quiet' /\ Owned' /\ InOrder'
                                  /\ CrashNeedsDispose'
  BY CsInvStep
<1>4. CsInit => /\ CsTypeOK /\ AllSlotted /\ AllPhases
                /\ FlagFirst /\ Quiet /\ Owned /\ InOrder /\ CrashNeedsDispose
  BY CsInitInv
<1>5. QED
  BY <1>1, <1>2, <1>3, <1>4, PTL DEF CsSpec

-----------------------------------------------------------------------------
(* Theorems, for every host *)

\* Whatever the host cancels and whenever it disposes the client, only a
\* Dispose under a call ever ends the process, or one that meets the callback
\* of a call that was canceled.
THEOREM CsCrash == CsSpec => []CrashNeedsDispose
<1>1. CsInv => CrashNeedsDispose
  BY DEF CsInv
<1>2. QED
  BY <1>1, CsInvariance, PTL

\* Until a Dispose meets a call or a callback every callback finds its own
\* context, frees its handle once and takes its entry; and no Dispose, whatever
\* it meets, leaves a handle without a callback to come.
THEOREM CsHandles == CsSpec => []HandleAlive
<1>1. CsInv => HandleAlive
  <2> SUFFICES ASSUME CsInv PROVE HandleAlive
    OBVIOUS
  <2>1. \A c \in Callers : Live(c) => Awaited(c)
    BY DEF CsInv, AllSlotted, Slotted
  <2>2. overlap = "none" => ~twice /\ \A c \in Callers : HandleOf(c)
    BY DEF CsInv, InOrder, Order
  <2>3. QED
    BY <2>1, <2>2 DEF HandleAlive, HandleOf
<1>2. QED
  BY <1>1, CsInvariance, PTL

\* No call goes into a destroyed client but one that the client was disposed
\* under.
THEOREM CsClient == CsSpec => []ClientAlive
<1>1. CsInv => ClientAlive
  <2> SUFFICES ASSUME CsInv,
                      \/ clearing
                      \/ \E c \in Callers : frame[c].at = "calling" /\ frame[c].client = "open"
               PROVE  client = "open" \/ overlap = "host"
    BY DEF ClientAlive
  <2>1. clearing \/ \E c \in Callers : frame[c] # NoFrame
    BY DEF NoFrame
  <2>2. client \in {"open", "destroyed"}
    BY <2>1 DEF CsInv, FlagFirst, TaskPerCall
  <2>3. disposed => overlap = "host"
    BY <2>1 DEF CsInv, Quiet, Met
  <2>4. QED
    BY <2>2, <2>3 DEF CsInv, FlagFirst
<1>2. QED
  BY <1>1, CsInvariance, PTL

\* Every result is in the hands of its callback, of its own task or of the
\* host, unless calls are canceled or the client is disposed under them.
THEOREM CsResults == CsSpec => []ResultOwned
<1>1. CsInv => ResultOwned
  <2> SUFFICES ASSUME CsInv, NEW c \in Callers, result[c] # NoResult
               PROVE  \/ cb[c].at = "due" /\ valueRef[c] = NoRef
                      \/ /\ valueRef[c].at = "task"
                         /\ tcs[valueRef[c].task] = "result"
                         /\ valueRef[c].task = c \/ overlap = "host"
                      \/ valueRef[c].at = "host"
                      \/ valueRef[c].at = "nobody" /\ (Cancels \/ overlap = "host")
    BY DEF ResultOwned
  <2>1. OwnerOf(c) /\ (overlap # "host" => LentBy(c))
    BY DEF CsInv, Owned
  <2>2. CASE valueRef[c] = NoRef
    BY <2>1, <2>2 DEF OwnerOf
  <2>3. CASE valueRef[c] # NoRef
    <3>1. valueRef[c].at \in {"task", "host", "nobody"}
      BY <2>3 DEF CsInv, CsTypeOK, Refs, NoRef
    <3>2. QED
      BY <2>1, <3>1 DEF OwnerOf, LentBy
  <2>4. QED
    BY <2>2, <2>3
<1>2. QED
  BY <1>1, CsInvariance, PTL

\* A task that is not completed has somebody who will complete it, unless the
\* client was disposed under a call.
THEOREM CsAnswered == CsSpec => []TaskAnswered
<1>1. CsInv => TaskAnswered
  <2> SUFFICES ASSUME CsInv, NEW c \in Callers, tcs[c] = "pending"
               PROVE  \/ frame[c].at \in {"entered", "prepared", "calling"}
                      \/ task[c] \in {"queued", "waiting"}
                      \/ cb[c].at = "due"
                      \/ overlap = "host"
    BY DEF TaskAnswered
  <2>1. CASE overlap = "none"
    BY <2>1 DEF CsInv, InOrder, Order, AnswerOf
  <2>2. CASE overlap # "none"
    BY <2>2 DEF CsInv, FlagFirst, Quiet, Met
  <2>3. QED
    BY <2>1, <2>2
<1>2. QED
  BY <1>1, CsInvariance, PTL

\* The text of a reference stays until its release, whatever is canceled and
\* disposed.
THEOREM CsAsyncLoans == CsSpec => LoansKept
BY CsKeepsAsync, AsyncLoans, PTL

\* Coherent, and current but for the races.
THEOREM CsAsyncCoherent == CsSpec /\ Watched => []Coherent /\ GetsCurrent
BY CsKeepsAsync, AsyncCoherent, PTL

\* What is left of a disposed client when its calls are over: no handle, and
\* only the texts that nobody got, of calls canceled or disposed under.
THEOREM CsCanceled == CsSpec => []OnlyCanceledLeak
<1>1. CsInv /\ ResultOwned /\ CacheOwned => OnlyCanceledLeak
  <2> SUFFICES ASSUME CsInv, ResultOwned, CacheOwned, client = "destroyed",
                      \A c \in Callers :
                         /\ frame[c] = NoFrame /\ task[c] = "none" /\ cb[c] = NoCb
                         /\ valueRef[c].at \in {"none", "nobody"}
               PROVE  /\ \A c \in Callers : ~Live(c)
                      /\ overlap # "host" => pending = {}
                      /\ \A a \in Arcs :
                            strong[a] =
                              Cardinality({c \in Holders(a) :
                                              /\ valueRef[c].at = "nobody"
                                              /\ Cancels \/ overlap = "host"})
                              + (IF a \in retired THEN 1 ELSE 0)
    BY DEF OnlyCanceledLeak
  <2>1. NoFrame.at = "none" /\ NoCb.at = "none"
    BY DEF NoFrame, NoCb
  <2>2. ASSUME NEW c \in Callers PROVE ~Live(c)
    <3>1. ~Awaited(c)
      BY <2>1 DEF Awaited
    <3>2. QED
      BY <3>1 DEF CsInv, AllSlotted, Slotted
  <2>3. overlap # "host" => pending = {}
    BY DEF CsInv, FlagFirst, Quiet
  <2>4. \A k \in Keys : entry[k] = NoArc
    BY DEF CacheOwned, Alive
  <2>5. ASSUME NEW a \in Arcs, NEW c \in Holders(a)
        PROVE  valueRef[c].at = "nobody" /\ (Cancels \/ overlap = "host")
    <3>1. c \in Callers /\ result[c] # NoResult
      BY <2>5, CacheAssumption DEF Holders, Holds, NoResult
    <3>2. QED
      BY <2>1, <3>1 DEF ResultOwned
  <2>6. ASSUME NEW a \in Arcs
        PROVE  Holders(a) = {c \in Holders(a) : /\ valueRef[c].at = "nobody"
                                                /\ Cancels \/ overlap = "host"}
    BY <2>5
  <2>7. QED
    BY <2>2, <2>3, <2>4, <2>6, EmptyCache DEF CsInv
<1>2. CsSpec => []CacheOwned
  BY CsKeepsAsync, AsyncInvariance, PTL
<1>3. QED
  BY <1>1, <1>2, CsResults, PTL, CsInvariance
=============================================================================
