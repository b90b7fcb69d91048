--------------------------- MODULE KvCsSync_proofs ---------------------------
(***************************************************************************)
(* The synchronous C# binding implements KvSync, and a host that disposes  *)
(* neither the client under a call, nor a reference twice at once, nor one *)
(* that is being read, is safe.                                            *)
(***************************************************************************)
EXTENDS KvCsSync, KvSync_proofs

\* Whatever threads call and dispose, the C API sees its own steps until the
\* process has ended.
LEMMA CsStep == [CsNext]_csVars => [Next]_vars
<1> SUFFICES ASSUME CsNext PROVE Next \/ UNCHANGED vars
  BY DEF csVars
<1> USE DEF Crash
<1>1. CASE ClientStep
  BY <1>1 DEF ClientStep, Construct, BeginClear, ClearReadsHandle, ClearCalls, ClearDangling,
              BeginDispose, DestroyNative, DestroyInUse,
              EndDispose, Next
<1>2. ASSUME NEW c \in Callers, HandBack(c) \/ GetOrSet(c) \/ Ask(c) \/ Resume(c)
      PROVE  Next
  BY <1>2 DEF Next, Thread
<1>3. ASSUME NEW c \in Callers, NEW k \in Keys \cup {BadKey}, GetInvalid(c, k)
      PROVE  Next
  BY <1>3 DEF Next, Thread
<1>4. ASSUME NEW c \in Callers, Begin(c) \/ CallStep(c) PROVE Next \/ UNCHANGED vars
  <2>1. CASE CallGet(c)
    BY <1>2, <1>3, <2>1 DEF CallGet
  <2>2. CASE CallSet(c) \/ InSdk(c) \/ SetReturns(c) \/ GetReturns(c)
    BY <1>2, <2>2 DEF CallSet, InSdk, SetReturns, GetReturns
  <2>3. QED
    BY <1>4, <2>1, <2>2
    DEF Begin, CallStep, ReadHandle, SetInvalid, CallDangling, GetRefReturns
<1>5. ASSUME NEW c \in Callers, RefStep(c) PROVE Next \/ UNCHANGED vars
  BY <1>2, <1>5 DEF RefStep, EnterDispose, ReleaseRef, ReleaseTwice, BeginRead, EndRead, ReadFreed,
                    ForgetRef
<1>6. CASE Network \/ Moka
  BY <1>6 DEF Next
<1>7. QED
  BY <1>1, <1>4, <1>5, <1>6 DEF CsNext

\* The binding implements the synchronous API.
THEOREM CsKeepsSync == CsSpec => Spec
<1>1. CsInit => Init
  BY DEF CsInit
<1>2. QED
  BY <1>1, CsStep, PTL DEF CsSpec, Spec

-----------------------------------------------------------------------------

Frames ==
    {NoFrame} \cup [at : {"entered"}, fn : {"GetRef", "Get", "Set"}]
              \cup [at : {"calling", "native"}, fn : {"GetRef", "Get", "Set"},
                    client : {"null", "open"}]
RefStates ==
    {NoRef} \cup [state : {"open", "disposed", "forgotten"}, client : {"null", "open"}]

CsTypeOK ==
    /\ handle \in {"null", "open"}
    /\ disposing \in {"no", "destroying", "zeroing"}
    /\ clearing \in {"no", "entered", "null", "open"}
    /\ disposed \in BOOLEAN /\ raced \in BOOLEAN /\ crashed \in BOOLEAN
    /\ frame \in [Callers -> Frames]
    /\ ref \in [Callers -> RefStates]
    /\ inside \in [Callers -> 0 .. MaxInside]
    /\ reading \in [Callers -> Arcs \cup {NoArc}]

\* The binding's own variables keep their types.
LEMMA CsTypeStep == TypeOK /\ CsTypeOK /\ ResultOwned /\ [CsNext]_csVars => CsTypeOK'
<1> SUFFICES ASSUME TypeOK, CsTypeOK, ResultOwned, [CsNext]_csVars PROVE CsTypeOK'
  OBVIOUS
<1> USE DEF CsTypeOK, Frames, RefStates, NoFrame, NoRef, dispVars, refVars, Crash, Goto, At,
            MaxInside
<1>1. CASE ClientStep
  BY <1>1 DEF ClientStep, Construct, BeginClear, ClearReadsHandle, ClearCalls, ClearDangling,
              BeginDispose, DestroyNative, DestroyInUse,
              EndDispose, CallUnderWay
<1>2. ASSUME NEW c \in Callers, Begin(c) PROVE CsTypeOK'
  BY <1>2 DEF Begin
<1>3. ASSUME NEW c \in Callers, CallStep(c) PROVE CsTypeOK'
  <2>1. CASE ReadHandle(c)
    BY <2>1 DEF ReadHandle
  <2>2. CASE CallGet(c) \/ CallSet(c)
    <3>1. At(c, "calling") /\ InNative(c) /\ UNCHANGED <<dispVars, refVars, raced, crashed>>
      BY <2>2 DEF CallGet, CallSet
    <3>2. QED
      BY <3>1 DEF InNative
  <2>3. CASE SetInvalid(c) \/ CallDangling(c) \/ InSdk(c) \/ SetReturns(c)
    BY <2>3 DEF SetInvalid, CallDangling, InSdk, SetReturns
  <2>4. CASE GetRefReturns(c)
    BY <2>4 DEF GetRefReturns
  <2>5. CASE GetReturns(c)
    BY <2>5 DEF GetReturns
  <2>6. QED
    BY <1>3, <2>1, <2>2, <2>3, <2>4, <2>5 DEF CallStep
<1>4. ASSUME NEW c \in Callers, RefStep(c) PROVE CsTypeOK'
  <2>1. CASE EnterDispose(c)
    BY <2>1 DEF EnterDispose
  <2>2. CASE ReleaseRef(c)
    <3> DEFINE after == IF NoUser(c) THEN NoRef ELSE [ref[c] EXCEPT !.state = "disposed"]
    <3>1. after \in RefStates
      <4>1. inside[c] > 0 /\ ref[c].state \in {"open", "disposed"}
        BY <2>2 DEF ReleaseRef, ResultOwned
      <4>2. [ref[c] EXCEPT !.state = "disposed"] \in RefStates
        BY <4>1
      <4>3. QED
        BY <4>2
    <3>2. /\ ref' = [ref EXCEPT ![c] = after]
          /\ inside[c] > 0 /\ inside' = [inside EXCEPT ![c] = @ - 1]
          /\ UNCHANGED <<dispVars, frame, reading, raced, crashed>>
      BY <2>2 DEF ReleaseRef
    <3> HIDE DEF after
    <3>3. QED
      BY <3>1, <3>2
  <2>3. CASE ReleaseTwice(c)
    BY <2>3 DEF ReleaseTwice
  <2>4. CASE ForgetRef(c)
    <3>1. [ref[c] EXCEPT !.state = "forgotten"] \in RefStates
      BY <2>4 DEF ForgetRef
    <3>2. /\ ref' = [ref EXCEPT ![c] = [ref[c] EXCEPT !.state = "forgotten"]]
          /\ UNCHANGED <<dispVars, frame, inside, reading, raced, crashed>>
      BY <2>4 DEF ForgetRef
    <3>3. QED
      BY <3>1, <3>2
  <2>5. CASE BeginRead(c)
    <3>1. result[c].arc \in Arcs
      BY <2>5 DEF BeginRead, TypeOK, Results, NoResult
    <3>2. QED
      BY <2>5, <3>1 DEF BeginRead
  <2>6. CASE EndRead(c)
    BY <2>6 DEF EndRead
  <2>7. CASE ReadFreed(c)
    BY <2>7 DEF ReadFreed
  <2>8. QED
    BY <1>4, <2>1, <2>2, <2>3, <2>4, <2>5, <2>6, <2>7 DEF RefStep
<1>5. CASE UNCHANGED <<dispVars, frame, refVars, raced, crashed>>
  BY <1>5
<1>6. QED
  BY <1>1, <1>2, <1>3, <1>4, <1>5 DEF CsNext, csVars

-----------------------------------------------------------------------------
(* What ResultOwned and SafeUnlessRaced rest on *)

\* ResultOwned of one call, and where its thread can be.
Mine(c) ==
    /\ InCall(c) => At(c, "native")
    /\ ref[c] # NoRef => frame[c] = NoFrame
    /\ result[c] # NoResult <=>
          \/ At(c, "native") /\ call[c].op = "get" /\ ~InCall(c)
          \/ ref[c].state \in {"open", "forgotten"}
          \/ ref[c].state = "disposed" /\ ref[c].client = "null"
    /\ inside[c] > 0 \/ reading[c] # NoArc => ref[c].state \in {"open", "disposed"}

AllMine == \A c \in Callers : Mine(c)

\* The flag is up before the client goes, and the host raced when it goes up
\* under a call, or when a ValueRef has a thread in Dispose and another user.
RaceNoted ==
    /\ handle = "null" => client = "null" \/ disposed
    /\ client = "destroyed" \/ disposing # "no" => disposed
    /\ \A c \in Callers : frame[c] # NoFrame => client # "null" /\ (disposed => raced)
    /\ clearing # "no" => client # "null" /\ (disposed => raced)
    /\ \A c \in Callers : inside[c] > 1 \/ (inside[c] > 0 /\ reading[c] # NoArc) => raced

\* The variables that Mine(c) is about.
mine(c) == <<call[c], result[c], frame[c], ref[c], inside[c], reading[c]>>

\* The inductive invariant.
OInv == IInv /\ CsTypeOK /\ AllMine

LEMMA MineIsOwned == AllMine => ResultOwned
BY DEF AllMine, Mine, ResultOwned

\* A step about call c leaves the others alone.
LEMMA Elsewhere ==
  ASSUME AllMine, NEW c \in Callers, Mine(c)',
         \A d \in Callers \ {c} : mine(d)' = mine(d)
  PROVE  AllMine'
BY DEF AllMine, Mine, mine, InCall, At

\* Threads in calls and references keep the results owned.
LEMMA CallMine == ASSUME OInv, NEW c \in Callers, Begin(c) \/ CallStep(c) PROVE AllMine'
<1>1. /\ call \in [Callers -> Calls] /\ result \in [Callers -> Results]
      /\ CsTypeOK /\ IInv /\ AllMine /\ Mine(c)
  BY DEF OInv, IInv, TypeOK, AllMine
<1>2. call[c] = NoCall => result[c] = NoResult
  BY <1>1 DEF IInv, Matched, NoCall
<1> USE DEF At, Goto, NoFrame, NoRef
<1>3. CASE Begin(c) \/ ReadHandle(c) \/ SetInvalid(c)
  <2>1. /\ UNCHANGED <<call, result, ref, inside, reading>>
        /\ \E f : f.at # "native" /\ frame' = [frame EXCEPT ![c] = f]
        /\ ref[c] = NoRef /\ ~At(c, "native")
    BY <1>1, <1>3 DEF Begin, ReadHandle, SetInvalid, refVars, vars, apiVars, Mine
  <2>2. \A d \in Callers \ {c} : mine(d)' = mine(d)
    BY <1>1, <2>1 DEF mine, CsTypeOK
  <2>3. Mine(c)'
    BY <1>1, <2>1 DEF Mine, InCall, CsTypeOK
  <2>4. QED
    BY <1>1, <2>2, <2>3, Elsewhere
<1>4. CASE CallGet(c) \/ CallSet(c)
  <2>1. /\ At(c, "calling") /\ InNative(c) /\ UNCHANGED <<ref, inside, reading>>
        /\ call[c] = NoCall
        /\ \E x \in Calls \ {NoCall} :
              /\ call' = [call EXCEPT ![c] = x]
              /\ \/ UNCHANGED result
                 \/ x.op = "get" /\ \E r \in Results \ {NoResult} : result' = [result EXCEPT ![c] = r]
    <3>1. \A k \in Keys \cup {BadKey} : Get(k) \in Calls \ {NoCall} /\ Get(k).op = "get"
      BY DEF Get, Calls, NoCall
    <3>2. Error("InvalidInput") \in Results \ {NoResult}
      BY DEF Error, Results, NoResult, Codes
    <3>3. \A a \in Arcs : Success(a) \in Results \ {NoResult}
      BY DEF Success, Results, NoResult, Codes
    <3>4. ASSUME NEW k \in Keys \cup {BadKey}, GetInvalid(c, k)
          PROVE  /\ call[c] = NoCall
                 /\ call' = [call EXCEPT ![c] = Get(k)]
                 /\ result' = [result EXCEPT ![c] = Error("InvalidInput")]
      BY <1>1, <3>4, CallEffects
    <3>5. ASSUME GetOrSet(c)
          PROVE  /\ call[c] = NoCall
                 /\ \E x \in Calls \ {NoCall} :
                       /\ call' = [call EXCEPT ![c] = x]
                       /\ \/ UNCHANGED result
                          \/ x.op = "get" /\ \E a \in Arcs : result' = [result EXCEPT ![c] = Success(a)]
      <4>1. \A k \in Keys, v \in Values : Set(k, v) \in Calls \ {NoCall}
        BY DEF Set, Calls, NoCall
      <4>2. ASSUME NEW k \in Keys, Hit(c, k) PROVE entry[k] \in Arcs
        BY <1>1, <4>2 DEF Hit, IInv, TypeOK, CacheTypeOK
      <4>3. QED
        BY <3>1, <3>5, <4>1, <4>2 DEF GetOrSet, Hit, Miss, BeginSet, Enter, Finish
    <3>6. At(c, "calling") /\ InNative(c) /\ UNCHANGED <<ref, inside, reading>>
      BY <1>4 DEF CallGet, CallSet, refVars
    <3>7. CASE \E k \in Keys \cup {BadKey} : GetInvalid(c, k)
      BY <3>1, <3>2, <3>4, <3>6, <3>7
    <3>8. CASE GetOrSet(c)
      BY <3>3, <3>5, <3>6, <3>8
    <3>9. QED
      BY <1>4, <3>7, <3>8 DEF CallGet, CallSet
  <2>2. ref[c] = NoRef /\ inside[c] = inside'[c] /\ ~(inside[c] > 0) /\ reading[c] = NoArc
    BY <1>1, <2>1 DEF Mine
  <2>3. frame'[c].at = "native" /\ \A d \in Callers \ {c} : frame'[d] = frame[d]
    BY <1>1, <2>1 DEF InNative, CsTypeOK, Frames
  <2>4. \A d \in Callers \ {c} : mine(d)' = mine(d)
    BY <1>1, <2>1, <2>3 DEF mine
  <2>5. Mine(c)'
    BY <1>1, <1>2, <2>1, <2>2, <2>3 DEF Mine, InCall
  <2>6. QED
    BY <1>1, <2>4, <2>5, Elsewhere
<1>5. CASE CallDangling(c)
  BY <1>1, <1>5 DEF CallDangling, Crash, vars, apiVars, refVars, AllMine, Mine, InCall
<1>6. CASE InSdk(c)
  <2>1. UNCHANGED <<frame, ref, inside, reading>>
    BY <1>6 DEF InSdk, refVars
  <2>2. CASE Ask(c)
    BY <1>1, <2>1, <2>2, RunEffects DEF AllMine, Mine, InCall
  <2>3. CASE Resume(c) /\ call[c].op = "get"
    <3>1. /\ InCall(c) /\ UNCHANGED call
          /\ \E r \in Results \ {NoResult} : result' = [result EXCEPT ![c] = r]
      BY <1>1, <2>3, RunEffects
    <3>2. \A d \in Callers \ {c} : mine(d)' = mine(d)
      BY <1>1, <2>1, <3>1 DEF mine
    <3>3. Mine(c)'
      BY <1>1, <2>1, <2>3, <3>1 DEF Mine, InCall
    <3>4. QED
      BY <1>1, <3>2, <3>3, Elsewhere
  <2>4. QED
    BY <1>6, <2>2, <2>3 DEF InSdk
<1>7. CASE SetReturns(c)
  <2>1. /\ InCall(c) /\ UNCHANGED <<result, ref, inside, reading>>
        /\ call' = [call EXCEPT ![c] = NoCall]
        /\ frame' = [frame EXCEPT ![c] = NoFrame]
    BY <1>1, <1>7, RunEffects DEF SetReturns, refVars
  <2>2. \A d \in Callers \ {c} : mine(d)' = mine(d)
    BY <1>1, <2>1 DEF mine, CsTypeOK
  <2>3. Mine(c)'
    BY <1>1, <2>1 DEF Mine, InCall, CsTypeOK
  <2>4. QED
    BY <1>1, <2>2, <2>3, Elsewhere
<1>8. CASE GetRefReturns(c)
  <2>1. /\ At(c, "native") /\ result[c] # NoResult
        /\ UNCHANGED <<call, result, inside, reading>>
        /\ ref' = [ref EXCEPT ![c] = [state |-> "open", client |-> handle]]
        /\ frame' = [frame EXCEPT ![c] = NoFrame]
    BY <1>8 DEF GetRefReturns, Returned, vars, apiVars
  <2>2. \A d \in Callers \ {c} : mine(d)' = mine(d)
    BY <1>1, <2>1 DEF mine, CsTypeOK
  <2>3. Mine(c)'
    BY <1>1, <2>1 DEF Mine, InCall, CsTypeOK
  <2>4. QED
    BY <1>1, <2>2, <2>3, Elsewhere
<1>9. CASE GetReturns(c)
  <2>1. /\ At(c, "native") /\ result[c] # NoResult /\ UNCHANGED <<inside, reading>>
        /\ frame' = [frame EXCEPT ![c] = NoFrame]
    BY <1>9 DEF GetReturns, Returned
  <2>2. ref[c] = NoRef /\ ~(inside[c] > 0) /\ reading[c] = NoArc
    BY <1>1, <2>1 DEF Mine
  <2>3. CASE HandBack(c) /\ UNCHANGED ref
    <3>1. /\ call' = [call EXCEPT ![c] = NoCall]
          /\ result' = [result EXCEPT ![c] = NoResult]
      BY <1>1, <2>3, CallEffects
    <3>2. \A d \in Callers \ {c} : mine(d)' = mine(d)
      BY <1>1, <2>1, <2>3, <3>1 DEF mine, CsTypeOK
    <3>3. Mine(c)'
      BY <1>1, <2>1, <2>2, <2>3, <3>1 DEF Mine, InCall, CsTypeOK
    <3>4. QED
      BY <1>1, <3>2, <3>3, Elsewhere
  <2>4. CASE /\ ref' = [ref EXCEPT ![c] = [state |-> "disposed", client |-> "null"]]
             /\ UNCHANGED vars
    <3>1. UNCHANGED <<call, result>>
      BY <2>4 DEF vars, apiVars
    <3>2. \A d \in Callers \ {c} : mine(d)' = mine(d)
      BY <1>1, <2>1, <2>4, <3>1 DEF mine, CsTypeOK
    <3>3. Mine(c)'
      BY <1>1, <2>1, <2>2, <2>4, <3>1 DEF Mine, InCall, CsTypeOK
    <3>4. QED
      BY <1>1, <3>2, <3>3, Elsewhere
  <2>5. QED
    BY <1>9, <2>3, <2>4 DEF GetReturns
<1>10. QED
  BY <1>3, <1>4, <1>5, <1>6, <1>7, <1>8, <1>9, Begin(c) \/ CallStep(c) DEF CallStep

LEMMA RefMine == ASSUME OInv, NEW c \in Callers, RefStep(c) PROVE AllMine'
<1>1. /\ call \in [Callers -> Calls] /\ result \in [Callers -> Results]
      /\ CsTypeOK /\ IInv /\ AllMine /\ Mine(c)
  BY DEF OInv, IInv, TypeOK, AllMine
<1> USE DEF At, NoFrame, NoRef
<1>2. CASE EnterDispose(c)
  <2>1. /\ UNCHANGED <<call, result, frame, ref, reading>> /\ ref[c].state = "open"
        /\ inside' = [inside EXCEPT ![c] = inside[c] + 1]
    BY <1>2 DEF EnterDispose, vars, apiVars
  <2>2. \A d \in Callers \ {c} : mine(d)' = mine(d)
    BY <1>1, <2>1 DEF mine, CsTypeOK
  <2>3. Mine(c)'
    BY <1>1, <2>1 DEF Mine, InCall
  <2>4. QED
    BY <1>1, <2>2, <2>3, Elsewhere
<1>3. CASE ReleaseRef(c)
  <2>1. /\ inside[c] > 0 /\ inside' = [inside EXCEPT ![c] = inside[c] - 1]
        /\ ref' = [ref EXCEPT ![c] = IF NoUser(c) THEN NoRef ELSE [ref[c] EXCEPT !.state = "disposed"]]
        /\ UNCHANGED <<frame, reading>>
    BY <1>3 DEF ReleaseRef
  <2>2. inside'[c] = 0 => ~(inside'[c] > 0)
    OBVIOUS
  <2>4. ref[c].state \in {"open", "disposed"} /\ ref[c] # NoRef /\ frame[c] = NoFrame
    BY <1>1, <2>1 DEF Mine
  <2>5. ref[c].client \in {"null", "open"}
    BY <1>1, <2>4 DEF CsTypeOK, RefStates
  <2>6. /\ [ref[c] EXCEPT !.state = "disposed"].state = "disposed"
        /\ [ref[c] EXCEPT !.state = "disposed"].client = ref[c].client
    BY <1>1, <2>4 DEF CsTypeOK, RefStates
  <2>7. \/ /\ inside'[c] = 0 /\ reading'[c] = NoArc /\ result'[c] = NoResult
           /\ ref'[c] = NoRef
        \/ ref'[c].state = "disposed" /\ ref'[c].client = ref[c].client
    <3> DEFINE open == [ref[c] EXCEPT !.state = "disposed"]
    <3>1. ref'[c] = IF NoUser(c) THEN NoRef ELSE open
      BY <1>1, <2>1 DEF CsTypeOK
    <3>2. QED
      BY <2>6, <3>1 DEF NoUser
  <2>8. CASE HandBack(c) /\ ref[c].client = "open"
    <3>1. /\ call' = [call EXCEPT ![c] = NoCall]
          /\ result' = [result EXCEPT ![c] = NoResult]
      BY <1>1, <2>8, CallEffects
    <3>2. \A d \in Callers \ {c} : mine(d)' = mine(d)
      BY <1>1, <2>1, <3>1 DEF mine, CsTypeOK
    <3>3. Mine(c)'
      <4>1. call'[c] = NoCall /\ result'[c] = NoResult /\ frame'[c] = NoFrame
        BY <1>1, <2>1, <2>4, <3>1
      <4>2. QED
        BY <2>1, <2>2, <2>7, <2>8, <4>1 DEF Mine, InCall
    <3>4. QED
      BY <1>1, <3>2, <3>3, Elsewhere
  <2>9. CASE UNCHANGED vars /\ ~(ref[c].client = "open" /\ result[c] # NoResult)
    <3>1. UNCHANGED <<call, result>>
      BY <2>9 DEF vars, apiVars
    <3>2. \A d \in Callers \ {c} : mine(d)' = mine(d)
      BY <1>1, <2>1, <3>1 DEF mine, CsTypeOK
    <3>3. Mine(c)'
      <4>1. call'[c] = call[c] /\ result'[c] = result[c] /\ frame'[c] = NoFrame
        BY <2>1, <2>4, <3>1
      <4>2. result[c] # NoResult => ref[c].client = "null"
        BY <2>5, <2>9
      <4>3. result[c] = NoResult => ref[c].client = "open"
        BY <1>1, <2>4, <2>5 DEF Mine
      <4>4. ~InCall(c)
        BY <1>1, <2>4 DEF Mine
      <4>5. ~InCall(c)'
        BY <4>1, <4>4 DEF InCall
      <4>6. QED
        BY <2>1, <2>2, <2>7, <4>1, <4>2, <4>3, <4>5 DEF Mine
    <3>4. QED
      BY <1>1, <3>2, <3>3, Elsewhere
  <2>10. QED
    BY <1>3, <2>8, <2>9 DEF ReleaseRef
<1>4. CASE ReleaseTwice(c)
  BY <1>1, <1>4 DEF ReleaseTwice, Crash, vars, apiVars, refVars, AllMine, Mine, InCall
<1>5. CASE ForgetRef(c)
  <2>1. /\ UNCHANGED <<call, result, frame, inside, reading>>
        /\ ref[c].state = "open" /\ ~(inside[c] > 0) /\ reading[c] = NoArc
        /\ ref' = [ref EXCEPT ![c] = [ref[c] EXCEPT !.state = "forgotten"]]
    BY <1>5 DEF ForgetRef, vars, apiVars
  <2>2. [ref[c] EXCEPT !.state = "forgotten"].state = "forgotten"
    BY <1>1, <2>1 DEF CsTypeOK, RefStates
  <2>3. \A d \in Callers \ {c} : mine(d)' = mine(d)
    BY <1>1, <2>1 DEF mine, CsTypeOK
  <2>4. Mine(c)'
    BY <1>1, <2>1, <2>2 DEF Mine, InCall, CsTypeOK
  <2>5. QED
    BY <1>1, <2>3, <2>4, Elsewhere
<1>6. CASE BeginRead(c)
  <2>1. /\ UNCHANGED <<call, result, frame, ref, inside>> /\ ref[c].state = "open"
        /\ \A d \in Callers \ {c} : reading'[d] = reading[d]
    BY <1>1, <1>6 DEF BeginRead, CsTypeOK, vars, apiVars
  <2>2. \A d \in Callers \ {c} : mine(d)' = mine(d)
    BY <2>1 DEF mine
  <2>3. Mine(c)'
    BY <1>1, <2>1 DEF Mine, InCall
  <2>4. QED
    BY <1>1, <2>2, <2>3, Elsewhere
<1>7. CASE EndRead(c)
  <2>1. /\ UNCHANGED <<call, result, frame, inside>> /\ reading[c] # NoArc
        /\ reading' = [reading EXCEPT ![c] = NoArc]
        /\ ref' = [ref EXCEPT ![c] = IF NoUser(c) THEN NoRef ELSE ref[c]]
    BY <1>7 DEF EndRead, vars, apiVars
  <2>2. \A d \in Callers \ {c} : mine(d)' = mine(d)
    BY <1>1, <2>1 DEF mine, CsTypeOK
  <2>3. /\ reading'[c] = NoArc
        /\ \/ ref'[c] = ref[c]
           \/ ref'[c] = NoRef /\ inside'[c] = 0 /\ result'[c] = NoResult
    BY <1>1, <2>1 DEF CsTypeOK, NoUser
  <2>4. ref[c].state \in {"open", "disposed"} /\ ref[c] # NoRef /\ frame[c] = NoFrame
    BY <1>1, <2>1 DEF Mine
  <2>5. Mine(c)'
    BY <1>1, <2>1, <2>3, <2>4 DEF Mine, InCall
  <2>6. QED
    BY <1>1, <2>2, <2>5, Elsewhere
<1>8. CASE ReadFreed(c)
  BY <1>1, <1>8 DEF ReadFreed, Crash, vars, apiVars, refVars, AllMine, Mine, InCall
<1>9. QED
  BY <1>2, <1>3, <1>4, <1>5, <1>6, <1>7, <1>8, RefStep(c) DEF RefStep

LEMMA MineStep == OInv /\ [CsNext]_csVars => AllMine'
<1> SUFFICES ASSUME OInv, [CsNext]_csVars PROVE AllMine'
  OBVIOUS
<1>1. ASSUME UNCHANGED <<call, result, frame, ref, inside, reading>> PROVE AllMine'
  BY <1>1 DEF OInv, AllMine, Mine, InCall, At
<1>2. CASE ClientStep
  BY <1>1, <1>2 DEF ClientStep, Construct, BeginClear, ClearReadsHandle, ClearCalls, ClearDangling,
              BeginDispose, DestroyNative, DestroyInUse,
                    EndDispose, Open, CacheClear, Destroy, Crash, vars, apiVars, refVars
<1>3. CASE (Network \/ Moka) /\ UNCHANGED <<dispVars, frame, refVars, raced, crashed>>
  BY <1>1, <1>3 DEF Network, Moka, refVars
<1>4. CASE UNCHANGED csVars
  BY <1>1, <1>4 DEF csVars, vars, apiVars, refVars
<1>5. QED
  BY <1>2, <1>3, <1>4, CallMine, RefMine DEF CsNext

\* A crash, a reference without a client and a span of a released text need a
\* Dispose under a call, or one of a reference that somebody else uses.
LEMMA RaceStep ==
  ASSUME OInv, RaceNoted, SafeUnlessRaced, [CsNext]_csVars
  PROVE  RaceNoted' /\ SafeUnlessRaced'
<1>1. CsTypeOK /\ IInv /\ AllMine /\ result \in [Callers -> Results]
  BY DEF OInv, IInv, TypeOK
<1>2. ASSUME NEW c \in Callers, frame[c] # NoFrame, disposed PROVE raced
  BY <1>2 DEF RaceNoted
<1>3. /\ crashed => raced
      /\ \A c \in Callers : Lost(c) \/ Astray(c) => raced
  BY DEF SafeUnlessRaced
<1> USE DEF RaceNoted, NoFrame, At
<1>4. ASSUME raced => raced', crashed' => raced',
             \A c \in Callers : Lost(c)' => Lost(c) \/ raced',
             \A c \in Callers : Astray(c)' => Astray(c) \/ raced'
      PROVE  SafeUnlessRaced'
  BY <1>3, <1>4 DEF SafeUnlessRaced
<1>5. CASE ClientStep
  <2>1. UNCHANGED <<result, frame, ref, inside, reading>>
    BY <1>5 DEF ClientStep, Construct, BeginClear, ClearReadsHandle, ClearCalls, ClearDangling,
              BeginDispose, DestroyNative, DestroyInUse,
                EndDispose, Open, CacheClear, Destroy, Crash, vars, apiVars, refVars
  <2>2. \A c \in Callers : (Lost(c)' => Lost(c)) /\ (Astray(c)' => Astray(c))
    BY <2>1 DEF Lost, Astray
  <2>3. CASE Construct \/ BeginClear \/ ClearReadsHandle \/ ClearCalls
    <3>1. RaceNoted'
      BY <1>1, <2>1, <2>3
      DEF Construct, BeginClear, ClearReadsHandle, ClearCalls, Open, CacheClear, CsTypeOK, vars
    <3>2. UNCHANGED <<raced, crashed>>
      BY <2>3 DEF Construct, BeginClear, ClearReadsHandle, ClearCalls
    <3>3. QED
      BY <1>3, <1>4, <2>2, <3>1, <3>2
  <2>4. CASE BeginDispose
    <3>1. /\ client = "open" /\ disposed' = TRUE /\ UNCHANGED <<client, handle, clearing, crashed>>
          /\ raced => raced'
          /\ CallUnderWay => raced'
      BY <2>4 DEF BeginDispose, vars
    <3>2. RaceNoted'
      BY <2>1, <3>1 DEF CallUnderWay
    <3>3. QED
      BY <1>3, <1>4, <2>2, <3>1, <3>2
  <2>5. CASE DestroyNative \/ EndDispose
    <3>1. UNCHANGED <<raced, crashed>> /\ disposing # "no"
      BY <2>5 DEF DestroyNative, EndDispose
    <3>2. RaceNoted'
      BY <2>1, <2>5, <3>1 DEF DestroyNative, EndDispose, Destroy, vars
    <3>3. QED
      BY <1>3, <1>4, <2>2, <3>1, <3>2
  <2>6. CASE DestroyInUse
    <3>1. raced
      BY <1>1, <1>2, <2>6 DEF DestroyInUse, AllMine, Mine
    <3>2. raced' /\ RaceNoted'
      BY <2>6, <3>1 DEF DestroyInUse, Crash, vars, dispVars, refVars
    <3>3. QED
      BY <1>4, <2>2, <3>2
  <2>7. CASE ClearDangling
    <3>1. raced
      BY <2>7 DEF ClearDangling
    <3>2. raced' /\ RaceNoted'
      BY <2>7, <3>1 DEF ClearDangling, Crash, vars, dispVars, refVars
    <3>3. QED
      BY <1>4, <2>2, <3>2
  <2>8. QED
    BY <1>5, <2>3, <2>4, <2>5, <2>6, <2>7 DEF ClientStep
<1>6. ASSUME NEW c \in Callers, Begin(c) PROVE RaceNoted' /\ SafeUnlessRaced'
  <2>1. UNCHANGED <<client, dispVars, disposed, handle, disposing, clearing, result, ref, inside,
                    reading, raced, crashed>>
    BY <1>6 DEF Begin, vars, apiVars, dispVars, refVars
  <2>2. RaceNoted'
    BY <1>1, <1>6, <2>1 DEF Begin, Goto, CsTypeOK
  <2>3. \A d \in Callers : (Lost(d)' => Lost(d)) /\ (Astray(d)' => Astray(d))
    BY <2>1 DEF Lost, Astray
  <2>4. QED
    BY <1>3, <1>4, <2>1, <2>2, <2>3
<1>7. ASSUME NEW c \in Callers, CallStep(c), ~CallDangling(c)
      PROVE  RaceNoted' /\ SafeUnlessRaced'
  <2>1. /\ frame[c] # NoFrame \/ UNCHANGED frame
        /\ \A d \in Callers \ {c} : frame'[d] = frame[d]
        /\ UNCHANGED <<client, disposed, handle, disposing, clearing, inside, reading, raced, crashed>>
    <3>1. CASE ReadHandle(c) \/ SetInvalid(c) \/ GetRefReturns(c)
      BY <1>1, <3>1 DEF ReadHandle, SetInvalid, GetRefReturns, Returned, Goto, CsTypeOK, vars,
                        dispVars, refVars
    <3>2. CASE CallGet(c) \/ CallSet(c)
      BY <1>1, <3>2 DEF CallGet, CallSet, InNative, GetInvalid, GetOrSet, CsTypeOK, dispVars, refVars
    <3>3. CASE InSdk(c)
      BY <3>3 DEF InSdk, Ask, Resume, dispVars, refVars
    <3>4. CASE SetReturns(c)
      <4>1. frame[c] # NoFrame /\ UNCHANGED client
        BY <1>1, <3>4, RunEffects DEF SetReturns, AllMine, Mine
      <4>2. QED
        BY <1>1, <3>4, <4>1 DEF SetReturns, Goto, CsTypeOK, dispVars, refVars
    <3>5. CASE GetReturns(c)
      BY <1>1, <3>5 DEF GetReturns, Returned, Goto, HandBack, CsTypeOK, vars, dispVars
    <3>6. QED
      BY <1>7, <3>1, <3>2, <3>3, <3>4, <3>5 DEF CallStep
  <2>2. RaceNoted'
    BY <2>1
  <2>3. \A d \in Callers \ {c} : result'[d] = result[d] /\ ref'[d] = ref[d]
    <3>1. CASE ReadHandle(c) \/ SetInvalid(c) \/ GetRefReturns(c)
      BY <1>1, <3>1 DEF ReadHandle, SetInvalid, GetRefReturns, CsTypeOK, vars, apiVars, refVars
    <3>2. CASE CallGet(c) \/ CallSet(c)
      BY <1>1, <3>2, CallEffects DEF CallGet, CallSet, refVars
    <3>3. CASE InSdk(c) \/ SetReturns(c)
      BY <1>1, <3>3, RunEffects DEF InSdk, SetReturns, refVars
    <3>4. CASE GetReturns(c)
      BY <1>1, <3>4, CallEffects DEF GetReturns, CsTypeOK, vars, apiVars
    <3>5. QED
      BY <1>7, <3>1, <3>2, <3>3, <3>4 DEF CallStep
  <2>4. Lost(c)' => raced
    <3>1. CASE GetRefReturns(c) \/ GetReturns(c)
      <4>1. frame[c] # NoFrame
        BY <3>1 DEF GetRefReturns, GetReturns, Returned
      <4>2. handle # "open" => disposed
        BY <1>1, <4>1 DEF CsTypeOK
      <4>3. ref[c] = NoRef
        BY <1>1, <4>1 DEF AllMine, Mine
      <4>4. CASE GetRefReturns(c)
        <5>1. ref'[c].client = handle
          BY <1>1, <4>4 DEF GetRefReturns, CsTypeOK
        <5>2. handle # "null" \/ raced
          BY <1>2, <4>1, <4>2
        <5>3. QED
          BY <5>1, <5>2 DEF Lost
      <4>5. CASE GetReturns(c)
        <5>1. CASE handle = "open"
          BY <4>3, <4>5, <5>1 DEF GetReturns, Lost
        <5>2. CASE handle # "open"
          BY <1>2, <4>1, <4>2, <5>2
        <5>3. QED
          BY <5>1, <5>2
      <4>6. QED
        BY <3>1, <4>4, <4>5
    <3>2. CASE frame[c] # NoFrame /\ UNCHANGED ref
      BY <1>1, <3>2 DEF AllMine, Mine, Lost
    <3>3. CASE InSdk(c) \/ SetReturns(c)
      <4>1. UNCHANGED ref
        BY <3>3 DEF InSdk, SetReturns, refVars
      <4>2. CASE Ask(c)
        BY <1>1, <1>3, <4>1, <4>2, RunEffects DEF Lost
      <4>3. CASE Resume(c)
        <5>1. frame[c] # NoFrame
          BY <1>1, <4>3, RunEffects DEF AllMine, Mine
        <5>2. QED
          BY <3>2, <4>1, <5>1
      <4>4. QED
        BY <3>3, <4>2, <4>3 DEF InSdk, SetReturns
    <3>4. CASE ReadHandle(c) \/ SetInvalid(c) \/ CallGet(c) \/ CallSet(c)
      BY <3>2, <3>4 DEF ReadHandle, SetInvalid, CallGet, CallSet, refVars
    <3>5. QED
      BY <1>7, <3>1, <3>3, <3>4 DEF CallStep
  <2>5. \A d \in Callers : Lost(d)' => Lost(d) \/ raced'
    BY <2>1, <2>3, <2>4 DEF Lost
  <2>6. Astray(c)' => Astray(c) \/ raced'
    <3>1. frame[c] # NoFrame
      <4>1. InSdk(c) \/ SetReturns(c) => InCall(c)
        BY <1>1, RunEffects DEF InSdk, SetReturns, Ask, SendRequest
      <4>2. InCall(c) => frame[c] # NoFrame
        BY <1>1 DEF AllMine, Mine
      <4>3. CASE ~InSdk(c) /\ ~SetReturns(c)
        BY <1>7, <4>3 DEF CallStep, ReadHandle, CallGet, CallSet, SetInvalid,
                          GetRefReturns, GetReturns, Returned
      <4>4. QED
        BY <4>1, <4>2, <4>3
    <3>2. ref[c].state \notin {"open", "disposed"} \/ ref[c] # NoRef
      BY DEF NoRef
    <3>3. reading[c] = NoArc
      BY <1>1, <3>1, <3>2 DEF AllMine, Mine
    <3>4. QED
      BY <2>1, <3>3 DEF Astray
  <2>7. \A d \in Callers : Astray(d)' => Astray(d) \/ raced'
    BY <2>1, <2>3, <2>6 DEF Astray
  <2>8. QED
    BY <1>3, <1>4, <2>1, <2>2, <2>5, <2>7
<1>8. ASSUME NEW c \in Callers, CallDangling(c) PROVE RaceNoted' /\ SafeUnlessRaced'
  <2>1. raced
    BY <1>2, <1>8 DEF CallDangling
  <2>2. raced' /\ RaceNoted'
    BY <1>8, <2>1 DEF CallDangling, Crash, vars, dispVars, refVars
  <2>3. UNCHANGED <<result, ref, reading>>
    BY <1>8 DEF CallDangling, Crash, vars, apiVars, refVars
  <2>4. QED
    BY <1>4, <2>2, <2>3 DEF Lost, Astray
<1>9. ASSUME NEW c \in Callers, RefStep(c) PROVE RaceNoted' /\ SafeUnlessRaced'
  <2>1. UNCHANGED <<client, disposed, handle, disposing, clearing, frame>>
    BY <1>9 DEF RefStep, EnterDispose, ReleaseRef, ReleaseTwice, BeginRead, EndRead, ReadFreed,
                ForgetRef, HandBack, Crash, vars, dispVars
  <2>2. CASE EnterDispose(c)
    <3>1. /\ UNCHANGED <<result, ref, reading, crashed>>
          /\ inside' = [inside EXCEPT ![c] = inside[c] + 1]
          /\ raced => raced'
          /\ inside[c] > 0 \/ reading[c] # NoArc => raced'
      BY <2>2 DEF EnterDispose, vars, apiVars
    <3>2. \A d \in Callers : inside'[d] > 1 \/ (inside'[d] > 0 /\ reading'[d] # NoArc) => raced'
      BY <1>1, <3>1 DEF CsTypeOK, MaxInside
    <3>3. RaceNoted'
      BY <2>1, <3>1, <3>2
    <3>4. \A d \in Callers : (Lost(d)' => Lost(d)) /\ (Astray(d)' => Astray(d))
      BY <3>1 DEF Lost, Astray
    <3>5. QED
      BY <1>3, <1>4, <3>1, <3>3, <3>4
  <2>3. CASE ReleaseRef(c)
    <3>1. /\ UNCHANGED <<raced, crashed, reading>> /\ inside' = [inside EXCEPT ![c] = inside[c] - 1]
          /\ inside[c] > 0
          /\ ref' = [ref EXCEPT ![c] = IF NoUser(c) THEN NoRef ELSE [ref[c] EXCEPT !.state = "disposed"]]
      BY <2>3 DEF ReleaseRef
    <3>2. \A d \in Callers : inside'[d] > 1 \/ (inside'[d] > 0 /\ reading'[d] # NoArc) => raced'
      BY <1>1, <3>1 DEF CsTypeOK, MaxInside
    <3>3. RaceNoted'
      BY <2>1, <3>1, <3>2
    <3>4. \A d \in Callers \ {c} : result'[d] = result[d] /\ ref'[d] = ref[d]
      BY <1>1, <2>3, <3>1, CallEffects DEF ReleaseRef, CsTypeOK, vars, apiVars
    <3>5. Lost(c)' => Lost(c)
      <4>1. ref[c] # NoRef /\ [ref[c] EXCEPT !.state = "disposed"].client = ref[c].client
        BY <1>1, <3>1 DEF CsTypeOK, RefStates, NoRef, AllMine, Mine
      <4>2. Lost(c)' => ref[c].client = "null"
        <5> DEFINE open == [ref[c] EXCEPT !.state = "disposed"]
        <5>1. ref'[c] = IF NoUser(c) THEN NoRef ELSE open
          BY <1>1, <3>1 DEF CsTypeOK
        <5>2. QED
          BY <4>1, <5>1 DEF Lost
      <4>3. ref[c].client = "null" => UNCHANGED result
        BY <2>3 DEF ReleaseRef, vars, apiVars
      <4>4. QED
        BY <4>1, <4>2, <4>3 DEF Lost
    <3>6. \A d \in Callers : Lost(d)' => Lost(d)
      BY <3>4, <3>5 DEF Lost
    <3>7. \A d \in Callers : Astray(d)' => Astray(d) \/ raced'
      BY <3>1, <3>4 DEF Astray
    <3>8. QED
      BY <1>3, <1>4, <3>1, <3>3, <3>6, <3>7
  <2>4. CASE ReleaseTwice(c)
    <3>1. raced
      BY <2>4 DEF ReleaseTwice
    <3>2. raced' /\ RaceNoted'
      BY <2>4, <3>1 DEF ReleaseTwice, Crash, vars, dispVars, refVars
    <3>3. UNCHANGED <<result, ref, reading>>
      BY <2>4 DEF ReleaseTwice, Crash, vars, apiVars, refVars
    <3>4. QED
      BY <1>4, <3>2, <3>3 DEF Lost, Astray
  <2>5. CASE ForgetRef(c)
    <3>1. /\ UNCHANGED <<result, raced, crashed, inside, reading>>
          /\ ref[c].state = "open"
          /\ ref' = [ref EXCEPT ![c] = [ref[c] EXCEPT !.state = "forgotten"]]
      BY <2>5 DEF ForgetRef, vars, apiVars
    <3>2. ref[c] # NoRef /\ [ref[c] EXCEPT !.state = "forgotten"].client = ref[c].client
      BY <1>1, <3>1 DEF CsTypeOK, RefStates, NoRef
    <3>3. \A d \in Callers : Lost(d)' => Lost(d)
      BY <1>1, <3>1, <3>2 DEF Lost, CsTypeOK
    <3>4. RaceNoted'
      BY <2>1, <3>1
    <3>5. \A d \in Callers : Astray(d)' => Astray(d)
      BY <3>1 DEF Astray
    <3>6. QED
      BY <1>3, <1>4, <3>1, <3>3, <3>4, <3>5
  <2>6. CASE BeginRead(c)
    <3>1. /\ UNCHANGED <<result, ref, inside, crashed>>
          /\ reading' = [reading EXCEPT ![c] = result[c].arc]
          /\ raced => raced'
          /\ inside[c] > 0 => raced'
      BY <2>6 DEF BeginRead, vars, apiVars
    <3>2. /\ reading'[c] = result'[c].arc
          /\ \A d \in Callers \ {c} : reading'[d] = reading[d]
      BY <1>1, <3>1 DEF CsTypeOK
    <3>3. RaceNoted'
      BY <2>1, <3>1, <3>2
    <3>4. \A d \in Callers : (Lost(d)' => Lost(d)) /\ (Astray(d)' => Astray(d))
      BY <3>1, <3>2 DEF Lost, Astray
    <3>5. QED
      BY <1>3, <1>4, <3>1, <3>3, <3>4
  <2>7. CASE EndRead(c)
    <3>1. /\ UNCHANGED <<result, inside, raced, crashed>>
          /\ reading' = [reading EXCEPT ![c] = NoArc]
          /\ ref' = [ref EXCEPT ![c] = IF NoUser(c) THEN NoRef ELSE ref[c]]
      BY <2>7 DEF EndRead, vars, apiVars
    <3>2. /\ reading'[c] = NoArc
          /\ \A d \in Callers \ {c} : reading'[d] = reading[d]
          /\ \A d \in Callers : ref'[d] \in {NoRef, ref[d]}
      BY <1>1, <3>1 DEF CsTypeOK
    <3>3. RaceNoted'
      BY <2>1, <3>1, <3>2
    <3>4. \A d \in Callers : (Lost(d)' => Lost(d)) /\ (Astray(d)' => Astray(d))
      BY <3>1, <3>2 DEF Lost, Astray
    <3>5. QED
      BY <1>3, <1>4, <3>1, <3>3, <3>4
  <2>8. CASE ReadFreed(c)
    <3>1. reading[c] \in Arcs /\ strong[reading[c]] = 0
      BY <1>1, <2>8 DEF ReadFreed, CsTypeOK
    <3>2. result[c].arc # reading[c]
      BY <1>1, <3>1, FreeBlock
    <3>3. raced
      BY <1>3, <2>8, <3>2 DEF ReadFreed, Astray
    <3>4. raced' /\ RaceNoted'
      BY <2>8, <3>3 DEF ReadFreed, Crash, vars, dispVars, refVars
    <3>5. UNCHANGED <<result, ref, reading>>
      BY <2>8 DEF ReadFreed, Crash, vars, apiVars, refVars
    <3>6. QED
      BY <1>4, <3>4, <3>5 DEF Lost, Astray
  <2>9. QED
    BY <1>9, <2>2, <2>3, <2>4, <2>5, <2>6, <2>7, <2>8 DEF RefStep
<1>10. ASSUME UNCHANGED <<client, result, dispVars, frame, refVars, raced, crashed>>
       PROVE  RaceNoted' /\ SafeUnlessRaced'
  BY <1>10 DEF dispVars, refVars, SafeUnlessRaced, Lost, Astray
<1>11. CASE (Network \/ Moka) /\ UNCHANGED <<dispVars, frame, refVars, raced, crashed>>
  BY <1>10, <1>11 DEF Network, Moka
<1>12. CASE UNCHANGED csVars
  BY <1>10, <1>12 DEF csVars, vars, apiVars
<1>13. QED
  BY <1>5, <1>6, <1>7, <1>8, <1>9, <1>11, <1>12 DEF CsNext

\* What holds in every state of the binding.
LEMMA CsInvariance == CsSpec => [](OInv /\ RaceNoted /\ SafeUnlessRaced)
<1>1. CsInit => CsTypeOK /\ AllMine /\ RaceNoted /\ SafeUnlessRaced
  <2> SUFFICES ASSUME CsInit PROVE CsTypeOK /\ AllMine /\ RaceNoted /\ SafeUnlessRaced
    OBVIOUS
  <2>1. CsTypeOK
    <3>1. /\ frame \in [Callers -> Frames] /\ ref \in [Callers -> RefStates]
          /\ inside \in [Callers -> 0 .. MaxInside]
          /\ reading \in [Callers -> Arcs \cup {NoArc}]
      BY DEF CsInit, Frames, RefStates, MaxInside
    <3>2. /\ handle \in {"null", "open"} /\ disposing \in {"no", "destroying", "zeroing"}
          /\ clearing \in {"no", "entered", "null", "open"}
          /\ disposed \in BOOLEAN /\ raced \in BOOLEAN /\ crashed \in BOOLEAN
      BY DEF CsInit
    <3>3. QED
      BY <3>1, <3>2 DEF CsTypeOK
  <2>2. \A c \in Callers :
          /\ call[c] = NoCall /\ result[c] = NoResult
          /\ frame[c] = NoFrame /\ ref[c] = NoRef /\ inside[c] = 0 /\ reading[c] = NoArc
    BY DEF CsInit, Init, ApiInit
  <2>3. AllMine
    BY <2>2 DEF AllMine, Mine, InCall, At, NoRef, NoFrame
  <2>4. RaceNoted /\ SafeUnlessRaced
    BY <2>2 DEF CsInit, Init, RaceNoted, SafeUnlessRaced, Lost, Astray
  <2>5. QED
    BY <2>1, <2>3, <2>4
<1>2. CsSpec => []IInv
  BY CsKeepsSync, SyncKeepsApi, Invariance, PTL
<1>3. OInv <=> IInv /\ CsTypeOK /\ AllMine
  BY DEF OInv
<1>4. OInv /\ [CsNext]_csVars => CsTypeOK'
  BY CsTypeStep, MineIsOwned DEF OInv, IInv
<1>5. QED
  BY <1>1, <1>2, <1>3, <1>4, MineStep, RaceStep, PTL DEF CsSpec

\* A host that disposes neither the client under a call, nor a ValueRef in two
\* threads at once, nor one that a thread is reading, never uses freed memory,
\* never reads a released text and never loses a result.
THEOREM CsSafe == CsSpec => []SafeUnlessRaced
BY CsInvariance, PTL

\* Every result has one owner.
THEOREM CsResultOwned == CsSpec => []ResultOwned
<1>1. OInv => ResultOwned
  BY MineIsOwned DEF OInv
<1>2. QED
  BY <1>1, CsInvariance, PTL

\* The text of a ValueRef stays until its release.
THEOREM CsLoans == CsSpec => LoansKept
BY CsKeepsSync, SyncLoans, PTL

\* Coherent, and current but for the races.
THEOREM CsCoherent == CsSpec /\ Watched => []Coherent /\ GetsCurrent
BY CsKeepsSync, SyncCoherent, PTL

\* What a disposed client leaves, in whatever order threads disposed it and
\* its references, are lost results and the texts of forgotten references.
THEOREM CsForgotten == CsSpec => []OnlyForgottenLeak
<1>1. OInv /\ Closed => OnlyForgottenLeak
  <2> DEFINE kept(c) == ref[c].state = "forgotten" \/ Lost(c)
  <2> SUFFICES ASSUME OInv, Closed, client = "destroyed",
                      \A c \in Callers : frame[c] = NoFrame /\ ref[c].state # "open",
                      NEW a \in Arcs
               PROVE  strong[a] = Cardinality({c \in Holders(a) : kept(c)})
                                  + (IF a \in retired THEN 1 ELSE 0)
    BY DEF OnlyForgottenLeak
  <2>1. \A k \in Keys : entry[k] = NoArc
    BY DEF Closed
  <2>2. ASSUME NEW c \in Holders(a) PROVE kept(c)
    <3>1. c \in Callers /\ result[c].arc # NoArc /\ result[c] # NoResult
      BY <2>2, CacheAssumption DEF Holders, Holds, NoResult
    <3>2. ~At(c, "native")
      BY <3>1 DEF At, NoFrame
    <3>3. ref[c].state = "disposed" => ref[c] # NoRef
      BY DEF NoRef
    <3>4. QED
      BY <3>1, <3>2, <3>3, MineIsOwned DEF OInv, ResultOwned, Lost
  <2>3. Holders(a) = {c \in Holders(a) : kept(c)}
    BY <2>2
  <2>4. QED
    BY <2>1, <2>3, EmptyCache DEF OInv
<1>2. CsSpec => []Closed
  BY CsKeepsSync, SyncInvariance, PTL
<1>3. QED
  BY <1>1, <1>2, CsInvariance, PTL
=============================================================================
