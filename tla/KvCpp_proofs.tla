---------------------------- MODULE KvCpp_proofs ----------------------------
(***************************************************************************)
(* The synchronous C++ binding implements KvSync, and its objects own the  *)
(* client and every result exactly once.                                   *)
(***************************************************************************)
EXTENDS KvCpp, KvSync_proofs

\* The binding's own variables keep their types.
LEMMA CppTypeStep == CppTypeOK /\ [CppNext]_cppVars => CppTypeOK'
<1> SUFFICES ASSUME CppTypeOK, [CppNext]_cppVars PROVE CppTypeOK'
  OBVIOUS
<1> USE DEF CppTypeOK, Handles, NoFrame, In, NoRef, Empty, Owning
<1>1. CASE ClientStep
  BY <1>1 DEF ClientStep, Construct, Destruct, ClearCache, MoveConstruct, MoveAssign,
              Acquire, Vanish, Transfer, Exists, bindVars
<1>2. ASSUME NEW c \in Callers, CallStep(c) PROVE CppTypeOK'
  BY <1>2 DEF CallStep, CallGet, CallSet, SetInvalid, EnterFn, InSdk, SetReturns,
              GetRefReturns, GetReturns, Leave, bindVars
<1>3. CASE RefStep
  BY <1>3 DEF RefStep, DropRef, MoveRef, AssignRef
<1>4. CASE UNCHANGED bindVars
  BY <1>4 DEF bindVars
<1>5. QED
  BY <1>1, <1>2, <1>3, <1>4 DEF CppNext, cppVars

\* Whatever an object does, the C API sees a host that keeps its rules: no
\* client is destroyed in use, none is used without a handle.
LEMMA CppStep == CppTypeOK /\ [CppNext]_cppVars => [Next]_vars
<1> SUFFICES ASSUME CppTypeOK, CppNext PROVE Next \/ UNCHANGED vars
  BY DEF cppVars
<1>1. ASSUME NEW x \in Objs, DestroyHandle(x) PROVE Next \/ UNCHANGED vars
  BY <1>1 DEF DestroyHandle, Next
<1>2. CASE ClientStep
  BY <1>1, <1>2 DEF ClientStep, Construct, Destruct, ClearCache, MoveConstruct, MoveAssign, Next
<1>3. ASSUME NEW c \in Callers, HandBack(c) \/ GetOrSet(c) \/ Ask(c) \/ Resume(c)
      PROVE  Next
  BY <1>3 DEF Next, Thread
<1>4. ASSUME NEW c \in Callers, NEW k \in Keys \cup {BadKey}, GetInvalid(c, k)
      PROVE  Next
  BY <1>4 DEF Next, Thread
<1>5. ASSUME NEW c \in Callers, CallStep(c) PROVE Next \/ UNCHANGED vars
  <2>1. ASSUME NEW x \in Objs, NEW fn \in {"GetRef", "Get", "TryGet"}, CallGet(c, x, fn)
        PROVE  Next
    BY <1>3, <1>4, <2>1 DEF CallGet
  <2>2. ASSUME NEW x \in Objs, CallSet(c, x) \/ SetInvalid(c, x)
        PROVE  Next \/ UNCHANGED vars
    BY <1>3, <2>2 DEF CallSet, SetInvalid
  <2>3. CASE InSdk(c) \/ SetReturns(c) \/ GetReturns(c)
    BY <1>3, <2>3 DEF InSdk, SetReturns, GetReturns
  <2>4. ASSUME NEW o \in Refs, GetRefReturns(c, o) PROVE Next \/ UNCHANGED vars
    BY <1>3, <2>4 DEF GetRefReturns
  <2>5. QED
    BY <1>5, <2>1, <2>2, <2>3, <2>4 DEF CallStep
<1>6. CASE Network \/ Moka
  BY <1>6 DEF Next
<1>7. ASSUME NEW o \in Refs, ReleaseRef(o) PROVE Next \/ UNCHANGED vars
  BY <1>3, <1>7 DEF ReleaseRef, CppTypeOK, NoRef, Empty, Owning
<1>8. CASE RefStep
  BY <1>7, <1>8 DEF RefStep, DropRef, MoveRef, AssignRef
<1>9. QED
  BY <1>2, <1>5, <1>6, <1>8 DEF CppNext

\* The binding implements the synchronous API.
THEOREM CppKeepsSync == CppSpec => Spec
<1>1. CppInit => Init /\ CppTypeOK
  BY DEF CppInit, OwnerInit, CppTypeOK, Handles
<1>2. QED
  BY <1>1, CppTypeStep, CppStep, PTL DEF CppSpec, Spec

-----------------------------------------------------------------------------
(* Ownership *)

\* The inductive invariant.  That the client is open while a call runs rests
\* on the frames; that a result has its one owner rests on the shape of
\* calls and results that KvApi keeps.
OInv == IInv /\ CppTypeOK /\ ClientOwned /\ OneOwner

\* What the ownership of results says of a caller that can begin a call.
LEMMA IdleCaller ==
  ASSUME OInv, NEW c \in Callers, call[c] = NoCall
  PROVE  result[c] = NoResult /\ frame[c] = NoFrame /\ \A o \in Refs : ~Owns(o, c)
BY DEF OInv, IInv, Matched, OneOwner, NoCall

\* A step in the library, the network or the cache does not disturb who owns
\* what.
LEMMA QuietStep ==
  ASSUME OInv, UNCHANGED <<call, result, client, owner, ref, frame>>
  PROVE  ClientOwned' /\ OneOwner'
BY DEF OInv, ClientOwned, OneOwner, SoleHolder, Exists, InCall, Owns

\* Objects of KvStoreClient come, move and go.
LEMMA ClientStepOwned == OInv /\ ClientStep => ClientOwned' /\ OneOwner'
<1> SUFFICES ASSUME OInv, ClientStep PROVE ClientOwned' /\ OneOwner'
  OBVIOUS
<1>1. UNCHANGED <<call, result, ref, frame>>
  BY DEF ClientStep, Construct, Destruct, ClearCache, MoveConstruct, MoveAssign, DestroyHandle,
         Open, Destroy, CacheClear, vars, apiVars, bindVars
<1>2. OneOwner'
  BY <1>1 DEF OInv, OneOwner, Owns
<1>3. ClientOwned'
  <2> USE <1>1 DEF OInv, CppTypeOK, Handles, ClientOwned, SoleHolder, Exists, InCall
  <2>1. ASSUME NEW x \in Objs, Construct(x) PROVE ClientOwned'
    BY <2>1 DEF Construct, Acquire, Open
  <2>2. ASSUME NEW x \in Objs, Destruct(x) PROVE ClientOwned'
    BY <2>2 DEF Destruct, Vanish, Unused, DestroyHandle, Destroy, vars
  <2>3. ASSUME NEW x \in Objs, ClearCache(x) PROVE ClientOwned'
    BY <2>3 DEF ClearCache, CacheClear, bindVars
  <2>4. ASSUME NEW x \in Objs, NEW y \in Objs, MoveConstruct(x, y) PROVE ClientOwned'
    BY <2>4 DEF MoveConstruct, Transfer, Unused, vars
  <2>5. ASSUME NEW x \in Objs, NEW y \in Objs, MoveAssign(x, y) PROVE ClientOwned'
    BY <2>5 DEF MoveAssign, Transfer, Unused, DestroyHandle, Destroy, vars
  <2>6. QED
    BY <2>1, <2>2, <2>3, <2>4, <2>5 DEF ClientStep
<1>4. QED
  BY <1>2, <1>3

\* Objects of ValueRef move and go, and release what they own.
LEMMA RefStepOwned == OInv /\ RefStep => ClientOwned' /\ OneOwner'
<1> SUFFICES ASSUME OInv, RefStep PROVE ClientOwned' /\ OneOwner'
  OBVIOUS
<1>1. UNCHANGED <<owner, frame>>
  BY DEF RefStep, DropRef, MoveRef, AssignRef
<1>2. ASSUME NEW o \in Refs, ReleaseRef(o)
      PROVE  \/ /\ UNCHANGED <<call, result, client>>
                /\ \A c \in Callers : ~Owns(o, c)
             \/ \E c \in Callers :
                   /\ Owns(o, c) /\ UNCHANGED client
                   /\ call' = [call EXCEPT ![c] = NoCall]
                   /\ result' = [result EXCEPT ![c] = NoResult]
  <2>1. CASE ref[o].state = "owning"
    <3>1. PICK c \in Callers : ref[o] = Owning(c)
      BY <2>1 DEF OInv, CppTypeOK, NoRef, Empty
    <3>2. HandBack(c)
      BY <1>2, <2>1, <3>1 DEF ReleaseRef, Owning
    <3>3. IInv
      BY DEF OInv
    <3>4. QED
      BY <3>1, <3>2, <3>3, CallEffects DEF Owns
  <2>2. CASE ref[o].state # "owning"
    BY <1>2, <2>2 DEF ReleaseRef, Owns, Owning, vars, apiVars
  <2>3. QED
    BY <2>1, <2>2
<1>3. ASSUME NEW o \in Refs, DropRef(o) PROVE ClientOwned' /\ OneOwner'
  <2>1. ReleaseRef(o) /\ ref' = [ref EXCEPT ![o] = NoRef]
    BY <1>3 DEF DropRef
  <2>2. QED
    BY <1>1, <1>2, <2>1
    DEF OInv, IInv, TypeOK, CppTypeOK, ClientOwned, OneOwner, SoleHolder, Exists, InCall, Owns, Owning, NoRef
<1>4. ASSUME NEW o \in Refs, NEW p \in Refs, MoveRef(o, p) PROVE ClientOwned' /\ OneOwner'
  BY <1>1, <1>4
  DEF MoveRef, OInv, CppTypeOK, ClientOwned, OneOwner, SoleHolder, Exists, InCall, Owns, Owning,
      NoRef, Empty, vars, apiVars
<1>5. ASSUME NEW o \in Refs, NEW p \in Refs, AssignRef(o, p) PROVE ClientOwned' /\ OneOwner'
  <2>1. o # p /\ ReleaseRef(p) /\ ref' = [ref EXCEPT ![p] = ref[o], ![o] = Empty]
    BY <1>5 DEF AssignRef
  <2>2. QED
    BY <1>1, <1>2, <2>1
    DEF OInv, IInv, TypeOK, CppTypeOK, ClientOwned, OneOwner, SoleHolder, Exists, InCall, Owns, Owning, Empty
<1>6. QED
  BY <1>3, <1>4, <1>5 DEF RefStep

\* Calls begin, end, and hand their result on.
LEMMA CallStepOwned ==
  ASSUME OInv, NEW c \in Callers, CallStep(c)
  PROVE  ClientOwned' /\ OneOwner'
<1> USE DEF In, NoFrame, Leave
<1>1. IInv /\ call \in [Callers -> Calls] /\ result \in [Callers -> Results]
  BY DEF OInv, IInv, TypeOK
<1>2. ASSUME NEW x \in Objs, NEW fn \in {"GetRef", "Get", "TryGet", "Set"},
             Ready(c, x), EnterFn(c, fn, x), call[c] = NoCall, UNCHANGED client,
             NEW z \in Calls \ {NoCall}, call' = [call EXCEPT ![c] = z],
             \/ owner[x] = "handle" /\ UNCHANGED result
             \/ \E r \in Results \ {NoResult} : result' = [result EXCEPT ![c] = r]
      PROVE  ClientOwned' /\ OneOwner'
  <2>1. UNCHANGED <<owner, ref>> /\ frame' = [frame EXCEPT ![c] = In(fn, x)] /\ Exists(x)
    BY <1>2 DEF EnterFn, Ready
  <2>2. result[c] = NoResult /\ \A o \in Refs : ~Owns(o, c)
    BY <1>2, IdleCaller
  <2>3. ClientOwned'
    BY <1>1, <1>2, <2>1
    DEF OInv, CppTypeOK, ClientOwned, SoleHolder, Exists, InCall
  <2>4. OneOwner'
    BY <1>1, <1>2, <2>1, <2>2 DEF OInv, CppTypeOK, OneOwner, Owns
  <2>5. QED
    BY <2>3, <2>4
<1>3. ASSUME NEW x \in Objs, NEW fn \in {"GetRef", "Get", "TryGet"}, CallGet(c, x, fn)
      PROVE  ClientOwned' /\ OneOwner'
  <2>1. Ready(c, x) /\ EnterFn(c, fn, x)
    BY <1>3 DEF CallGet
  <2>2. ASSUME NEW k \in Keys \cup {BadKey}, GetInvalid(c, k) PROVE ClientOwned' /\ OneOwner'
    <3>1. Get(k) \in Calls \ {NoCall} /\ Error("InvalidInput") \in Results \ {NoResult}
      BY DEF Get, Error, Calls, NoCall, Results, NoResult, Codes
    <3>2. QED
      BY <1>1, <1>2, <2>1, <2>2, <3>1, CallEffects
  <2>3. CASE owner[x] # "null" /\ GetOrSet(c)
    <3>1. owner[x] = "handle"
      BY <2>1, <2>3 DEF Ready, Exists, OInv, CppTypeOK, Handles
    <3>2. \A a \in Arcs : Success(a) \in Results \ {NoResult}
      BY DEF Success, Results, NoResult, Codes
    <3>3. QED
      BY <1>1, <1>2, <2>1, <2>3, <3>1, <3>2, CallEffects
  <2>4. QED
    BY <1>3, <2>2, <2>3 DEF CallGet
<1>4. ASSUME NEW x \in Objs, CallSet(c, x) PROVE ClientOwned' /\ OneOwner'
  <2>1. Ready(c, x) /\ EnterFn(c, "Set", x) /\ GetOrSet(c) /\ owner[x] = "handle"
    BY <1>4 DEF CallSet
  <2>2. \A a \in Arcs : Success(a) \in Results \ {NoResult}
    BY DEF Success, Results, NoResult, Codes
  <2>3. QED
    BY <1>1, <1>2, <2>1, <2>2, CallEffects
<1>5. ASSUME NEW x \in Objs, SetInvalid(c, x) PROVE ClientOwned' /\ OneOwner'
  BY <1>5, QuietStep DEF SetInvalid, vars, apiVars
<1>6. CASE Ask(c) /\ UNCHANGED bindVars
  BY <1>1, <1>6, RunEffects, QuietStep DEF bindVars
<1>7. CASE Resume(c) /\ call[c].op = "get" /\ UNCHANGED bindVars
  <2>1. /\ InCall(c) /\ UNCHANGED <<client, call, owner, ref, frame>>
        /\ \E r \in Results \ {NoResult} : result' = [result EXCEPT ![c] = r]
    BY <1>1, <1>7, RunEffects DEF bindVars
  <2>2. frame[c] # NoFrame
    BY <2>1 DEF OInv, ClientOwned
  <2>3. QED
    BY <1>1, <2>1, <2>2 DEF OInv, ClientOwned, OneOwner, SoleHolder, Exists, InCall, Owns
<1>8. CASE SetReturns(c)
  <2>1. /\ InCall(c) /\ UNCHANGED <<client, result, owner, ref>>
        /\ call' = [call EXCEPT ![c] = NoCall]
        /\ frame' = [frame EXCEPT ![c] = NoFrame]
    BY <1>1, <1>8, RunEffects DEF SetReturns
  <2>2. QED
    BY <1>1, <2>1 DEF OInv, CppTypeOK, ClientOwned, OneOwner, SoleHolder, Exists, InCall, Owns
<1>9. ASSUME NEW o \in Refs, GetRefReturns(c, o) PROVE ClientOwned' /\ OneOwner'
  <2>1. /\ frame[c] # NoFrame /\ result[c] # NoResult /\ ref[o] = NoRef
        /\ frame' = [frame EXCEPT ![c] = NoFrame] /\ UNCHANGED owner
    BY <1>9 DEF GetRefReturns, Returned
  <2>2. CASE UNCHANGED vars /\ ref' = [ref EXCEPT ![o] = Owning(c)]
    <3>1. UNCHANGED <<call, result, client>>
      BY <2>2 DEF vars, apiVars
    <3>2. QED
      BY <1>1, <2>1, <2>2, <3>1
      DEF OInv, CppTypeOK, ClientOwned, OneOwner, SoleHolder, Exists, InCall, Owns, Owning,
          NoRef, Empty
  <2>3. CASE HandBack(c) /\ ref' = [ref EXCEPT ![o] = Empty]
    <3>1. /\ UNCHANGED client
          /\ call' = [call EXCEPT ![c] = NoCall]
          /\ result' = [result EXCEPT ![c] = NoResult]
      BY <1>1, <2>3, CallEffects
    <3>2. QED
      BY <1>1, <2>1, <2>3, <3>1
      DEF OInv, CppTypeOK, ClientOwned, OneOwner, SoleHolder, Exists, InCall, Owns, Owning,
          NoRef, Empty
  <2>4. QED
    BY <1>9, <2>2, <2>3 DEF GetRefReturns
<1>10. CASE GetReturns(c)
  <2>1. /\ frame[c] # NoFrame /\ UNCHANGED <<client, owner, ref>>
        /\ frame' = [frame EXCEPT ![c] = NoFrame]
        /\ call' = [call EXCEPT ![c] = NoCall]
        /\ result' = [result EXCEPT ![c] = NoResult]
    BY <1>1, <1>10, CallEffects DEF GetReturns, Returned
  <2>2. QED
    BY <1>1, <2>1 DEF OInv, CppTypeOK, ClientOwned, OneOwner, SoleHolder, Exists, InCall, Owns
<1>11. QED
  BY <1>3, <1>4, <1>5, <1>6, <1>7, <1>8, <1>9, <1>10 DEF CallStep, InSdk

\* Every step keeps the client and the results owned.
LEMMA OwnershipStep == OInv /\ [CppNext]_cppVars => ClientOwned' /\ OneOwner'
<1> SUFFICES ASSUME OInv, [CppNext]_cppVars PROVE ClientOwned' /\ OneOwner'
  OBVIOUS
<1>1. CASE (Network \/ Moka) /\ UNCHANGED bindVars
  BY <1>1, QuietStep DEF Network, Moka, bindVars
<1>2. CASE UNCHANGED cppVars
  BY <1>2, QuietStep DEF cppVars, bindVars, vars, apiVars
<1>3. QED
  BY <1>1, <1>2, ClientStepOwned, RefStepOwned, CallStepOwned DEF CppNext

\* The string of a Get or TryGet is legal at its key: the result that was
\* copied had a block, and the block of a result that is out keeps a legal
\* text.
LEMMA CopiesStep ==
  ASSUME IInv, CopiesWhole, told = [c \in Callers |-> told[c]], [CppNext]_cppVars
  PROVE  CopiesWhole' /\ told' = [c \in Callers |-> told'[c]]
<1>1. ASSUME NEW c \in Callers, NEW t, told' = [told EXCEPT ![c] = t],
             t.kind = "text" => t.text \in Legal[t.key]
      PROVE  CopiesWhole' /\ told' = [d \in Callers |-> told'[d]]
  BY <1>1 DEF CopiesWhole
<1>2. CASE UNCHANGED told
  BY <1>2 DEF CopiesWhole
<1>3. ASSUME NEW code PROVE SetOutcome(code).kind # "text"
  BY DEF SetOutcome, Stored, Threw
<1>4. ASSUME NEW c \in Callers, NEW fn \in {"Get", "TryGet"}, Returned(c, fn)
      PROVE  LET t == Outcome(fn, call[c].key, result[c].code, Pointee(c))
             IN  t.kind = "text" => t.text \in Legal[t.key]
  <2>1. CASE result[c].code = "Success"
    <3>1. result[c].arc # NoArc
      BY <1>4, <2>1 DEF Returned, IInv, Matched
    <3>2. Pointee(c) \in Legal[call[c].key]
      BY <3>1 DEF Pointee, IInv, NoCrossTalk
    <3>3. QED
      BY <2>1, <3>2 DEF Outcome, Copied
  <2>2. CASE result[c].code # "Success"
    BY <2>2 DEF Outcome, Nullopt, Threw
  <2>3. QED
    BY <2>1, <2>2
<1>5. ASSUME NEW c \in Callers, CallStep(c)
      PROVE  CopiesWhole' /\ told' = [d \in Callers |-> told'[d]]
  <2>1. ASSUME NEW fn, NEW x, EnterFn(c, fn, x)
        PROVE  CopiesWhole' /\ told' = [d \in Callers |-> told'[d]]
    BY <1>1, <2>1 DEF EnterFn, Nothing
  <2>2. CASE \E code : told' = [told EXCEPT ![c] = SetOutcome(code)]
    BY <1>1, <1>3, <2>2
  <2>3. CASE GetReturns(c)
    BY <1>1, <1>4, <2>3 DEF GetReturns
  <2>4. QED
    BY <1>2, <1>5, <2>1, <2>2, <2>3
    DEF CallStep, CallGet, CallSet, SetInvalid, InSdk, SetReturns, GetRefReturns, bindVars
<1>6. CASE ClientStep \/ RefStep
  BY <1>2, <1>6 DEF ClientStep, Construct, Destruct, ClearCache, MoveConstruct, MoveAssign,
                    RefStep, DropRef, MoveRef, AssignRef, bindVars
<1>7. QED
  BY <1>2, <1>5, <1>6 DEF CppNext, cppVars, bindVars

\* What holds in every state of the binding.
LEMMA CppInvariance == CppSpec => [](OInv /\ CopiesWhole)
<1> DEFINE ToldOK == told = [c \in Callers |-> told[c]]
<1>1. CppInit => CppTypeOK /\ ClientOwned /\ OneOwner /\ CopiesWhole /\ ToldOK
  BY DEF CppInit, Init, ApiInit, OwnerInit, CppTypeOK, Handles, ClientOwned, SoleHolder, InCall,
         OneOwner, Owns, Owning, NoRef, CopiesWhole, Nothing
<1>2. CppSpec => []IInv
  BY CppKeepsSync, SyncKeepsApi, Invariance, PTL
<1>3. IInv /\ CppTypeOK /\ ClientOwned /\ OneOwner /\ CopiesWhole /\ ToldOK
      /\ [CppNext]_cppVars
      => CppTypeOK' /\ ClientOwned' /\ OneOwner' /\ CopiesWhole' /\ ToldOK'
  BY CppTypeStep, OwnershipStep, CopiesStep DEF OInv
<1> HIDE DEF ToldOK
<1>4. OInv <=> IInv /\ CppTypeOK /\ ClientOwned /\ OneOwner
  BY DEF OInv
<1>5. QED
  BY <1>1, <1>2, <1>3, <1>4, PTL DEF CppSpec

\* Whatever the host constructs, moves, assigns and destroys: the native
\* client is open exactly while one object holds it, and no thread is in a
\* call on a client that is gone.
THEOREM CppClientOwned == CppSpec => []ClientOwned
<1>1. OInv => ClientOwned
  BY DEF OInv
<1>2. QED
  BY <1>1, CppInvariance, PTL

\* Every result has one owner until it is released: none is released twice,
\* none is forgotten.
THEOREM CppOneOwner == CppSpec => []OneOwner
<1>1. OInv => OneOwner
  BY DEF OInv
<1>2. QED
  BY <1>1, CppInvariance, PTL

\* Get and TryGet return a whole legal text.
THEOREM CppCopiesWhole == CppSpec => []CopiesWhole
BY CppInvariance, PTL

\* A ValueRef's text stays what it is as long as it is owned.
THEOREM CppLoans == CppSpec => LoansKept
BY CppKeepsSync, SyncLoans, PTL

\* The texts a caller reads and the gets it makes are as current as the cache
\* keeps them.
THEOREM CppCoherent == CppSpec /\ Watched => []Coherent /\ GetsCurrent
BY CppKeepsSync, SyncCoherent, PTL

\* When the last object has gone, whatever it was moved and assigned to before,
\* nothing of the client and of its results is left.
THEOREM CppLeakFree == CppSpec => []LeakFree
<1>1. OInv /\ Closed => LeakFree
  <2> SUFFICES ASSUME OInv, Closed,
                      \A x \in Objs : owner[x] # "handle",
                      \A o \in Refs : ref[o].state # "owning",
                      \A c \in Callers : frame[c] = NoFrame,
                      NEW a \in Arcs
               PROVE  strong[a] = IF a \in retired THEN 1 ELSE 0
    BY DEF LeakFree
  <2>1. client # "open"
    BY DEF OInv, ClientOwned
  <2>2. \A k \in Keys : entry[k] = NoArc
    BY <2>1 DEF Closed
  <2>3. \A o \in Refs, c \in Callers : ~Owns(o, c)
    BY DEF Owns, Owning
  <2>4. \A c \in Callers : result[c] = NoResult
    BY <2>3 DEF OInv, OneOwner
  <2>5. \A c \in Callers : result[c].arc = NoArc
    BY <2>4 DEF NoResult
  <2>6. QED
    BY <2>2, <2>5, EmptyHouse DEF OInv
<1>2. CppSpec => []Closed
  BY CppKeepsSync, SyncInvariance, PTL
<1>3. QED
  BY <1>1, <1>2, CppInvariance, PTL
=============================================================================
