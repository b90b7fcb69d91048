------------------------------- MODULE KvHttp -------------------------------
(***************************************************************************)
(* The web server (server/src/main.rs) and the HTTP exchange between it    *)
(* and the SDK (core-sdk/src/client.rs, async_client.rs).                  *)
(*                                                                         *)
(* store is the server's DashMap.  wire[c] is the one exchange that caller *)
(* c of the SDK can have open: nothing, a request that no server answer    *)
(* exists for yet, or the answer as reqwest will report it.  late holds    *)
(* PUTs whose client gave up after its 10 s timeout while the request was  *)
(* still on its way or being handled: the server may apply them at any     *)
(* later time.                                                             *)
(*                                                                         *)
(* Each axum handler touches the DashMap once, so it is one step.          *)
(***************************************************************************)
EXTENDS KvDomain

CONSTANTS
    Absent,        \* "the key has no value"
    Prepopulated,  \* the store the server process starts with
    Strays,        \* bound: how many abandoned PUTs can be under way at once
    ForeignKeys,   \* keys that other HTTP users also PUT and DELETE
    MayRestart     \* whether the server process may be restarted

ASSUME HttpAssumption ==
    /\ Absent \notin Values
    /\ Prepopulated \in [Keys -> Values \cup {Absent}]
    /\ \A k \in Keys : Prepopulated[k] \in Legal[k] \cup {Absent}
    /\ ForeignKeys \subseteq Keys
    /\ MayRestart \in BOOLEAN

VARIABLES store, wire, late

httpVars == <<store, wire, late>>

-----------------------------------------------------------------------------
(* Messages *)

Silent == [phase |-> "silent"]

\* Mutant: the URL is built without the caller's key.
GetRequest_FixedKey(k) ==
    [phase |-> "request", op |-> "get", key |-> CHOOSE x \in Keys : TRUE, value |-> Absent]

GetRequest(k)    == [phase |-> "request", op |-> "get", key |-> k, value |-> Absent]
PutRequest(k, v) == [phase |-> "request", op |-> "put", key |-> k, value |-> v]
Reply(s, v)      == [phase |-> "reply", status |-> s, body |-> v]

\* "garbled": a 2xx whose body cannot be read or parsed.  "other": neither
\* 2xx nor 404.  "none": send() failed - refused, reset or timed out.
Statuses == {"200", "404", "garbled", "other", "none"}

Requests ==
    [phase : {"request"}, op : {"get", "put"}, key : Keys, value : Values \cup {Absent}]
Replies == [phase : {"reply"}, status : Statuses, body : Values \cup {Absent}]

Codes == {"Success", "KeyNotFound", "ConnectionError", "InvalidInput", "InternalError"}

\* What KvHttpClient::get makes of an answer: a failed send is always a
\* ConnectionError, also when it timed out.
GetCode(r) ==
    CASE r.status = "none" -> "ConnectionError"
      [] r.status = "200"  -> "Success"
      [] r.status = "404"  -> "KeyNotFound"
      [] OTHER             -> "InternalError"

\* Mutant: set takes any answer for an acknowledgement.
SetCode_AnyAnswer(r) == IF r.status = "none" THEN "ConnectionError" ELSE "Success"

\* KvHttpClient::set looks at the status only: an unreadable body is fine,
\* and a 404 is no special case.
SetCode(r) ==
    CASE r.status = "none"                -> "ConnectionError"
      [] r.status \in {"200", "garbled"}  -> "Success"
      [] OTHER                            -> "InternalError"

HttpTypeOK ==
    /\ store \in [Keys -> Values \cup {Absent}]
    /\ wire \in [Callers -> {Silent} \cup Requests \cup Replies]
    /\ late \in [Strays -> {Silent} \cup Requests]

HttpInit ==
    /\ store = Prepopulated
    /\ wire = [c \in Callers |-> Silent]
    /\ late = [s \in Strays |-> Silent]

-----------------------------------------------------------------------------
(* The SDK's side of an exchange *)

Send(c, request) ==
    /\ wire[c] = Silent
    /\ wire' = [wire EXCEPT ![c] = request]
    /\ UNCHANGED <<store, late>>

\* Mutant: the answer stays in the connection after it was read.
Receive_LeavesAnswer(c) ==
    /\ wire[c].phase = "reply"
    /\ UNCHANGED httpVars

\* The caller takes the answer; the exchange is over.
Receive(c) ==
    /\ wire[c].phase = "reply"
    /\ wire' = [wire EXCEPT ![c] = Silent]
    /\ UNCHANGED <<store, late>>

-----------------------------------------------------------------------------
(* The server and the network *)

Pending(c, op) == wire[c].phase = "request" /\ wire[c].op = op

Answer(c, s, v) == wire' = [wire EXCEPT ![c] = Reply(s, v)]

\* get_value: 200 with the value, or 404.
ServeGet(c) ==
    /\ Pending(c, "get")
    /\ LET v == store[wire[c].key]
       IN  Answer(c, IF v = Absent THEN "404" ELSE "200", v)
    /\ UNCHANGED <<store, late>>

\* set_value: always inserts, always 200.
ServePut(c) ==
    /\ Pending(c, "put")
    /\ store' = [store EXCEPT ![wire[c].key] = wire[c].value]
    /\ Answer(c, "200", Absent)
    /\ UNCHANGED late

\* The request is answered before it reaches a handler (body too large,
\* proxy error, ...): the store is not touched.
Refuse(c) ==
    /\ wire[c].phase = "request"
    /\ Answer(c, "other", Absent)
    /\ UNCHANGED <<store, late>>

\* The body of a 200 to a GET breaks off or does not parse.
Garble(c) ==
    /\ wire[c].phase = "reply"
    /\ wire[c].status = "200" /\ wire[c].body # Absent
    /\ Answer(c, "garbled", Absent)
    /\ UNCHANGED <<store, late>>

\* The connection breaks after the server has handled the request.
LoseReply(c) ==
    /\ wire[c].phase = "reply"
    /\ wire[c].status # "none"
    /\ Answer(c, "none", Absent)
    /\ UNCHANGED <<store, late>>

\* Mutant: only GETs have a time limit.
Timeout_GetOnly(c) ==
    /\ wire[c].phase = "request" /\ wire[c].op = "get"
    /\ Answer(c, "none", Absent)
    /\ UNCHANGED <<store, late>>

\* No answer within 10 s, or no connection at all.  A PUT may be lost with
\* the connection or go on without its client.
Timeout(c) ==
    /\ wire[c].phase = "request"
    /\ Answer(c, "none", Absent)
    /\ \/ late' = late
       \/ /\ wire[c].op = "put"
          /\ \E s \in Strays :
                late[s] = Silent /\ late' = [late EXCEPT ![s] = wire[c]]
    /\ UNCHANGED store

\* The server handles a PUT whose client is no longer there.
ServeLate(s) ==
    /\ late[s] # Silent
    /\ store' = [store EXCEPT ![late[s].key] = late[s].value]
    /\ late' = [late EXCEPT ![s] = Silent]
    /\ UNCHANGED wire

\* Another HTTP user's PUT.
ForeignPut(k, v) ==
    /\ k \in ForeignKeys /\ v \in Legal[k]
    /\ store' = [store EXCEPT ![k] = v]
    /\ UNCHANGED <<wire, late>>

\* Another HTTP user's DELETE; on a missing key the handler changes nothing.
ForeignDelete(k) ==
    /\ k \in ForeignKeys
    /\ store[k] # Absent
    /\ store' = [store EXCEPT ![k] = Absent]
    /\ UNCHANGED <<wire, late>>

\* The server process dies and starts again: the DashMap was only in
\* memory, and what it was still handling is gone.  Callers whose exchange
\* was open notice by Timeout or LoseReply, or reach the new process.
Restart ==
    /\ MayRestart
    /\ store' = Prepopulated
    /\ late' = [s \in Strays |-> Silent]
    /\ UNCHANGED wire

HttpStep ==
    \/ \E c \in Callers :
          \/ ServeGet(c) \/ ServePut(c) \/ Refuse(c)
          \/ Garble(c) \/ LoseReply(c) \/ Timeout(c)
    \/ \E s \in Strays : ServeLate(s)
    \/ \E k \in Keys, v \in Values : ForeignPut(k, v)
    \/ \E k \in Keys : ForeignDelete(k)
    \/ Restart
=============================================================================
