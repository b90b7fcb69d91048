---------------------------- MODULE KvCoherence -----------------------------
(***************************************************************************)
(* When the SDK's cache agrees with the server.                            *)
(*                                                                         *)
(* The SDK never compares versions: a get puts whatever answer it receives *)
(* into the cache (ffi.rs:205), a set its own value after the server's ack *)
(* (ffi.rs:257), and between the server's step and the cache's anything    *)
(* may happen.  This module adds a history variable to KvApi that says     *)
(* when that can go wrong, and states that it goes wrong at no other time. *)
(***************************************************************************)
EXTENDS KvApi

VARIABLE exposed   \* exposed[k]: key k met one of the two races below

\* Call c has asked the server about k and not handled the answer yet.
Asking(c, op, k) == wire[c] # Silent /\ call[c].op = op /\ call[c].key = k

\* Race 1: a set of k is under way together with another call on k.
Overlap(k) ==
    \E c, d \in Callers :
        /\ c # d
        /\ Asking(c, "set", k)
        /\ Asking(d, "set", k) \/ Asking(d, "get", k)

\* Nothing of k in the SDK: neither cached nor asked for.
Cold(k) ==
    /\ entry[k] = NoArc
    /\ \A c \in Callers : ~Asking(c, "set", k) /\ ~Asking(c, "get", k)

\* Race 2: the server's value of k changes and no set of this client made
\* the change - another HTTP user, a restart, a PUT that outlived its call.
ChangedBehind(k) ==
    /\ store'[k] # store[k]
    /\ ~ \E c \in Callers : Asking(c, "set", k) /\ wire'[c] # wire[c]

Observe ==
    exposed' = [k \in Keys |->
                   ~Cold(k)' /\ (exposed[k] \/ Overlap(k)' \/ ChangedBehind(k))]

CoherenceInit == ApiInit /\ exposed = [k \in Keys |-> FALSE]

CoherenceNext == ApiNext /\ Observe

CoherenceSpec == CoherenceInit /\ [][CoherenceNext]_<<apiVars, exposed>>

\* The history variable by itself, next to any specification over KvApi's
\* variables: it watches their steps and restricts none.
Watched ==
    /\ exposed = [k \in Keys |-> FALSE]
    /\ [][apiVars' # apiVars /\ Observe]_<<apiVars, exposed>>

-----------------------------------------------------------------------------
(* Properties *)

BeingSet(k) == \E c \in Callers : Asking(c, "set", k)

Agrees(k) == entry[k] # NoArc => text[entry[k]] = store[k]

\* A key that met neither race since it was last cold, and that no set is
\* under way for, is cached with the server's value or not at all - after
\* lost answers, refused and timed-out sets, garbled bodies, evictions and
\* clears.  Write-through on success and invalidation on failure
\* (ffi.rs:254-264) are exactly enough for that.
Coherent == \A k \in Keys : ~exposed[k] /\ ~BeingSet(k) => Agrees(k)

\* An answer that is about to be cached is still the server's value.
Current(c, k) ==
    wire[c].phase = "reply" =>
        /\ Asking(c, "get", k) /\ wire[c].status = "200" => wire[c].body = store[k]
        /\ Asking(c, "set", k) /\ SetCode(wire[c]) = "Success" => store[k] = call[c].value

UpToDate(k) ==
    /\ ~Overlap(k)
    /\ ~BeingSet(k) => Agrees(k)
    /\ \A c \in Callers : Current(c, k)

\* Coherent with what it takes to be inductive: between the server's answer
\* and the cache's update (client.rs:45-52, ffi.rs:202-205, 254-257) the
\* server's value cannot move unless the key gets exposed.
FreshUnlessExposed == \A k \in Keys : ~exposed[k] => UpToDate(k)

\* A get that returns a text returns what the server has at that moment,
\* unless a set of the key is under way or the key met a race: a hit
\* (ffi.rs:197) is as good as asking, and an answer that took its time
\* (ffi.rs:202-206) is still the right one.
GetsCurrent ==
    [][\A c \in Callers, k \in Keys :
          /\ result[c] = NoResult /\ result'[c].arc # NoArc /\ call'[c].key = k
          /\ ~exposed[k] /\ ~BeingSet(k)
          => text'[result'[c].arc] = store[k]]_<<apiVars, exposed>>

\* What "write-through" (ffi.rs:256) says of a client that is the only user
\* of the server: with no set of k under way the cache holds the server's
\* value of k or none.
WriteThrough == \A k \in Keys : ~BeingSet(k) => Agrees(k)

\* ffi_overhead_analysis.md:154: an entry leaves the cache only when no
\* result with its text is out.
EvictedOnlyWhenReleased ==
    [][\A k \in Keys :
          entry'[k] # entry[k] => \A c \in Callers : ~Holds(c, entry[k])]_apiVars
=============================================================================
