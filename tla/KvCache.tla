------------------------------ MODULE KvCache -------------------------------
(***************************************************************************)
(* The SDK's cache (core-sdk/src/cache.rs): a moka cache from keys to      *)
(* Arc<String>, and the Arcs themselves.                                   *)
(*                                                                         *)
(* An Arc is a heap block with a strong count and a text.  A block whose   *)
(* count falls to zero is freed: its text is Freed from then on, until the *)
(* allocator hands the same block out again (Arcs is finite, so it does).  *)
(*                                                                         *)
(* moka is external.  It drops a removed or replaced value some time after *)
(* the removal (write buffer, epoch reclamation): retired holds the Arcs   *)
(* that no lookup can find any more and that moka still owns.  Time to     *)
(* live and capacity are the right to remove any entry at any moment.      *)
(* The hit and miss counters are left out: nothing but                    *)
(* kv_store_cache_stats reads them.                                        *)
(***************************************************************************)
EXTENDS KvDomain

CONSTANTS Arcs,    \* heap blocks; a bound on how many texts are alive at once
          NoArc,   \* the null pointer
          Freed    \* the text of a block that is not allocated

ASSUME CacheAssumption == NoArc \notin Arcs /\ Freed \notin Values

VARIABLES entry, retired, strong, text

cacheVars == <<entry, retired, strong, text>>

CacheTypeOK ==
    /\ entry \in [Keys -> Arcs \cup {NoArc}]
    /\ retired \in SUBSET Arcs
    /\ strong \in [Arcs -> Nat]
    /\ text \in [Arcs -> Values \cup {Freed}]

\* KvCache::new: an empty cache, no block allocated.
CacheInit ==
    /\ entry = [k \in Keys |-> NoArc]
    /\ retired = {}
    /\ strong = [a \in Arcs |-> 0]
    /\ text = [a \in Arcs |-> Freed]

-----------------------------------------------------------------------------
(* Arc<String> *)

Clone(a) ==
    /\ strong' = [strong EXCEPT ![a] = @ + 1]
    /\ UNCHANGED text

Drop(a) ==
    /\ strong' = [strong EXCEPT ![a] = @ - 1]
    /\ text' = [text EXCEPT ![a] = IF strong[a] = 1 THEN Freed ELSE @]

\* Arc::new and, for insert's clone, count refs owners at once.
Allocate(a, v, refs) ==
    /\ strong[a] = 0
    /\ strong' = [strong EXCEPT ![a] = refs]
    /\ text' = [text EXCEPT ![a] = v]

-----------------------------------------------------------------------------
(* Operations of KvCache *)

\* The blocks the entries K lead to.
ArcsAt(K) == {entry[k] : k \in K} \ {NoArc}

\* insert: the cache gets one reference; the Arc it returns is a second one
\* that the caller keeps (get) or drops on the spot (set).  A replaced value
\* is retired.
Insert(k, v, a, refs) ==
    /\ Allocate(a, v, refs)
    /\ entry' = [entry EXCEPT ![k] = a]
    /\ retired' = retired \cup ArcsAt({k})

\* moka gives up the entries K.
Remove(K) ==
    /\ entry' = [k \in Keys |-> IF k \in K THEN NoArc ELSE entry[k]]
    /\ retired' = retired \cup ArcsAt(K)
    /\ UNCHANGED <<strong, text>>

Invalidate(k) == Remove({k})

Clear == Remove(Keys)

\* An entry expires (TTL) or is evicted (capacity), at any time.
Evict(k) ==
    /\ entry[k] # NoArc
    /\ Remove({k})

\* moka drops its reference to a removed value.
Reclaim(a) ==
    /\ a \in retired
    /\ retired' = retired \ {a}
    /\ Drop(a)
    /\ UNCHANGED entry

CacheStep == (\E k \in Keys : Evict(k)) \/ (\E a \in Arcs : Reclaim(a))
=============================================================================
