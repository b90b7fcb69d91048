# A TLA+ model of KVStore_FFI

KVStore_FFI is a key-value store reached through a caching SDK: an axum web
server, a Rust SDK with a moka cache and a C ABI (one blocking, one
asynchronous), and C++ and C# bindings that give the C ABI's results the shape
of their language. A get returns a pointer into a cached `Arc<String>`; the
caller owns a reference to it, kept by hand across the C ABI, until it calls
release.

Three questions carry the system, and the model is built around them:

* **Is a text that was handed out there until it is released?** Whatever is
  evicted, replaced, cleared or destroyed meanwhile, and without leaking it.
* **Does the cache agree with the server?** When does it not, and can a lost
  answer, a refused or timed-out call alone make it disagree?
* **Does each result, context and handle have exactly one owner in the
  bindings?** Through moves, abandoned futures, cancellations and a client that
  is disposed under its calls.

## Inventory

| Component (source) | State | Operations | What makes it correct |
|---|---|---|---|
| web server (`server/src/main.rs`) | a DashMap, in memory, 1000 keys at start | GET, PUT, DELETE `/kv/{key}`, `/health` | each request acts on its key alone |
| HTTP clients (`client.rs`, `async_client.rs`) | one exchange per call; 10 s timeout | get, set | every exchange ends; an outcome gets the right error code |
| cache (`cache.rs`) | moka: key to `Arc<String>`, TTL, capacity; hit and miss counters | get, insert, invalidate, clear, len | a removed text stays alive while referenced; no block has two owners in the cache |
| synchronous C API (`ffi.rs`) | client handle; one running call or result per thread | init, destroy, get, release, set, clear, stats | exact reference counts; write-through and invalidation; every call returns |
| asynchronous C API (`ffi_async.rs`) | client handle; tasks on a runtime with 4 workers | init, destroy, get, set, release, clear, stats | one callback per call; tasks outlive the client safely |
| error codes (`error.rs`) | none | conversions | |
| C++ bindings (`kv_store.hpp`, `kv_store_async.hpp`) | `ValueRef`, contexts, promises | RAII over the C API | each result released once, each context deleted once |
| C# bindings (`KvStoreClient.cs`, `ValueRef.cs`, `KvStoreAsyncClient.cs`) | handles, GCHandles of pending calls, cancellation | `IDisposable` over the C API, `Task` over callbacks | the same, with Dispose and cancellation at any moment |

Interaction: a binding calls the C API; the C API reads the cache, asks the
server over HTTP on a miss and on every set, and updates the cache with the
answer. Nothing is locked across an exchange. Asynchronous calls come back by a
callback on a tokio worker, or inside the call itself.

Hard behaviour: calls that read the cache, wait for the server and then write
the cache with no version in between; requests that outlive their caller;
reference counts kept by hand; a client destroyed while results are out and
tasks under way; finitely many workers that also run the host's callbacks. The
repository has no concurrent tests. `PROJECT.json` lists these hazards at their
lines, each with the properties that would catch it.

## Modules

```
KvDomain        keys, values, callers
KvHttp          server and exchange         KvCache     cache and Arcs
      \                                     /
                     KvApi                  -- implements -->  KvLoans
        get, set, release, as both C APIs share them
       /               |               \
  KvSync         KvCoherence          KvAsync
  blocked        history variable     tasks, workers,
  threads        for the races        client dies early
   |       |                       |       |
 KvCpp   KvCsSync           KvCppAsync   KvCsAsync
 (KvCpp and KvCppAsync share KvCppObjects)
```

`KvSync` and `KvAsync` implement `KvApi`, and each binding implements the C API
it calls, so that what is proved of `KvApi` holds of all of them. `*_proofs`
modules hold the theorems, `MC*` modules the small instances for TLC.

| Module | Code | Correspondence |
|---|---|---|
| `KvDomain` | | `Keys`, `Values`, and `Legal[k]`, the texts anybody ever writes at `k` |
| `KvHttp` | `main.rs`, `client.rs`, `async_client.rs` | `store` is the DashMap; `wire[c]` is the exchange of caller `c` (silent, request, reply); `late` holds PUTs whose client has given up. `ServeGet`, `ServePut`, `ForeignDelete` are the handlers, each of which touches the map once. `GetCode` and `SetCode` are the outcome-to-error mapping of `get` and `set` |
| `KvCache` | `cache.rs`, `Arc`, moka | `entry[k]` is the block a lookup of `k` finds; `strong` and `text` are the Arcs; `retired` holds the values moka has removed and not dropped yet |
| `KvApi` | `ffi.rs` 179-266, the same code in `ffi_async.rs` | `call[c]`, `result[c]`: the running call and the `KvGetResult` that is out. One action per path: `Reject`, `Hit`, `Miss`, `SendRequest`, `GetFilled`, `GetFailed`, `BeginSet`, `SetStored`, `SetFailed`, `Release` |
| `KvSync` | `ffi.rs` | adds `client`, `Open`, `Destroy`, `CacheClear`, fairness |
| `KvAsync` | `ffi_async.rs` | adds `client` and `task[c]`: queued, waiting, in its callback. `Spawn` is the part on the host's thread, `Start` and `Deliver` run on a free worker, `CallbackReturns` ends the task and drops its clone of the cache |
| `KvCoherence` | | `KvApi` with `exposed[k]`, a history variable, and what the cache owes the server; `Watched` is the history variable alone, to be put next to any specification that implements `KvApi` |
| `KvCppObjects` | `kv_store.hpp`, `kv_store_async.hpp` | `owner[x]` is `client_` of client object `x`; `Outcome` is what `Get` and `TryGet` return or throw |
| `KvCpp` | `kv_store.hpp` | `ref[o]` is a `ValueRef`, `frame[c]` the member function thread `c` is inside, `told[c]` what it came to. Constructors, destructors, moves and assignments of both classes are an action each; `GetReturns` copies the text and then releases |
| `KvCppAsync` | `kv_store_async.hpp` | `ctx[c]`: the heap context; `shared[c]`: the state that promise and future share; `future[c]`, `held[c]`: what the host has. `CallBack`, `Fulfil`, `DeleteContext`, `Leave` are the callback; `Take`, `Abandon`, `DropRef` the host |
| `KvCsSync` | `KvStoreClient.cs`, `ValueRef.cs` | `disposed`, `handle`: the fields; `frame[c]`: entered, calling (`_handle` read), native; `clearing`: the same of a `ClearCache`; `inside[c]`: threads in `Dispose` of its `ValueRef`, past the check of the flag; `reading[c]`: the text that a thread got from `AsSpan` or is copying in `AsString`; `raced`: a history variable, see below |
| `KvCsAsync` | `KvStoreAsyncClient.cs` | `tcs[c]`: the TaskCompletionSource; `table`, `slot[c]`: the runtime's GCHandles and which one a call got; `pending`: `_pendingOperations`; `cb[c]`: where the callback is; `valueRef[c]`: who has the result; `overlap`, `twice`: history variables, see below. `BeginDispose`, `TakeEntry` and `FreeEntry` for each entry, `ClearPending`, `DestroyNative`, `EndDispose` are `Dispose` |
| `KvLoans` | `kv_store.h:78` | the abstract promise: a get fails or lends a text written at its key, unchanged until release |

Where the steps are cut: a call's code between two touches of shared state is
one step with the touch before it. So the cache lookup, the sending of the
request and the handling of the answer (cache update, reference count, return)
are three steps, and steps of others come in between. `GetFilled` covers the
insert and `KvGetResult::success` in one step: the block is private to the call
until the insert, and the second reference is taken before it.

In the bindings a step is what one thread does between two fields that another
thread reads: in C# the check of `_disposed`, the GCHandle with its entry in
`_pendingOperations`, the read of `_handle` and the native call are four steps.
The callback's completion of the task, its `TryRemove` and its `Free` are three.
The loop of `Dispose` takes a copy of an entry in one step and frees its handle in
another, and may or may not come to an entry that is added meanwhile. `ClearCache`
checks the flag in one step and calls in a later one (`KvCsSync` has the read of
`_handle` in between as a step too). A reader of a `ValueRef`'s text checks the
flag in one step and is done with the pointer in another.

What is abstracted: a text is a value, compared only for equality; a key is
opaque (the URL is taken to name the key; see *Not modelled*). Time to live and
capacity are moka's right to remove any entry at any moment (`Evict`), which is
every schedule they can produce. moka defers the drop of removed values, so
`Reclaim` is a step of its own. A set with invalid arguments changes nothing and
is no step. A block is freed when its count falls to zero and may be handed out
again at once, so `Arcs` is a small set whose members are reused: a dangling
pointer would show another text. A GCHandle is a slot of a table; a freed slot may
be any later call's, so a callback with a freed handle finds nothing or the context
of another call, and a second `Free` takes away whatever is in the slot by then.
What a native call does with a destroyed client is not followed further than the
end of the process (`CallDangling`, `ClearDangling`, `crashed`).

## Runs

| Run | Instance | Checks | Shows |
|---|---|---|---|
| `api` | 2 keys, 3 values, 2 callers, 4 blocks | `TypeOK`, `ArcCount`, `Bookkeeping`, `NoCrossTalk`, `LoansKept` | counts are exact, keys do not mix, and `KvApi` implements `KvLoans` |
| `sync` | 1 key, 2 threads, 1 late PUT, a foreign writer | `NothingLeft`, `Answered` | destroy leaves nothing; every call returns |
| `async` | 1 key, 2 calls, 1 worker, a foreign writer | `TaskPerCall`, `CacheOwned`, `CallbackFires` | tasks and calls match; no entry outlives the last owner of the cache; every task gets to its callback |
| `coherence` | 1 key, 2 values, 3 callers, 1 late PUT, a foreign writer, restarts | `Coherent`, `FreshUnlessExposed`, `GetsCurrent` | the cache disagrees with the server, and a get with the server's value of the moment, only after a named race |
| `cpp` | 1 key, 2 threads, 2 clients, 2 `ValueRef`s, a foreign writer | `ClientOwned`, `OneOwner`, `CopiesWhole`, `LeakFree` | one object holds the client and one each result, through all moves; a returned string was copied before its release; when the objects are gone no text is left |
| `cpp_async` | 1 key, 2 calls, 1 worker, 2 clients | `ContextForCallback`, `OneOwner`, `ClientOwned`, `LeakFree`, `NothingForgotten` | each callback finds its context; each result has one owner and the client one object; nothing is left when all are gone; every context is answered and deleted, future or no future, client or no client |
| `cs_async` | 1 key, 2 calls, 1 worker, 1 block, 2 handles, cancellation, `Careful = TRUE` | `TaskCompletes` | every task is completed, canceled or not, whatever the server does |
| `cs_async_anytime` | the same, `Careful = FALSE`: `Dispose` at any moment | `HandleAlive`, `ClientAlive`, `ResultOwned`, `OnlyCanceledLeak`, `CrashNeedsDispose`, `TaskAnswered` | until a `Dispose` meets a call or a callback, callbacks find their contexts, handles are freed once, results have owners, calls have a client; whatever it meets, no handle is left over, and the process ends only in two named cases |
| `cs_sync` | 1 key, 2 threads, a foreign writer, `Dispose` at any moment | `SafeUnlessRaced`, `ResultOwned`, `OnlyForgottenLeak` | memory is misused and results are lost only after one of three named misuses; whatever raced, only lost results and forgotten references leave a text behind |
| `coherence_race` | 1 key, 2 callers, no failures | `WriteThrough` (violated) | a get that overlaps a set can mask the set |
| `evict` | the same | `EvictedOnlyWhenReleased` (violated) | entries go while results are out |
| `async_thread` | as `async` | `CallbackElsewhere` (violated) | a hit runs the callback on the calling thread |

The bounds. Two callers make every pairwise race; the coherence run has three,
for a get, a set and a call that brings the key back into the cache. No step
relates two keys but clear and destroy, so two keys are enough for cross-talk
and one for the rest. Blocks: one per result that can be out, one per entry, one
retired; with fewer, an insert waits, with more nothing new can happen. `Strays`
bounds how many abandoned PUTs are under way at once. `Workers = 1` in the async
run makes the two tasks compete for the only one. Callers and blocks are
interchangeable, which the safety runs use; the runs with a liveness property do
not. Two objects make every move and assignment, two `ValueRef`s likewise; a
third would only lengthen the chains. `MaxInside` lets two threads into the
`Dispose` of one `ValueRef`, enough for a second release, and one reader at a time
holds its text, enough for a read after it. `Slots` has a handle for every call,
so that `Prepare` never waits, and few enough that a freed one is soon another
call's. The asynchronous binding runs have few blocks: `cpp_async` two, too few
for both results, an entry and an insert at once, and the two C# ones a single
one, which a hit shares with the entry while the insert of the other call waits
for it. What they check is who owns handles, tasks and results, not texts, and the
second block adds no order of events to that; texts are `api`'s. Their liveness
properties therefore assume that a block is free again and again (`BlocksLeft`),
as it always is of an allocator. In `cpp_async`, `GetRefAsync` stands for the
three getters, whose steps differ in name only, and sets are fired and
forgotten, so that the futures that are abandoned there are those of gets; the
theorems cover all five functions. Deadlock is checked but in `async_thread` and
the C# and asynchronous C++ runs, where a host is done once it has destroyed its
client, or the process may end; in the other runs a host may open the client
again or a foreign writer goes on, so what rules out a stuck call there is
liveness, not the deadlock check.

### The races of the cache

`exposed[k]` is set when a set of `k` is on the wire together with another call
on `k` (`Overlap`), or when the server's value changes by anything but a set of
this client (`ChangedBehind`: another HTTP user, a restart, a PUT that outlived
its call), and cleared when nothing of `k` is left in the SDK. `Coherent` says
that an unexposed key that no set is under way for is cached with the server's
value or not at all. So lost answers, refused, garbled and timed-out calls,
evictions and clears never make the cache wrong by themselves: write-through on
success and invalidation on every failure are exactly enough. `GetsCurrent` is
what a caller sees of it: the text that a get returns, from the cache or from an
exchange that took its time, is the server's value at the moment it returns.
`WriteThrough` is `Coherent` without `exposed`, and the code does not keep it.
`ExclusiveUse` says when it does: no other HTTP user, no restart, no PUT that
outlives its call, and nobody else in a call on a key that is being set. A
program with one thread and a server of its own is such a user (`SoleThread`).

### What the C# bindings ask of their host

The C# classes are documented as thread-safe. They check `_disposed` at the start
of a call and lock only `Dispose` against itself, so there are orders of events
that they cannot cope with. Nothing in the two modules forbids them; history
variables remember that they came about.

`KvCsSync` remembers in `raced` that the client was disposed with a call or a
`ClearCache` under way, or a `ValueRef` by two threads at once or while another
thread was reading it. `SafeUnlessRaced` says that there is no fourth: without
these no freed memory is used, no text is read after its release and no result
loses its only owner. `OnlyForgottenLeak` has no such premise. Whatever raced, the
texts that stay are those of results that were lost and of references that the
host dropped without a `Dispose` (`ForgetRef`), which nothing collects (item 7 of
the list below).

`KvCsAsync` remembers in `overlap` what the `Dispose` of the client met: `"host"`,
a thread inside a call or a task not yet completed, which the host can see;
`"callback"`, only callbacks whose tasks are completed or canceled, which it cannot
see; or nothing. Its properties say what holds after each:

* after nothing, all of it: handles lead to their contexts, are freed once and
  leave with their entries;
* after `"callback"`, a handle may be freed twice (item 6 below), by the `Dispose`
  and the callback; but no call goes into a destroyed client, each result is where
  it belongs, each task is answered, no handle is left, and if nothing was canceled
  the process does not end. The callback of a canceled call may come with its
  handle freed, and its exception then ends the process (`CrashNeedsDispose`);
* after `"host"`, a call may go in with the destroyed client, a task wait for ever,
  a result end in another call's task. That no handle stays without a callback to
  come, and no text but those that nobody has got, still holds.

The constant `Careful` is a host that disposes the client only when it has awaited
every task and disposed every reference, which is the most a host can do. Only the
liveness run sets it: `TaskCompletes` does not hold after a `"host"`. What that run
leaves out besides are hosts that dispose over completed tasks and references that
nobody has fetched yet, and those change no task that is still to be completed. No
invariant and no theorem depends on `Careful`.

### Fairness

* `Timeout` is weakly fair: both clients are built with a 10 s timeout
  (`client.rs:30`, `async_client.rs:26`). The server's steps have no fairness; it
  may stay silent for ever.
* A blocked thread runs on (`Ask`, `Resume`), tokio runs what is ready (`Start`,
  `Deliver`), moka gets round to its drops (`Reclaim`). `Resume` and `Deliver`
  are strongly fair because the model has finitely many blocks, so an insert may
  be disabled for a while, which the real allocator never is; `Start` and
  `Deliver` also because the workers may be busy again and again, and tokio's
  queues are first come, first served.
* `CallbackReturns` is weakly fair: an assumption about the host. A callback that
  waits for another asynchronous call breaks it.
* The bindings need no such assumption. Their callbacks wait for nobody: in C++
  they answer a promise, in C# they complete a task whose continuations run
  elsewhere (`RunContinuationsAsynchronously`, `KvStoreAsyncClient.cs:162`). So
  `CppFairness` and `CsFairness` have the steps of the callback weakly fair, with
  the thread inside a C# call and the thread `FireAndForget` detaches, until the
  process ends (`~crashed`). The host need not read, await, cancel, release or
  dispose anything.

## Proofs

The theorems hold for all values of the constants; `tlapm` checks them. They
assume what the modules' `ASSUME`s say: finitely many callers, a server that
starts with legal texts, distinct null and freed markers, at least one worker.

`KvApi_proofs` has the core. `IInv` is inductive:

    TypeOK /\ ArcCount /\ SoleOwner /\ Matched /\ NoCrossTalk

No part is inductive alone. A count stays a natural number only because a holder
is counted (`ArcCount`) and no block is retired twice (`SoleOwner`); an insert
gets a block that is free only because an uncounted block has no holder
(`FreeBlock`); the last reference is the releasing caller's only if nobody else
is counted (`LastIsCallers`), which is why no other text changes; a body that is
cached is one of the key's only because the answer belongs to the call
(`Matched`). One lemma per part, one step per action. From `IInv` follow
`TypeCorrect`, `CountsExact`, `OwnersApart`, `KeysApart`, and, by the refinement
mapping `Slot` (what a caller sees of its call), `LoansImplemented`.

`KvCoherence_proofs` adds `FreshUnlessExposed`: an answer under way is still the
server's value unless the key gets exposed. `Coherent` follows, and so does
`GetsCurrent`, from the invariant before the step that ends the get
(`CurrentStep`): one case for a hit and one for an answer that is cached.
`WatchedCoherent` states both for `ApiSpec /\ Watched`, so that they hold of
whatever implements `KvApi`: `SyncCoherent` and `AsyncCoherent`, and one theorem
in each binding. `ExclusiveUse` shows that nothing gets exposed where nobody
else changes the server (`OwnChanges`) and no set overlaps.

`KvSync_proofs` and `KvAsync_proofs` show that each step of the concrete APIs is
a step of `KvApi` or none of its variables changes, and carry its theorems over;
they also prove `NothingLeft`, `TaskPerCall` and `CacheOwned`. `EmptyCache` and
`EmptyHouse` in `KvApi_proofs` say what the exact counts come to when the cache
has no entry and when no result is out either; the theorems about leaks, here and
in the bindings, rest on them.

Each of the four binding modules begins with the theorem that the binding
implements its C API (`CppKeepsSync`, `CppKeepsAsync`, `CsKeepsSync`,
`CsKeepsAsync`): every action takes one step of the C API or none. That carries
over the promise of `KvLoans` (`CppLoans`, `CppAsyncLoans`, `CsLoans`,
`CsAsyncLoans`) and the coherence of the cache (`CppCoherent` and so on). The
rest is about ownership, from an inductive invariant `OInv` that contains that
of the C API:

* `KvCpp_proofs`: `ClientOwned` and `OneOwner` are inductive together. A caller
  that can begin a call has no result out, so no `ValueRef` gets a second owner.
  `CppLeakFree`: with no owner left there is no client, hence no cache, and no
  result, so every count is that of moka's own reference.
* `KvCppAsync_proofs`: `Mine(c)` puts the parts of `ContextForCallback` and
  `OneOwner` together per call, because each rests on the other: a shared state
  is freed with the last of context and future only if a context means a task
  that will delete it. A step of one call leaves `Mine` of the others alone.
  `ClientOwned` needs nothing of the calls and is inductive by itself
  (`ClientOwnedStep`); `CppAsyncLeakFree` puts the two and `CacheOwned` together.
* `KvCsSync_proofs`: `Mine(c)` again, and `RaceNoted`: the flag is up before the
  client goes, and the host has raced when it goes up under a call or a
  `ClearCache`, or when a `ValueRef` has a second user while it is disposed.
  `CsSafe` is inductive with it, `Dispose` and readers at any moment; `CsForgotten`
  follows from the ownership of results and the exact counts alone.
* `KvCsAsync_proofs`: `CsInv` has a part for each thing that a step relies on.
  `AllSlotted`: who awaits a callback has a handle, and a handle in use has
  somebody awaiting it; so a `Free` leaves nothing behind even when it is the
  second one. `AllPhases`: which of frame, task, callback and reference a call can
  have at once. `FlagFirst`: the flag is up before anything is taken away. `Quiet`:
  once it is up over no call, no thread is in one and no task is open, and after
  the loop no entry is left. `Owned`: where results are. `InOrder`: as long as
  nothing was met, handles, tasks and results follow their calls, which is what
  makes the callback of `c` find the context of `c` alone, so that its `Free`
  disturbs nobody. `InOrder` is inductive only with `Quiet`, since a `Dispose` that
  met nothing must go on meeting nothing, and `CrashNeedsDispose` only with
  `Quiet` and `Owned`. The theorems from it (`CsCrash`, `CsHandles`, `CsClient`,
  `CsResults`, `CsAnswered`, `CsCanceled`) hold for every host: none assumes
  anything of `Careful` or `Cancels`.

Only model-checked: `Answered`, `CallbackFires`, `NothingForgotten` and
`TaskCompletes` (liveness is beyond the prover; `CsAnswered` and `CppContexts`
prove the safety half of the last two: nothing is waiting for a callback that
will not come), and the three violations. Every other property that a run checks
is stated by a theorem, as is `WriteThrough`, under the conditions that make it
true.

## What disagrees with the documentation

1. `coherence_race`: "write-through" and "thread-safe" (`SPEC.md:260-262`,
   `ffi.rs:256`, `lib.rs:6`) do not keep a get's older answer from replacing the
   value a concurrent set has just cached (`ffi.rs:205`).
2. `evict`: `findings/ffi_overhead_analysis.md:154` says that eviction waits for
   all references. It does not; the text survives by its own reference, as
   `findings/ffi_memory_management.md:223-228` and `:567` have it.
3. `async_thread`: `ffi_async.rs:121` says that the callback comes from another
   thread. On a hit it comes from the caller's own (`ffi_async.rs:148`), as
   `findings/async_ffi_pattern.md:196` has it.

More of the kind, which no run is spent on; the model has each of these
behaviours:

4. `TryGet` returns `nullopt` for every error (`kv_store.hpp:230`), a lost
   connection included; `SPEC.md:359` says "nullopt if not found". No function
   throws the declared `ConnectionException` (`kv_store.hpp:55`), which
   `SPEC.md:355` and `:363` promise. Both are in `Outcome` of `KvCppObjects`.
5. A get whose task was canceled leaves its result to nobody: `TrySetResult`
   returns false (`KvStoreAsyncClient.cs:324`), the reference is dropped, and
   there is no finalizer. `kv_store_async.h:37` says that the caller must release
   it. This is the last disjunct of `ResultOwned` in `KvCsAsync`.
6. Both C# clients say "Thread-safe for concurrent use" (`KvStoreClient.cs:31`,
   `KvStoreAsyncClient.cs:92`). A `Dispose` that meets a call destroys the client
   under it. In the asynchronous client awaiting every task first is not enough: a
   task completes before the callback's `finally` frees the GCHandle
   (`KvStoreAsyncClient.cs:330`), and `Dispose` frees it too (`:378-379`), because
   `IsAllocated` asks a copy of the struct. This is `twice`, which `HandleAlive`
   allows only after such a meeting.
7. `findings/ffi_memory_management.md:374-378` shows `ValueRef` with a finalizer
   and `:577` calls it the "safety net for forgotten `Dispose()`". `ValueRef.cs`
   has none, nor has `AsyncValueRef`: a reference that the host forgets keeps its
   text for ever. `OnlyForgottenLeak` counts exactly these texts.
8. `KvStoreClient.GetRef` reads `_handle` again for the reference it returns
   (`KvStoreClient.cs:95`). A `Dispose` in between leaves a `ValueRef` that
   releases nothing; `ValueRef.cs:13` says that release is ensured. `KvCsSync`
   has it as `Lost`.
9. `SPEC.md:180` says that destroy makes all outstanding results INVALID. They
   stay valid until their release (`ffi.rs:168-172` drops the cache, not the
   references of results): `DestroyComplete` says what is left, `SyncLoans` that it is
   intact.

## Not modelled

* Hit and miss counters, moka's own estimate of its size, and the functions that
  only read them (`kv_store_cache_stats` and its likes in the bindings);
  `/health`.
* How a key becomes a URL: keys are put into the path without encoding, so that
  some keys name another resource than their own. Which text is empty: C# passes
  a null pointer for it, which the C API rejects; to the model that is a set with
  an invalid argument.
* Time: expiry may come at any moment, so how long a stale value can live is not
  stated. The `Timeout` code of `error.rs` is never produced.
* In the bindings: several native clients at once (they share nothing but, in C#,
  the runtime's table of GCHandles, where a second `Free` can also hit other users
  of the process); what `Get` and `TryGet` of C# return, which is as in C++; the
  moves of the C++ `AsyncValueRef`, which are those of `ValueRef` in `KvCpp`; reads
  and a second `Dispose` of the C# `AsyncValueRef`, which are those of `ValueRef`
  in `KvCsSync`; the order in which a `ConcurrentDictionary` enumerates.
* What happens after freed memory was used: the process ends there.
* Callbacks that never return: see *Fairness*. Two sets that one thread begins in
  order and the server receives in the other: both orders are in `KvAsync`, but no
  property tells them apart, as the key then counts as exposed.
* Connection pools; benchmarks; generated headers and build files; loading of the
  native library.
* Calls with a dangling client pointer from C, which the C API leaves to its
  hosts.

## Plan

1. (done) `KvHttp`, `KvCache`, `KvApi` with `KvLoans`; `KvSync`, `KvAsync`,
   `KvCoherence`; proofs of their safety.
2. (done) The four bindings over the C APIs, with cancellation, `Dispose`, moves
   and abandoned futures; refinement and ownership proved.
3. Left: `Staleness`, a clock and the time to live, to bound how long an exposed
   key can disagree; the counters; `KeyRouting`, which resource a key names.
4. (done) Coherence carried over to `KvSync`, `KvAsync` and the bindings; what
   callers see of it (`GetsCurrent`); leaks; a host that awaits its tasks.
5. Left: one abstract specification of a future, answered once and owned by one,
   that the callbacks of both asynchronous bindings implement.
