# Verification of the synapi client

synapi lets a game server report itself and its players to the ServerSyn web
service. This directory models the client side: the C library that queues and
sends HTTP requests on the game thread, the parts of libcurl it relies on, the
api key it stores, the query text it builds, and the SourceMod extension and
plugin that use it. The repository also carries the copy of SourceMod the
extension is built in and runs in; four parts of its runtime are modelled too:
the worker thread, the database manager on top of it, the timers (the plugin's
heartbeat is one) and the handles.

## Inventory

| Part | Source | State | Operations |
| --- | --- | --- | --- |
| Request engine | `synapi/api/synapi.c`, `synapi.h` | `requests[]`, `pool[]`, `api_key`, `api_key_set`, `encoded_api_key`, the global `multi_perform_counter` | `synapi_init`, six request functions through `synapi_queue`, `synapi_perform`, `synapi_queued`, `synapi_free`, the write callback |
| Key storage | `synapi_api_key()` in `synapi.c` | the 256-byte array and its escaped copy | store, escape |
| curl multi interface | vendored, `synapi/deps/curl/lib/multi.c` | attached easy handles and their state, message list | add, perform, info_read, remove, cleanup |
| Query builder | `synapi_build_query_string()` | a 2048-byte buffer | append parameters |
| SourceMod extension | `sourcemod/public/synapi/extension.cpp` | `g_synapi.handle` | natives, `GameFrame` hook |
| SourceMod plugin | `sourcemod/public/synapi/synapi.sp` | the key in the configuration file, players on the server | plugin start and end, timers, client and game events |
| Global chat plugin | `sourcemod/public/synapi/global_chat.sp` | | chat commands over an XMPP extension |
| Sample | `synapi/samples/test/main.c` | | one run of the library |
| Worker thread | `sourcemod/core/thread/ThreadWorker.cpp`, `BaseWorker.cpp`, `PosixThreads.cpp` | `m_state`, `m_Waiting`, `m_FlushType`, `m_ThreadQueue`, two locks, two event signals | `Start`, `Stop`, `Pause`, `Unpause`, `MakeThread`, `RunThread`, `RunFrame` |
| Database manager | `sourcemod/core/Database.cpp`, `smn_database.cpp` | operation queues, think queue, drivers and which of them are safe, default driver, confs | `AddToThreadQueue`, the worker's callbacks, `RunFrame`, drivers added and removed, owners unloaded, shutdown |
| Timers | `sourcemod/core/TimerSys.cpp`, `smn_timers.cpp` | two lists of timers, a stack of free structs, the clocks | create, kill, fire, `GameFrame`, `RunFrame`, map change |
| Handles | `sourcemod/core/HandleSys.cpp`, `ShareSys.cpp` | the vector, its free stack, the serial, types, chains of owners | create, clone, free, identities, types |

How they interact: the plugin calls natives of the extension from game events
and timers; each native calls a request function of the library. The extension
calls `synapi_perform()` once per game frame. `synapi_perform()` hands at most
one queued request to curl, lets curl work every fifth frame or when a socket is
ready, and reaps at most one finished transfer. Inside curl's work the answer to
a registration comes back through the write callback `synapi_api_key_write()`,
which stores it as the key. Ordinary requests need the key in their URL and wait
in `requests[]` until `api_key_set` is 1.

The library is single-threaded; the hard part is that the network is not. An
answer arrives in pieces between frames, transfers end in any order, at any time
and sometimes never, new registrations are sent while old ones are on their way,
and two fixed-size arrays take whatever the game produces.

In the SourceMod parts the database manager shares queues with one worker thread,
which it kills and starts again around every change it makes without a lock;
timers and handles live on the game thread alone, but their callbacks call back
into them while a list is being walked or a handle is being destroyed. The hazards
are listed with their lines in `PROJECT.json`.

What makes each part correct: the engine sends each request at most once, only with
a key that was earned, and loses one only when more are under way than there are
slots; the plugin uses only a live handle and never loses a stored key; the worker
runs the jobs it accepted once and in order; the manager lets no operation outlive
its owner or run beside an unlocked walk; a timer ends once, in time, and never
after it was killed; an object is destroyed once, when its last handle is gone.

## Modules

| Module | What it is |
| --- | --- |
| `ApiKey` | What `synapi_api_key()` stores for given bytes and what `curl_escape()` makes of it: pure operators. |
| `CurlMulti` | curl's multi interface as far as the library drives it, and the network behind it: the operators `Synapi` is composed from. |
| `Synapi` | The request engine on top of `ApiKey` and `CurlMulti`, and its properties. |
| `RequestBox` | Abstract specification: a bounded box of requests behind a gate. |
| `SynapiBox` | The refinement mapping from `Synapi` to `RequestBox`. |
| `SynapiProofs` | Theorems about `Synapi`, the refinement of `RequestBox` included, checked by TLAPS. |
| `SynapiQuery`, `SynapiQueryProofs` | The query builder over lengths, and the theorems about it and about the key storage in `MCText`. |
| `SynapiPlugin`, `SynapiPluginProofs` | The extension and the plugin with the game server around them, and the theorems about them. |
| `ThreadWorker`, `ThreadWorkerProofs` | The worker and the thread that owns it, and the theorems about their handshake. |
| `Sublists`, `SublistProofs` | Taking elements out of a list or queue (SourceHook's containers, external), and the list lemmas that the modules below need. |
| `DBManager`, `DBManagerProofs` | The threaded database operations, composed with `ThreadWorker`, and the theorems about them. |
| `TimerSystem`, `TimerSystemProofs` | The timers and their reentrant callbacks, and the theorems about them. |
| `HandleSystem`, `HandleSystemProofs` | Handles, clones, identities and types, and the theorems about them. |
| `MCSynapi`, `MCPlugin`, `MCTimers` | Instances for TLC; the first two also hold a statement of a comment or doc that does not hold. |
| `MCText` | The query builder and the key storage for TLC in one instance, with the properties of the key storage. |

### Synapi and the code

A request is known by the number of the call that submitted it; that number also
stands for the `synapi_request_t` and later the `synapi_curl_handle_t` allocated
for it. `log` keeps what each call asked for. `requests` and `pool` are the two
slot arrays, `NULL` for an empty slot; "first" in a guard is the code's scan from
index 0. `multi`, `xfer` and `msglist` are curl's attached handles, their states
(`INIT`, anything between connecting and done, `MSGSENT`) and the list
`curl_multi_info_read()` pops. `heap` is what has been allocated for the calls:
request structs (with their query), header lists, curl handles. `url`, `dropped`
and `log` are history.

`synapi_perform()` is four steps, because the network can act between them:

1. `PerformSend`, `PerformSkip`, `PerformNoHandle` (lines 147 to 158),
2. `PerformTimeout`, `PerformReady`: `select()` and the counter (160 to 211),
3. one step per attached handle for `curl_multi_perform()`: `Drive` (connecting,
   waiting, already finished), `synapi_api_key_write` or `KeyOverrun` (bytes of a
   registration's answer), then `DriveDone`,
4. `PerformReap`, `PerformNoMessage` and the scan over the pool (213 to 228), one step
   per value of its loop variable: `ScanNext` (another handle's slot, or an empty one),
   `ScanFound` (the handle is detached and freed) and `ScanOver`. The variable `i` is the
   global of the code, which `synapi_free_curl_handle()` runs over the pool as well
   (`AfterFreeLoop`). Freeing the handle frees the message that was read for it, and a
   slot in use that is compared with it after that is the fault `freed_message`.

The application's calls happen only between frames (phase `game`).

Undefined behaviour ends the run in a `fault`. `no_free_handle` is the end of
`synapi_get_curl_handle()` without a return value. `key_overrun` is the
terminator written at `api_key[256]`: on a little-endian machine it clears the
low byte of the pointer `encoded_api_key` behind the array, and the `free()` that
follows gets a wrong address unless the pointer was NULL or ended in a zero byte
already; the model therefore allows both outcomes when a key was set before and
only the harmless one when none was.

Abstractions. The order in which one drive visits the handles is left open (curl
uses the order of attachment); nothing here depends on it. What curl does between
`INIT` and the answer is one state, `active`. The body of an ordinary answer is
ignored, as the library ignores it. `select()` reports a socket only if some
transfer has been driven before, and may always time out or fail. The base URL
is the one set right after `synapi_init()`, as in the extension and the sample.
curl hands one read to the write callback in one call; an answer with chunked
encoding may come in several calls of one drive, which is the same as several
pieces for the library. A connection that curl retries is one that takes longer.

### SynapiPlugin and the code

`handle` is `g_synapi.handle`: `NULL` or the number of the `synapi_init()` that
returned it; `freed` are those `synapi_free()` was called on. The library behind
the handle is its key and whether a registration is on its way; a frame may
deliver (a piece of) its answer or its end. `file` is the configuration file:
missing, holding `"none"`, an empty string, or the first characters of a key.
`clients` gives the user id of every connected client, `admitted` those for which
`OnClientPostAdminCheck` was signalled. `made` lists the requests the plugin made,
with the id it used and, as history, the client it was about. `issued` is the
history of keys the service gave.

Each callback of the plugin is one action with every native it calls:
`OnPluginStart` (with `find_api_key`, `synapi_init` and `synapi_new_server`),
`OnPluginEnd` (with `store_api_key` and `synapi_free`), `UpdateServer` (also the
heartbeat timer and `OnMapStart`, which differ only in the values they send),
`OnClientPostAdminCheck`, `OnClientDisconnect`, `Event_Player` (both events). The
environment is `ClientConnect` and `Crash`. A use of a missing or freed handle ends
the run with a `fault`. A key is known by an id and its length, because the
extension cuts it to 253 characters on its way to the file (`StoredLen`). Whether
KeyValues keeps an empty string is not decided by this repository: both are allowed.

### SynapiQuery and the code

One step per option of `synapi_build_query_string()` and one for the method and the
copy. `buffer_size` is the code's count, `len` the real length of the string, and
`whole` (history) the length of everything the caller asked for. A negative limit of
`strncat()` is no limit, as the conversion to `size_t` makes it, and the limit of the
separator is computed from the size of the pointer, as in the code.

### ThreadWorker and the code

A step is a critical section of `m_StateLock` or `m_QueueLock`, or an access outside
both. `pc` is where `RunThread()` is: `check` (reads the state), `count` (looks at the
queue and announces that it waits), `towait` (has released the lock and does not wait
yet), `asleep`, `woken`, `recheck`, `topause`, `paused`, `frame`, `job`, `flush`, `exit`,
`done`. `caller` is where the owner is in `Unpause()` or `Stop()`, between setting the
state and signalling, and in the join. A signal has no predicate: it moves a thread
that waits at that moment and is otherwise lost; `SpuriousWakeup` may end any wait.
`Unpause()` signals both events; both at once differ from one only by a wakeup that
`SpuriousWakeup` allows anyway. `made`, `ran` and `cancelled` are history.

### DBManager and the code

Operation n is the n-th that `AddToThreadQueue()` accepted; accepting it (under
`m_pQueueLock`) and making its job are two steps, as are a job's taking an operation
and its putting it into the think queue. The handlers that begin by killing the worker
(`RemoveDriver`, `OnPluginUnloaded`, `OnSourceModIdentityDropped`,
`OnSourceModShutdown`) are one `Enter` each, the worker's own steps until the join is
over, and a second part that walks the queue. The operations they take out are then
thought one by one (`ThinkNext`, `ThinkDone`), and between the two the plugin's function
may add operations, connect, or register a driver (`InThink`). `AddDriver()` likewise
kills first and registers after the join.

### TimerSystem and the code

Calls that have not returned are a stack of frames: which call (`single` and `loop` are
the two loops of `RunFrame()`; `fire`, `kill`, `sweep`), on which timer, and whether it
is inside `OnTimer()`, inside `OnTimerEnd()` or between callbacks. What a callback may
do is what plugins can do there: in `OnTimer()` create, kill and fire timers; in
`OnTimerEnd()` the same, through the data handle it closes (`smn_timers.cpp:151-153`):
the handle may be another timer's, and if it is a menu's its end calls the plugin, also
in the middle of a map change. `RunFrame()`'s iterator is the
timer it points to, and it moves on after the callbacks have returned, as in the code.
Game time is counted in units of the accuracy; a frame that does not simulate, and the
first one of a map, advance time by one unit. `ended`, `thought`, `fresh` and `born` (what
was created during the map change under way) are history.

### HandleSystem and the code

`m_Handles` is the vector, with the fields of `QHandle` the code uses to decide; an
identity's own handle holds head and tail of its chain in `ch_prev` and `ch_next`. Links
of index 0 are written by the code and never read. The stack holds the calls that wait
for an `OnHandleDestroy()`: the freeing of a master, the release of an identity, and
`RemoveType()` with its place in the vector. `OnHandleDestroy()` may create, clone and
free handles of any kind, its own included: a timer's closes the plugin's data handle, a
TopMenu's calls the plugin (`smn_topmenus.cpp:145-153`). Identities and types come and go
outside of it; this is assumed of the plugin manager, which is not modelled. The owner of
a clone or of a freed master may be a token that was deleted; what `IdentityHandle()`
reads there may find nothing or, if the memory was used again, any living identity.

`mangled` records the three ways in which the code loses its own books, after which
nothing is claimed:

- a second unlink of a master has written over other handles' links;
- `MakePrimHandle()` has given out the index of a master to which clones still refer. This
  takes `RemoveType()`: it takes a reference from every handle of the type, from a master
  that was already freed as well (`HandleSys.cpp:898`), so it destroys and releases such a
  master while a clone further on still refers to it, and an `OnHandleDestroy()` that makes
  a handle of another type in between may get that index;
- an `OnHandleDestroy()` has cloned what is being destroyed, or freed a clone of it
  (`BeyondUse`). `FreeHandle()` ignores a handle that is being destroyed; `CloneHandle()`
  (`HandleSys.cpp:589-621`) and the freeing of a clone (642-648) do not ask. A clone made
  then and freed takes the count from 0 to 1 and back, so the object is destroyed and its
  master released a second time; one that is kept reads an object that is gone. During
  `RemoveType()` the same goes for a master whose references it has already taken, and
  for the cloning of any handle of its type: the clone may get an index that
  `RemoveType()` has passed, and then stays.

`crashed` is a call through the dispatch of a
removed type, where a run ends. Reading is in the properties: a value reads if its index is
in use under its serial. `MaxDepth` bounds the calls inside each other; the code's bound is
the machine's stack.

## Runs

Bounds common to the engine runs: two slots, so that "first free" and "full" are
both more than trivial, and three calls, one more than the slots, so that each
array overflows and a slot is used again. The key array has 3 bytes instead of
256; answers of 2 and 3 bytes cover a key that fits, one that arrives in parts,
one with a line end and one of exactly the array's size.

| Run | What it shows |
| --- | --- |
| `engine` | `TypeOK`, `SlotsExclusive`, `MultiMirrorsPool`, `HeapExact`, `ScanReapsOnce` (the scan for a message's handle finds it, and looks at the message no more once that is freed), `KeysEarned`, `OverloadOnly`, `DrainedMeansDone` in every interleaving, drive period 2; and `ImplementsBox`: `Synapi` implements `RequestBox` (at most once, only through the open gate, refused only when full). |
| `live` | `SentIsStarted`, `AnsweredIsReaped`, `QueueDrains` and `BodyOpensGate` (an answer with a body opens the gate) with the drive period 5 of the code. |
| `text` | `QueryWhole` (a query that fits is whole and correctly separated), `CutFits` (no option added below the limit ends past the buffer, however long it is and however many came before); `RestartKeepsKey` (a stored key is stored unchanged again) for every string up to one byte longer than the array of 4. |
| `plugin` | `FileKeyIssued`, `StoredKeySticks`, `NativesUseLiveHandle`, `OneLiveHandle`, `NoGhostPlayers`. |
| `worker` | `WorkerInv` (types; no job lost, run twice or overtaken; no thread behind a stopped worker), `FlushRunsAll`, `NextJobWakes`, and `HangsOnlyAsleep`: a caller of `Stop()` or a job waits in vain only for a worker that sleeps. |
| `db` | `DBInv` (types; each operation in one place; as many jobs as operations that wait), `PriorityKeepsOrder`, `GoneOwnsNothing`, `DriversKnown`, `WorkerApart`. |
| `timers` | `TimerInv` (types; each struct in one list; iterators valid; ended once), `NoneLate`, `KilledNeverFires`, `TimeForward`, `SweepExact`. |
| `handles` | `HandleInv` (types; free stack exact; reference counts exact; types' counts exact), `ChainsUntilMangled`, `DestroyedWhenUnused`, `StaleNeverReads`. |

Bounds of `plugin`: two clients and two user ids, so that an index is used again
and index and user id differ; keys of two ids and of lengths 2 and 3 with
`StoredLen` 2, one that fits and one that is cut; three starts, so that a key is
stored, found and stored again; three requests. Bounds of the query in `text`: a buffer
of 16, attributes of 2 and 3 and values of 0 to 2 characters, so that up to five options
fit, fit exactly or exceed the buffer by one, and a value of 20 that exceeds it alone.
The longest query of the plugin has about 1200 of the 2048 characters.

`worker` has three jobs and two per frame, so that a frame ends with the queue empty and
with jobs left; starts, stops and pauses are not bounded. `db` has two operations of two
priorities, two drivers of which one is the default, and one owner of each sort: an
operation can overtake, wait in the think queue while the other is in the worker, and
belong to what is being unloaded while its think part adds another. `timers` has two
structs and calls three deep: every open callback belongs to another timer, so two structs
can have at most two callbacks open below a frame or a map change, and the depth cuts off
nothing; a struct is killed, freed and created again behind the iterator and on
the list of a map change. Intervals of 1 and 3 and a time up to 4 give timers that are due
in different frames, and frames that simulate (`time` moves with the game's clock) as well
as frames that do not. `handles` has five handles, so that
a master with a clone has neighbours in its chain, an identity of each of two tokens
included; serials wrap around after three, within the five handles that are made. It
stops at a state whose chains are mangled (`Intact`). One type is enough for all that is
checked there but the index that is given out while clones refer to it, which needs a second
one to make a handle of while the first is removed; the proofs cover any number. `timers` and
`handles` do not check
deadlock: time, structs and handles that are made are bounded, and a run that has used
them up stops.

Four runs show statements of the repository that the code does not live up to:

| Run | Statement | What happens |
| --- | --- | --- |
| `partial_key` | `synapi.c:234` | The first part of an answer opens the gate; the next frame puts it into a URL. |
| `freed_frame` | `synapi.inc:23` | The frame after `OnPluginEnd()` performs on the freed handle. |
| `db_kill` | `Database.cpp:308` | The worker announces that it waits and releases the lock; `Stop()` signals before it waits; the game thread joins a thread nobody wakes. The state tested in between (`ThreadWorker.cpp:113`) is the old copy, so the stop is not seen. |
| `unload` | `HandleSys.cpp:810` | A master freed before its clone is unlinked twice; its former neighbours fall out of the chain and survive their plugin. |

Other things a reader of the code meets, seen while modelling and not runs of
their own:

- a frame sends a queued request whether or not the pool has a free slot
  (`synapi.c:147`), and `synapi_get_curl_handle()` then ends without a return value
  (`synapi.c:335`): `pool_size` unanswered transfers and one more request are enough,
  and `OverloadOnly` says that nothing less is;
- requests overtake each other: a DELETE in a freed low slot (`synapi.c:294`) goes
  before the POST of the same player, unlike the sequence in `FLOW`;
- `synapi_free()` (`synapi.c:87`) leaves header lists and queued requests allocated,
  although `synapi.inc:23` says it frees what is used;
- players are announced under the client index and updated under the user id
  (`synapi.sp:152`), which `FLOW:28` and `FLOW:39` treat as one;
- `synapi_queued()` counts no transfer while there is no key, so a registration on its
  way is not pending; the line end stays in the stored key; a key earned since the
  plugin's start is lost in a crash;
- stopping a paused worker calls `Unpause()`, which returns at once: the worker is not
  signalled. `HangsOnlyAsleep` allows exactly the sleeping worker, so it permits this hang
  and the lost stop that `db_kill` shows, and excludes any other;
- `RemoveDriver()` leaves `m_pDefault` on the removed driver (`Database.cpp:335`;
  `DriversKnown` excepts it), and `SQL_TConnect()` queues an operation for a driver that
  is not thread-safe;
- a timer with `TIMER_FLAG_NO_MAPCHANGE` that an `OnTimerEnd()` creates during a map
  change survives it; and a timer created there in the struct of a killed one that still
  is on `s_tokill` is killed although it did not ask for it (`TimerSys.cpp:398-427`;
  `SweepExact` excepts what is created meanwhile);
- a plugin's function that is called while its TopMenu is destroyed
  (`extensions/topmenus/TopMenu.cpp:59-74`) can clone the menu's handle: closing the clone
  destroys the menu a second time and puts its index on the free stack twice, keeping it
  leaves a handle that reads a deleted object (the third case of `mangled`);
- an answer of exactly 256 bytes has its terminator written at `api_key[256]`
  (`synapi.c:59`; fault `key_overrun`);
- what is added to a query that has already filled its buffer is written past its end,
  the separator because its limit has wrapped around and the attribute because its limit
  is -1 (`synapi.c:376`, `428`; `CutFits` is about everything up to there, and the
  plugin's queries stay below);
- in `smn_timers.cpp:216-228` a timer's information is cleared before the timer is
  killed, and `OnTimerEnd()` reads it;
- a handle of a type freed from `OnHandleDestroy()` while `RemoveType()` of that type runs is
  dispatched through NULL (`crashed`); `RemoveType()` does not set `is_destroying`;
  `owner_index` is read before `TryAndFreeSomeHandles()` and used after it
  (`HandleSys.cpp:293`, `345`).

Fairness. `FairSpec` assumes weak fairness of `synapi_perform()`'s steps only:
`GameFrame()` calls it on every frame and each call returns. Nothing is assumed of
the network: a transfer that never ends stays in the pool, as in the code, which
sets no timeout. `QueueDrains` is about an application that has stopped
submitting, because the code gives no more: one that refills a lower slot on every
frame starves a higher one. `BodyOpensGate` needs no more either: the answer is there,
and the frames take it in. `FairWorker` assumes weak fairness of each thread (both are
scheduled by the operating system, jobs end, and a call that has begun goes on), and
none of `SpuriousWakeup` or of further calls: a hang stays a hang unless a signal comes.
`FairSpec` of `DBManager` adds strong fairness of `ThinkFrame`: frames come again and
again between whatever else the game thread does.

The other models stop for good only in `Stopped` (after `synapi_free()` or a fault), in
`Over` (after SourceMod's shutdown) or, for the query, in `Done`, so those runs check
deadlock.

## Proofs

Every safety property of the runs that expect no violation is a theorem. TLAPS checks them
for every value of the constants that satisfies the assumptions below.

### The request engine

`SynapiProofs` proves, for every pool size, number of calls, workload, set of
answers, key size and drive period:

- `TypeCorrect` and `SlotsNeverShared`: `TypeOK` and `SlotsExclusive`. They are proved
  together. Typing the URL of a sent request needs that every slot holds a submitted
  call; that slots hold different calls needs the types of the arrays. One lemma per
  part of `TypeOK` (`ControlTypeStep` ... `KeyTypeStep`) and `SlotsExclusiveStep`, which
  rests on `SendMoves`: `synapi_send()` takes its call out of the queue and puts it into
  one free pool slot.
- `PoolAndHeapCorrect` and `PoolMirrorsCurl`: `MultiMirrorsPool` and `HeapExact`,
  together with `ScanInv` (below) inductive relative to the invariant above. The conjunct that no drive is in progress
  outside the drive phase is needed because `synapi_free()` and the reaping detach
  handles.
- `NoLossWithinPoolSize`: `OverloadOnly`. A scan that finds no free slot has seen
  them all in use (`ScanFindsFree`, from the least-element principle on the
  naturals); different calls in all slots, by the pigeonhole principle
  (`FullArrayBound`), are at least `pool_size` calls, and the one that does not fit
  is another.
- `ScanFreesOnce`: `ScanReapsOnce`. It needs `ScanInv`, which says where the scan is:
  while the message's handle is attached its slot lies at `i` or behind it, and once it
  is detached `i` is at `pool_size` or past it, because the freeing has moved it there.
  So a slot is compared with the message only while the message is there
  (`ScanNextSafe`); no other step sets that fault (`OtherFaults`).
- `KeysAlwaysEarned`: `KeysEarned`. Not inductive: an answer's bytes are a key only if
  the call was a registration, so `EngineInv` adds `BodiesRegister` (only a registration
  has a body, and no more of it was read than has arrived) to the invariants above. A
  fragment of an answer counts as earned here, and as issued in `FileKeyIssued`; that
  one can be used is what the run `partial_key` shows.
  `ReadPartStays` is the reason that a key once earned stays earned: later bytes do not
  change what was read.
- `DrainIsComplete`: `DrainedMeansDone`, from `MultiMirrorsPool` and the count that
  `synapi_queued()` returns.
- `EngineImplementsBox`: `Spec => ImplementsBox`, the implication the run `engine` checks
  as a property.

In the refinement, what the box sees of a call is its status (`StatusOf`); each action
changes the status of one call in a way the box allows, and of no other (`OthersStay`),
or of none. The abstract box has no registration behind its gate, so `QueuedOrdinary` is
needed: no registration is ever in `requests[]`, because `synapi_queue()` sends it at
once.

### The query builder and the key storage

`SynapiQueryProofs` proves

- `QueryCorrect` and `AppendsCutAtEnd`: `QueryTypeOK`, `QueryWhole` and `CutFits` for every
  buffer, number of options and lengths. `QueryWhole` alone is not inductive:
  `Separated` adds how far the count is once an option was added (past the size of a
  pointer, so that the separator's limit wraps around and the separator is kept) and
  where it stands before the first one. It rests on two lemmas about
  `synapi_add_parameter()`: what it leaves in general (`AddedBounds`) and when both
  strings fit (`AddedWhole`). `CutFits` rests on `Behind`: the string is shorter than the
  count until the count says that the buffer is full, whatever was cut before
  (`AddedCut`); from then on the count stays there (`AddedFull`).
- `RestartStoresSameKey`: `RestartKeepsKey` of `MCText`, for byte strings of any length and
  every array size.
  What `synapi_api_key()` leaves is `Settled` (it fits, has no terminator inside and no
  end of line before its last byte), and it leaves a settled key as it is.

### The plugin and the extension

`SynapiPluginProofs` proves, for any number of clients, keys, starts and crashes:

- `PluginTypeCorrect`: `PluginTypeOK`, one lemma for the callbacks that only make
  requests and one case per other action;
- `HandleCorrect` and `OneHandleAtATime`: `NativesUseLiveHandle` and `OneLiveHandle`,
  from `HandleInv`: a loaded plugin has a live handle, and without a loaded plugin all
  handles are freed;
- `StoredKeyIsIssued` and `StoredKeyKept`: `FileKeyIssued` and `StoredKeySticks`, from
  `KeyInv`: a plugin that runs with a stored key still has that key and no
  registration on its way. That a frame cannot deliver an answer between two loads
  is where `HandleInv` is needed, and that storing again changes nothing is `CutOnce`;
- `ReportsMatchServer`: `NoGhostPlayers`, from `ReportInv`, which adds that nothing was
  reported before the first start. A report changes only whether its own client counts
  as reported.

### The worker

`ThreadWorkerProofs` proves, for any number of jobs, any `m_perFrame`, lost signals and
spurious wakeups, from one invariant, `Handshake`:

- `NewJobWakes`: `NextJobWakes`. A worker that sleeps is announced (`Announced`), so
  `AddThreadToQueue()` always signals it.
- `FlushLosesNothing`: `FlushRunsAll`. A worker that leaves without being told to cancel
  has seen its queue empty (`Flushed`), and no job is accepted since it was stopped.
- `StoppedWorkerEnded`: `StoppedMeansEnded`, a part of `WorkerInv`.
- `WorkerCorrect`: all of `WorkerInv`, the order of jobs included, from `WorkerIInv`:
  the types, `Handshake`, `JobsInOrder` and `FrameRoom`, which says that a frame that
  holds a job has not used up its `m_perFrame` (the types need it).

None of them is inductive: `Leaving` ties the places at the end of `RunThread()` and
the worker's old copy of the state to a worker that is stopped and whose owner waits for
it, so that no job comes and no `Start()` reuses it before it has ended.

### Lists

The manager and the timers move numbered things between lists. `SublistProofs` says
what each list operator does in two terms only: which elements there are (`ToSet`) and
which stands before which (`Precedes`); a list has no element twice when none stands
before itself (`InjectiveIs`). `Keep()` is defined by recursion, and the prover has no
induction over data, so its lemma (`KeepIs`) goes the long way: the recursion has a
solution on every prefix, and a set of lengths at which the claim fails would have a
least element (`LeastOf`), at which it does not fail.

### The database manager

`DBManagerProofs` proves, for any number of plugins, extensions, drivers and operations:

- `OperationsConserved`: `DBInv`, so that each operation is in one place and the worker
  has a job for each one that waits;
- `PrioritiesInOrder`: `PriorityKeepsOrder`;
- `NothingOutlivesOwner`: `GoneOwnsNothing`;
- `DriversRegistered`: `DriversKnown`;
- `WorkerKeptApart`: `WorkerApart`.

All follow from one inductive invariant, `DBIInv`. Every step of the manager is a step
of the worker or leaves it alone (`WorkerSees`), so `WorkerIInv` holds of the worker
inside it and need not be proved again. The rest of `DBIInv` is
what the five need of each other: `GameControl` (while a handler is at its start or a
driver is being added, the worker is stopped, was told to flush and left no job behind),
`SubjectKnown` (the owner that is unloaded is refused before its think parts run),
`Purged` (and it has no operation left but those the handler took out; so
`GoneOwnsNothing` survives the end of the handler), `DriversIn` and `InTurn` (their
properties said of what stands in the lists). `JobsMatchOps` counts: the worker's jobs
and the operations that wait change by one together, through `Cardinality(Waiting)`.

### The timers

`TimerSystemProofs` proves, for any number of timer structs, any intervals and any depth
of calls inside calls:

- `TimersCorrect`: `TimerInv` (every struct in one list, iterators valid, each end
  signalled once);
- `NoCallAfterKill`: `KilledNeverFires`;
- `SweepKillsExactly`: `SweepExact`;
- `TimeNeverBack`: `TimeForward`;
- `NoSingleTimerLate`: `NoneLate`.

`TimerInv` is not inductive; `CallInv` is. It adds `FrameShape` (which calls can stand
where on the stack), `Marks` (a live timer is marked `m_InExec` exactly while one of its
callbacks is open, and a freed struct stays marked, so that it cannot be killed again),
`SweepState` (what is on `s_tokill` has the flag or is a struct that was freed and may
have been used again since; a live timer that has to go is on that list, is being ended,
or was created in the map change itself) and `ClockAhead`. From `Marks` no two open calls have the same timer (`OpenIs`, `TopIs`),
which is why the struct of a timer is not freed under an outer call that still holds it,
and why the iterator of `RunFrame()` survives the calls inside it.

`NoneLate` needs a second invariant, `LateOnlyAhead`: the single timers are sorted by due
time, and one that is late and was not created meanwhile is ahead of the place where
`RunFrame()` is. `RunFrame()` stops at the first timer that is not due; in a sorted list
none behind it is due either, so at that step nothing late is left. Inserting keeps the
list sorted (`InsertIs`).

### The handles

`HandleSystemProofs` proves, for any number of handles, serials, identities and types, and
any depth of calls inside `OnHandleDestroy()`:

- `HandleBooksCorrect`: `HandleInv` (free stack, reference counts, types' counts);
- `ChainsExact`: `ChainsUntilMangled`;
- `ObjectsDestroyedOnce`: `DestroyedWhenUnused`;
- `StaleValuesReadNothing`: `StaleNeverReads`;
- `UnloadComplete`: no handle in use has an owner that is gone, as long as nothing is
  mangled; the run `unload` shows that it is not so afterwards.

They follow from one inductive invariant, `AllInv` (theorem `HandlesSound`), in two parts.
`Base` holds in every state: the types, which calls can stand where on the stack (`Shape`:
`RemoveType()` is only ever the outermost one), and `Serials`, the distance between the
serials of two values made less than a round apart. `Sound` holds until something is
mangled, and so do the five properties: they are claimed for whatever an
`OnHandleDestroy()` creates, clones and frees, up to one that clones, or frees a clone of,
what is being destroyed. None of the properties is inductive; what they need of each other is

- `ClonesFit` and `Refs`: a clone refers to a master of its type that is not being
  destroyed (so a handle that is destroyed has no clones, and `BeyondUse` is all that
  `CloneHandle()` and `FreeHandle()` can do wrong here), and a master counts its clones and
  itself. While `RemoveType()` is under way the
  count of a master it has `Passed` is one less, and a master may be gone before its last
  clone with a count of 0 or less, so that the clone's step does not destroy it again;
- `Framed` and `Held`: the masters that are being destroyed are those of the frames on the
  stack, one frame each, so no call returns to a handle that was released under it;
- `Kinds`, `Counted` and `Identities`: what the handles of a type are, how many, and that
  two tokens have different handles;
- `Remembered`: the value of a handle in use is the last one given out for its index.
  With `Serials` this gives `StaleNeverReads`: an older value of that index with the same
  serial would be a whole round away;
- `Gone`: an object was destroyed exactly if its master is being destroyed or is gone, and
  never twice. With `ClonesFit` this gives `DestroyedWhenUnused`;
- `OwnerChains`. Here the work is in lemmas about one chain: what appending to its tail
  (`ChainLink`) and each of the four cases of `UnlinkHandleFromOwner()` do to it,
  when the links that are written belong to the chain's own identity and neighbours. A second
  unlink of a freed master either changes nothing or is what `mangled` says.

Each operation has a lemma `...Kept`, which says that it keeps `Sound`; the three that make a
handle share `MakeKept`. TLC checked `AllInv` itself on five handles of one type and on four
of two types before it was proved.

### Assumptions

On the constants: `PoolSize`, `KeySize` and `DrivePeriod` are positive, `NULL` is not a
call, answers and the initial key are byte strings; no ordinary request is a registration
or has its action (`WorkloadAssumption`: only `synapi_new_server()` makes requests with
`SYN_SERVERS_NEW`, and it is modelled by an action of its own); an attribute name is at
least as long as a pointer (`AttrAssumption`; the shortest has 20 characters); keys are
not empty, and the special contents of the file are not keys; `m_perFrame` is positive;
the owners of operations and the drivers are different objects, and none is `NULL`
(`NullOwnsNothing`); timer structs are numbered, and intervals and the bounds are naturals
(`TimerConstants`); there is at least one handle and one serial to give out
(`HandleConstants`), and `NULL` is neither a token nor a type. TLC evaluates all of them on the runs' instances.

### Only model-checked

`PluginTypeOK` and `QueryTypeOK` are proved and therefore not among the runs'
properties. Only model-checked are the liveness properties `SentIsStarted`, `AnsweredIsReaped`,
`QueueDrains`, `BodyOpensGate` and `HangsOnlyAsleep`: liveness under fairness is out of the
prover's reach.

## Not modelled, and what is left

Not modelled:

- the global chat plugin needs an extension outside the repository;
- libcurl beyond the multi interface as the library drives it, zlib, sqlite, mysql and
  the build trees are third-party code with projects of their own; they are most of the
  lines in the repository;
- the rest of SourceMod (menus, admins, forwards, plugin and extension managers, the
  SourcePawn compiler and virtual machine, the bundled extensions) is a vendored copy as
  well; the four parts above are those with threads, timeouts or reentrancy that an
  extension such as this one depends on;
- `synapi_build_url()` cutting a URL to its buffer, and a base URL changed later;
- of the database manager: the parser of `databases.cfg`, the handles of drivers and
  databases, natives that run on the game thread, and a thread that cannot be started;
- of the timers: the map time limit and the frame hooks that `GameFrame()` calls;
- of the handles: access rules, subtypes and names of types, and
  `TryAndFreeSomeHandles()`, which unloads a plugin when the vector is full.

Left to prove: nothing that a run checks and the prover can reach. Left to model, where the
project could go on: `TryAndFreeSomeHandles()` together with the plugin manager, since it is
the one way a handle's owner can go away while the handle is being made.
