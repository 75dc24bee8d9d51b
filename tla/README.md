# react-native-cache-video: TLA+ models, checks and proofs

react-native-cache-video caches HLS streams and media files for React Native video
players. A local HTTP server on the phone proxies the player's playlist and segment
requests to JavaScript, which serves them from disk or fetches, verifies and stores
them. This directory models the parts of it where order matters: the life of the server,
the React provider that drives it, the request handlers over the asynchronous file
system, the session and its native downloads, the registry with its eviction policies and
its document on disk, the sliding-window prefetch and the pre-cache queue. `PROJECT.json`
lists, for every definition, the source lines it stands for; paths below are relative to
the repository's `src/`.

## 1. Inventory

| Component | State | Operations | Talks to |
|---|---|---|---|
| **CacheManager, server side** (`ProxyCacheManager.ts`) | `_serverState`, `_enableCycle`, `_stoppedByBackground`, the module-level readiness store | `enableBridgeServer` (retry loop), `disableBridgeServer`, `reverseProxyURL`, `getServerState`, `subscribeServerState` | BridgeServer by promise; subscribers by callback |
| **BridgeServer / HttpProxy** (`Libs/httpProxy.ts`) | `isRunning`, `boundPort`, `starting`, `callbacks`, the one native-event subscription | `listen`, `startNative`, `stop`, `get`, dispatch of a request, `Response.send` | the native module by asynchronous calls, events back |
| **Native servers** (`CacheVideoHttpProxyModule.kt`, `Server.kt`, `CacheVideoHttpProxy.mm`) | the server instance, pending responses | `start`, `stop`, `respond`, `serve` | method queue, iOS main queue, request threads |
| **Provider** (`Hooks/useProxyCacheProvider.tsx`, `useIsForeground.ts`) | the kept manager, `isForeground` | mount, re-render, AppState change, effect and clean-up | CacheManager |
| **Request handlers** (`ProxyCacheManager.ts`) | `_memoryCache` (registry), `_lastHlsOwnerKey` | `addPlaylistHandler`, `addSegmentHandler` | session, file system, verified write |
| **Verified write** (`Libs/verifiedWrite.ts`, `pinGenerationGuard.ts`) | generation, downloading and pin counters per key | `writeTemp`, `verifyAndPromote`, `setDownloading`, `bumpGeneration`, `isEvictable` | file system, session |
| **File system** (`Libs/fileSystem.ts`) | final paths, `.part` temps | `write`, `read`, `readStream`, `moveFile`, `unlinkFile`, `clearDirectory`, `sweepOrphans` | - |
| **Removal and look-up** (`ProxyCacheManager.ts`) | the registry | `removeCachedVideo`, `clearCache`, `getCachedFileAsync`, `didEvictHandler` | all of the above |
| **Registry and policies** (`MemoryCacheProvider.ts`, `MemoryCacheLFU*.ts`) | the Map, `referenceBit`, `isEvicting` | `get`, `put`, `syncCache`, `load`, `clear`, `onEvict` | `didEvictHandler` |
| **Session** (`Libs/session.ts`) | `downloadingList`, `prefetchUrls` | `dataTask`, `cancelTask`, `cancelAllTask`, `isBusy`, `markPrefetch` | the network |
| **PrefetchWindow** (`Provider/PrefetchWindow.ts`) | `items`, `draining`, `segmentCount`, the poll timer | `setActiveWindow`, `drain`, `prefetchHlsAsset` | session, verified write |
| **PreCacheProvider** (`Provider/PreCacheProvider.ts`) | `preCachingList`, `isRunningThread`, `cachingUrl` | `preCacheForList`, `runCacheFromCDN`, `prepareSourceMedia` | session, file system |
| **Android transport** (`CacheVideoHttpProxyModule.kt`) | the map of calls | `downloadToFile`, `cancelDownload` | OkHttp, the session |
| Keys and rewriting (`Utils/*`), hooks, examples, tests | none that lasts | pure functions, React wrappers | - |

What makes it hard: JavaScript is one thread, but every `await` lets any other handler,
effect or application call in; the native side runs beside it and answers late; on iOS
`start` and `stop` are not even executed in the order they were called; the file system
has no transactions; and the bookkeeping (owner of a segment, downloading counters, one
session entry per URL) is shared by handlers that do not know of each other. Nothing but
files and a registry document survives a restart.

What makes each part correct:

- *server*: `ready` names a live proxy, `failed` leaves nothing behind, retries are fresh
  and bounded, a superseded cycle publishes nothing, every cycle ends;
- *provider*: background means stopped, foreground means served or failed;
- *handlers*: a final path only ever holds a whole verified body, bytes are counted once,
  no file is forgotten on disk, every request gets one answer, what was removed does not
  come back, what is in flight is not evicted, error pages are not cached;
- *prefetch*: the queue is sorted and free of duplicates, marks agree with the runner, the
  runner yields to the player, always ends, and leaves no wanted item behind;
- *policies*: a look-up keeps what it looks up, and each run of the loop ends - fitting, or
  for a reason the code names - and frees its mutex;
- *persistence*: a whole document survives a restart, a load takes nothing away, a sweep
  deletes nothing that is registered;
- *pre-cache queue*: final paths hold whole files, no temp is left behind, runners do not
  download one URL twice at once, the list is worked off;
- *dispatch*: a server in use is listened to, every answer is waited for, every GET ends;
- *session*: entries, marks and `isBusy` agree with what is in flight, and every cancelled
  download comes back to its caller.

`PROJECT.json` "hazards" lists where each of these can go wrong and which property
watches it.

## 2. Modules

```
ServerReadiness          abstract: what the readiness API promises
   ^ implemented by
BridgeLifecycle          CacheManager + BridgeServer + native start/stop
   ^ EXTENDS
ProviderLifecycle        the React provider over it
   ^ EXTENDS
LifecycleProofs (TLAPS)  theorems about both

AssetCache               request handlers + verified write + removal + eviction
EvictionPolicy           registry + the three policies, one turn of the loop at a time
RegistryPersistence      registry document, its writers and readers, kills and restarts
PrefetchWindow           sliding window + session    <- MCPrefetchWindow (constants)
PreCacheQueue            pre-cache list, its runners, the download of a media file
                                                     <- MCPreCacheQueue (constants)
RequestDispatch          requests through both native servers and the bridge's callbacks
SessionTasks             session + Android download transport
```

`AssetCacheProofs`, `EvictionPolicyProofs`, `RegistryPersistenceProofs`,
`PrefetchWindowProofs`, `PreCacheQueueProofs`, `RequestDispatchProofs` and
`SessionTasksProofs` each extend the module they are named after.

### BridgeLifecycle

JavaScript runs one task at a time: an application call (`Enable`, `Disable`) or the
delivery of one native result (`Settle`). What a promise resumes is `Continue`, a
microtask that runs before the next task. Calls into native cross in order (`moduleQ`);
`NativeStart` binds at once on Android; on iOS it hands its body to the main queue
(`MainQueueBind`) while `NativeStop` runs at once. `Bind` lets a
port be free or taken. `Listen` is `BridgeServer.listen` with its four outcomes: already
running, joining the start in flight, refused, started. `Continue` is the rest of
`enableBridgeServer` after its `await`: stale, ready, retry on a fresh port, failed.
`calls` keeps each enable call's locals; native starts are named by call and attempt.

Bounds: `MaxCycle` (enables plus disables), three ports for `MAX_START_RETRIES` = 3, and
one port `listen` refuses. Three cycles are enough for a start of one cycle to settle into
the next but one, the longest reach of a stale result; three ports are the fewest on which
all retries can be fresh.

### ServerReadiness

What a reader of `getServerState` may rely on: a cycle opens, makes at most `MaxRetries`
attempts and closes as ready, as failed with its attempts spent, or by a stop.
`BridgeLifecycle` maps `serverState` to `state` and the length of the latest call's
`tried` to `attempts`.

### ProviderLifecycle

Extends `BridgeLifecycle`: the `[isForeground]` effect and its clean-up (`Commit`),
AppState changes, unmounting, and re-renders. `ConstructAgain` is the `new CacheManager`
that every render evaluates: in dev mode its `BridgeServer` constructor stops the instance
on record. `MaxPending` bounds the stops re-renders may queue. Five cycles are enough for
two changes of the app state (a clean-up and an effect each) around the first enable.

### AssetCache

A job is one run of `addPlaylistHandler` or `addSegmentHandler`; its `phase` is the await
it is at. Between two steps everything else may happen: other jobs, for the same path too,
`Evict` (one candidate of `LFUSizePolicy.onEvict`), `Remove`, `Clear` and `Wipe`, look-ups,
and unlinks one file at a time. A file-system call and the code that follows its await are
one step, with two exceptions where the code acts on an answer that may be stale by then:
`moveFile` (`Authorise`, `ClearFinal`, `Move`) and the look-ups. `looking` has each
`getCachedFileAsync` - by the application, or inside `removeCachedVideo` - and each check
of `preCacheForList` at the await it is at, or with the answer it has (`EntryStat`,
`FinalStat`, `TempStat`, `UnlinkTemp`, then `LookupEnds`).

A path holds the job that last opened it for writing, so a partial file is a path whose job
has not all of its body. `MayFit` and `MayMisfit` are what the size comparison can find: a
segment's temp is measured against the origin's length, a playlist's against that of the
body received, so a playlist cut short passes. `registry` has an entry's kind, segments and
bytes (in units: one for the playlist, one for each segment), `generation` and `downloading`
are the guard's counters. `alone` is history that no step reads: whether another request for
its path has been in flight beside a job. Two such requests share one temp file, and the
code does nothing against it; `VerifiedOnDisk` excepts them, and only them, and a finding
tells what they do.

Bounds: one asset with one segment, whose playlist a former session left on disk (`Left`);
three requests, two of them in flight at a time (`MaxAtOnce`), and one operation. One key
is enough for the properties checked, which all speak of one asset; two requests at a time
are a playlist beside a segment, or a pair for one path, and a third comes over what they
left. One operation is one eviction, removal, wipe or look-up at any point of all that.
The theorems have no such bounds.

Abstracted: the answer's body and headers, ranges (a range is another path),
`_segmentTotalLengths` (whether a total is known is a choice of `Move`), a discard whose
unlink fails and leaves the temp, the other writers of these paths (PrefetchWindow and
PreCacheProvider), and the eviction policy's choice (`Evict` takes any evictable
asset, a superset of the choices the policy makes).

### EvictionPolicy

`MemoryCacheProvider` (`get`, `put`, `syncCache`, `load`, `clear`) over one of the three
policies. `loop` is a run of `LFUSizePolicy.onEvict`, which takes one candidate a step
(`SkipStale`, `SkipBusy`, `Evict`) and awaits the unlinks of its victim (`Unlinked`,
`UnlinkRejects`); `totalSize` is the total it goes on with. `pending` is the callback whose
rest is still to run, and `Idle` makes a callback atomic: between its steps nothing else
moves. `held` is the Map a run goes on with after `load` or `clear` has replaced it.
`busy` is what `isEvictable` refuses, pinned or downloading; `Hold` changes it at any time.
`asks` are the look-ups of `getCachedFileAsync` at their await: what its answer does to the
registry it does to whatever entry there is by then (`Kept`, `Missing`, `Found`), and a
removal has a turn of its own after it (`GoOn`). `AppendSegment` is
`registerSegmentUnderOwner`, which gives a segment to its owner or, if that has gone or is
no playlist, to nobody; `Signal` is `onCachingPlaylistSource` over whatever entry there is.
`LFUPolicy` evicts inside `get` or `put` and awaits nothing. Files are not followed here:
whether one is left without an entry is AssetCache's question.

Bounds: three assets of at most one byte, a capacity of one (bytes or entries), counts up to
one, `MinEntries` one (two in the code) and `MaxCandidates` two (ten), three operations, one
look-up of a kind per asset: enough for a run to fit, to reach each of the two limits, to
skip a busy and a stale candidate, and to be overtaken at its await by an ingest, a look-up,
a removal, a reload or a wipe. With the code's own limits the loop would need a dozen assets
to reach them.

Abstracted: the order of touches, so that among equal counts, and in the fallback, any
eligible entry may be the victim.

### RegistryPersistence

The document is missing, of an older version, torn or current. `saveCacheToStorage`'s
writes and `loadCacheFromStorage`'s reads are awaited by nobody, so both are sets of calls
in flight (`writes`, `loads`): a write cuts the file before it completes it, and a load
reads, then merges, or over an older document lists the cache folder and unlinks one file
a step (`SweepLists`, `SweepUnlinks`). `Launch`, `Background`, `Foreground`,
`ChangePolicy` and `Kill` are the provider's effects and the platform; `Ingest`, removals,
`clearCache` and the platform's purges of the cache folder change registry and files
beside them. An unmount does what a change of policy does. `saved` and `owed` are history:
what a whole document is known to hold, and what of it the registry owes since launch.

Bounds: two assets, four events, two writes and two loads in flight (a launch makes two).
An asset's files count as one, and `_segmentTotalLengths` as a set.

### PreCacheQueue

`preCacheForList` filters a page by what is on disk (`pages`), `runThread` takes the
semaphore and starts a runner, and `runCacheFromCDN` recurses without await: `runners` are
the calls that await something, of which the one that `held` the semaphore may free it.
A task is `prepareSourceMedia` at one of its awaits: download, stat, unlink, rename.
`asks` are `getCachedFileAsync` and `removeCachedVideo` calls, which delete temps and files
under the downloads. The list and `cachingUrl` know a URL by its href; its path and its
registry key are `FileOf` it, since `CacheKeyPolicy` derives both from one identity that
drops scheme, fragment and signing parameters: two URLs may share a file, and its temp. A
file is missing, a part, whole, or of full length with a hole: what a second writer of the
same temp leaves. `shared`, `loosened` and `threw` are history: a file downloaded twice at
once, a way past the guard that `cachingUrl` is, and a malformed URL. A filtered list is
given by which positions of the old one it keeps, in order (`Kept`), and a page keeps what
is neither on disk nor listed (`NewUrls`).

Bounds (`MCPreCacheQueue`): two URLs of one media file that differ in their signature, a
stream, a malformed URL, four pages of them, three calls, two tasks and two runners at once.
`Encoded`, the URLs whose key in `cachingUrl` differs from the one looked up, is empty in the
run; such a URL only gets past the guard more easily. A stream's prefetch is one step of the
runner, as its inside is PrefetchWindow's.

Abstracted: a second decoding is taken to leave a URL as it is, and failed unlinks of a temp
that is there are left out.

### RequestDispatch

`Arrive` is a request on either platform; `Deliver` its event in JavaScript, where every
callback registered since the first enable runs its own handler (`pending` counts them);
`Send` a handler's answer; the native calls run in order (`AndroidStart`, `AndroidRespond`,
`NativeStop`, and on iOS `IosDispatchStart`, `IosStart` and `IosRespond`). On Android
`serve()` is a thread that waits until `responses` has its answer (`Serve`), or answers a
GET itself, with a 500, when it cannot put the request into an event (`Refuse`).

Bounds: two requests, three enables, two disables: a request may be answered by three
handlers, by the server instance after its own, or by none.

Abstracted: starts succeed and their results come back in time (`BridgeLifecycle` has the
rest), `Server.kt`'s unsynchronised `HashMap` is taken to behave as a map, and what a
handler answers is `AssetCache`'s.

### SessionTasks

A download goes from `dataTask` (`Download`) to a queued native call, is `tracked` while
OkHttp runs it, and ends for JavaScript in two continuations, `dataTask`'s own `finally`
and its caller's, in either order. `CancelTask` and `CancelAllTask` abort through
`downloadingList`; `Native` runs the native calls in order, so a cancel finds its download
queued, running or ended. `shared` is history: URLs with two downloads in flight at once.

Bounds: two URLs, three downloads, one cancel (of one or of all): two downloads of one URL
beside one of another. Requests that go through react-native-blob-util are taken to behave
like the Android transport's.

### PrefetchWindow

`SetActiveWindow` edits `items` (`Target`, `Merged`, `Edited`), cancels who left, and
starts `drain` if it is not running. `Arranged(s, P, R)` is the sequence of the
elements of `s` at the positions `P` in the order `R`; `Filtered` (a filter keeps the order
of positions) and `ByDistance` (a stable sort) are two uses of it. `runner` is `drain` at one of its awaits:
`waitUntilNotBusy` before an item or a segment, a fetch, or the registration of a
playlist. `member` is the negated `isCancelled()` closure: it stays false if the URL
returns as a new item. A wait that need not wait is "clear": its continuation is a
microtask, and only more of the same task (another `setActiveWindow`) comes before it.
The session is `downloadingList` with who made each entry, and `prefetchUrls`; the player
fetches any URL, one at a time, and `CancelAllTask` is what `disableBridgeServer` and
`clearCache` call.

Bounds: three items (media, playlist, master playlist), two lists, three indices of which
one is out of range, two option sets, at most two segments an item, two polls for 240, and
three calls. The poll count matters only for being reached or not; the lists and indices
make items enter, stay with another distance, leave and return.

Abstracted: a segment's fetch and its verified write are one step; a playlist has any
number of segments up to the count asked for (`MaxCount` bounds it in the types); a list
names no URL twice.

## 3. Runs

| Run | Shows |
|---|---|
| `BridgeLifecycle_ios` | passes: `TypeOK`, `FailedIsStopped`, `RetriesFreshAndBounded`, `StaleNeverPublishes`, `StartingEnds`, and `ReadinessKept` (the refinement, fairness included) |
| `BridgeLifecycle_churn` | violates `ReadyIsServed`: enable, disable, enable with the first start late |
| `ProviderLifecycle_android` | passes: `ProviderTypeOK`, `ReleaseReadyIsServed`, `BackgroundIsStopped`, `ForegroundIsServed` - the provider's clean-up-first discipline is what protects a release build from the churn above |
| `AssetCache_session` | passes: `TypeOK`, `VerifiedOnDisk`, `NoOrphan`, `BytesCounted`, `EveryRequestAnswered` |
| `AssetCache_stale` | violates `StaleNeverLands`: check, then two awaits, then rename |
| `PrefetchWindow_feed` | passes: `TypeOK`, `QueueSorted`, `MarkedIsWorkedOn`, `YieldsWhenAsked`, `DrainEnds` |
| `EvictionPolicy_size` | passes: `TypeOK`, `GetKeepsItsEntry`, `EndsFittingOrGivenUp`, `EvictionEnds` |
| `RegistryPersistence_restart` | passes: `TypeOK`, `SavedSurvives`, `LiveKept` |
| `RegistryPersistence_upgrade` | violates `SweepSparesLive`: two sweeps at launch beside requests that already register |
| `PreCacheQueue_list` | passes: `TypeOK`, `FinalIsWhole`, `GuardKeepsSerial`, `TempsAreCleared`, `ListIsWorkedOff` |
| `RequestDispatch_server` | passes: `TypeOK`, `ServerIsHeard`, `AnswersAreAwaited`, `GetsEnd` |
| `SessionTasks_cancel` | passes: `TypeOK`, `BooksAgree`, `CancelSettles` |

A run that expects a violation checks what a document or comment of the repository says;
the finding in `PROJECT.json` quotes it. Other disagreements met while modelling are
findings without a run: where a passing property needs an exception because of one, the
exception is in the property and the finding names it (`alone` of a job, the late answers
and ownerless segments of `NoOrphan`, `shared`, `loosened`, `threw`, `policy # "LFU"`,
`loop.alone`, release builds, GET requests, the first enable cycle).
Deadlock is not checked: an application may stop calling, a player may stop requesting, and
the bounds on calls end every behaviour.

Every property of a passing run has a mutant: a definition changed as a plausible bug
would change it (a dropped guard, a missing splice, an unclamped counter), under which the
run finds the property violated. Mutated definitions stand beside the originals and are
marked "Mutant" or "(mutated)".

## 4. Fairness

- *BridgeLifecycle*: weak fairness of the native queue, the main queue, the delivery of
  results and the continuation of promises: the event loop and both queues always get on,
  and a native start always settles its promise (both platforms resolve or reject in every
  branch). No fairness for `Enable` and `Disable`.
- *ProviderLifecycle*: the same, and React runs committed effects. Users need not change
  the app state.
- *AssetCache*: each job's next step, and the look-ups, unlinks and wipes on their way: origins answer
  or fail (`FetchFails` is a cancelled or timed-out request), file system calls return.
- *PrefetchWindow*: only `RunnerStep`: timers fire and the runner's own fetches settle. The
  player owes nothing, so `DrainEnds` holds beside a player that never stops.
- *EvictionPolicy*: a callback runs to its end (the loop's turns, the caller's rest), and
  each asset's unlinks settle or reject. Nothing is assumed of the application or of the
  answers to look-ups.
- *PreCacheQueue*: pages, downloads and runners get on; the player's look-ups and removals
  need not.
- *RequestDispatch*: the native queue, the delivery of each request's event, each request's
  handlers (`AssetCache`'s `EveryRequestAnswered` justifies it) and its `serve()` thread.
- *SessionTasks*: native calls run, an aborted call settles, continuations run. A download
  that nobody cancels may stream for ever.
- *RegistryPersistence*: none; its properties are safety.

## 5. Proofs

The first part of `LifecycleProofs` is about `BridgeLifecycle`, for any number of cycles,
ports and retries and for both platforms:

| Theorem | Statement |
|---|---|
| `TypeCorrect` | `Spec => []TypeOK` |
| `RetriesTheorem` | `Spec => []RetriesFreshAndBounded` |
| `FailedTheorem` | `MaxRetries > 1` implies `Spec => []FailedIsStopped` |
| `StaleTheorem` | `Spec => StaleNeverPublishes` |
| `ReadinessTheorem` | `Spec` implements the safety part of `ServerReadiness` |

The assumptions are those the module states of its constants, and `MaxRetries > 1` where
named: with a single attempt a refused port would be reported as failed ahead of older
commands still in the queue. `MAX_START_RETRIES` is 3.

`RetriesFreshAndBounded` is inductive beside `TypeOK`. `FailedIsStopped` is not: to know
that nothing is left when a cycle fails, one must know what was in flight when its last
attempt settled. `IInv` says it:

- `MadeInv`: every command, dispatched block and result belongs to a start some call made;
- `QueuesOK`: the main queue and the results hold starts only;
- `AwaitedIsLast`: the start that the latest call waits for is the last thing JavaScript
  has sent to the native side, so nothing follows it in any queue;
- `SettledIsQuiet`: hence, when that start has settled, every queue is empty;
- `CallsInv`: calls beyond the latest do not exist yet, and the latest is over once
  `serverState` is no longer `starting`;
- `FailedInv`: a failed cycle leaves stops behind it and nothing else.

`FailedIsStopped` follows from `FailedInv`, which `ContinueFailed` establishes from
`SettledIsQuiet` by appending the one stop. `ReadinessTheorem` needs less, `Booked` (calls
to come do not exist, and the latest is over once `serverState` is not `starting`) beside
`TypeOK` and `RetriesFreshAndBounded`, and so holds for a single attempt too; it goes step by
step: `Enable`
maps to `Request`, `Disable` to `Cancel`, the continuations of the latest call to
`Confirm`, `Retry` or `GiveUp`, everything else to a stutter.

`AssetCacheProofs` holds, for any assets, segments, numbers of requests and of operations:

| Theorem | Statement |
|---|---|
| `TypeCorrect` | `Spec => []TypeOK` |
| `BytesTheorem` | `Spec => []BytesCounted` |
| `VerifiedTheorem` | `Spec => []VerifiedOnDisk` |
| `OrphanTheorem` | `Spec => NoOrphan` |

`TypeOK` is inductive with `HasFile`: a handler at work has a path, one that looks for it on
disk has a segment's, and one past its fetch has received something. `BytesCounted` needs in addition that the registered segments
are finitely many; `RegistrySteps` says what a step may make of an entry, and one lemma
that each of these counts right. `VerifiedOnDisk` says nothing of the temps a promote is
going to rename, and is not inductive. `DiskInv` strengthens it:

- `Exclusive`: a handler that is `alone` is the only one at work on its path;
- `OwnTemp`: so the temp it reads, verifies or moves is its own, or gone;
- `AuthorisedIsSound`: the body that `verifyAndPromote` passed is the one it received;
- `LandedIsDone`: and what an `alone` handler put at a final path is sound and belongs to a
  handler that is over, whose record changes no more.

A handler that is not alone may rename the temp of another, but only of one that is not
alone either, and of these `VerifiedOnDisk` says nothing.

`RunStep` proves once that a step of one handler that keeps to its own path disturbs none
of the others; each handler's step is an instance of it (`AnswerStep` where the handler
ends, `GotoStep` where it goes on to the next await). `BeginDisk` is the step that takes
`alone` away. Evictions, removals, wipes and look-ups only take files away (`OtherStepDisk`).

`NoOrphan` is an action property: a file that somebody answers for is answered for after the
step. It needs `OwnerInv` (a handler works for its own key or for a registered owner's, and
only hls entries list segments). `JobStepOrphan` is the handlers' part: a promote registers
the file under an entry that keeps what it listed (`EntryGrows`), but for the two owners
excepted; `OtherStepOrphan` the rest: what leaves the registry goes to an unlink or a wipe.

The second part of `LifecycleProofs` is about `ProviderLifecycle`, for any bounds:

| Theorem | Statement |
|---|---|
| `ProviderTypeTheorem` | `PSpec => []ProviderTypeOK` |
| `BackgroundTheorem` | `Platform = "android"` implies `PSpec => []BackgroundIsStopped` |
| `ReleaseTheorem` | `MaxRetries > 1` implies `PSpec => []ReleaseReadyIsServed` |
| `ReleaseFailedTheorem` | `MaxRetries > 1` implies `PSpec => [](~devMode => FailedIsStopped)` |
| `ProviderRetriesTheorem` | `PSpec => []RetriesFreshAndBounded` |
| `ProviderStaleTheorem` | `PSpec => StaleNeverPublishes` |
| `ProviderReadinessTheorem` | `PSpec` implements the safety part of `ServerReadiness` |

The last three hold in dev mode too: a re-render there touches the bridge and the native
queue but neither the store nor the calls (`ProviderMoves`), and every other step of the
provider is a step of the bridge or leaves it alone (`BridgeStep`).

`ReleaseTheorem` reuses the first part: outside dev mode the provider's steps keep `IInv`,
and beside it

- `Enabling`: when the provider is about to enable, the bridge neither runs nor is starting,
  since the clean-up has disabled before - the fact that `BridgeLifecycle` alone lacks, as
  its run `BridgeLifecycle_churn` shows;
- `OwnStart`: so the latest call awaits a start of its own, JavaScript listens meanwhile, and
  the start's result is what the native side has bound;
- `ReadyInv`: so what is published as ready is bound and listened to, and stays so, since
  nothing else is in any queue.

`BackgroundTheorem` needs only what is in the queues: `BackInv` says that with the app in
the background the last command queued is a stop, or that none is left and no server is
bound. It is stated for Android because on iOS a start that a stop has overtaken on the
main queue may still bind (a finding). Dev mode is included: re-renders only queue stops.

The other modules, each for any values of its constants:

| Module | Theorems | Inductive invariant |
|---|---|---|
| `EvictionPolicyProofs` | `TypeTheorem`, `KeepsTheorem` (`GetKeepsItsEntry`), `EndsTheorem` (`EndsFittingOrGivenUp`, for finitely many assets) | `TypeOK`, `Continuing` (where a callback's rest stands), `OwnLoop` (a loop in its turn was triggered by the caller's own key), `GetKeepsItsEntry`; beside them `TotalInv` (below) |
| `RegistryPersistenceProofs` | `TypeTheorem`, `SavedTheorem` (`SavedSurvives`), `LiveTheorem` (`LiveKept`) | `TypeOK`, `SavedInv` (what is known saved is what the document holds), `WritesCurrent`, `OwedInv` (while something is owed no write or wipe is under way and every load has yet to read) |
| `RequestDispatchProofs` | `TypeTheorem`, `HeardTheorem` (`ServerIsHeard`), `AwaitedTheorem` (`AnswersAreAwaited`) | `TypeOK`, `HeardInv` (when JavaScript does not listen, each queued start has a stop behind it), `FirstInv` (in the first cycle one start, each request in one place, and a `serve()` of that instance waiting for it) |
| `SessionTasksProofs` | `TypeTheorem`, `BooksTheorem` (`BooksAgree`) | `TypeOK`, `CommandsUsed`, `Books` (two downloads of a URL in flight share it; live prefetches are marked; live downloads are entered; marks have an owner) |
| `PrefetchWindowProofs` | `TypeTheorem`, `SortedTheorem` (`QueueSorted`), `MarkedTheorem` (`MarkedIsWorkedOn`), `YieldsTheorem` (`YieldsWhenAsked`) | `Shape`, `WaitsThere` and `ClearIsTrue` (a wait that was found clear still is when its continuation runs); `QueueInv` (the two properties with `RunnerFine`, what the runner holds at each await, and `InQueue`, that its item is in the queue while `member` says so); `SessionInv` |
| `PreCacheQueueProofs` | `TypeTheorem`, `WholeTheorem` (`FinalIsWhole`), `ClearedTheorem` (`TempsAreCleared`), `SerialTheorem` (`GuardKeepsSerial`) | `TypeOK`; `TaskInv` (below); `GuardInv` (until the guard is loosened, every download stands in `cachingUrl` under its own id) |

`SavedTheorem` rests on one observation: a save between launch and the end of its loads
gives up what is owed, so what is owed is still in the document when a load reads it.

`EndsTheorem` says that the running total does not drift: in a run that nothing interfered
with it is what the entries sum up to, plus the bytes of the victim whose unlink the loop
awaits (`TotalInv`), so a run that stops because the total fits has made the entries fit.
The sum is a fold, that is a recursive function over sets, and the library states nothing
of it; `SumCounts` shows that it counts pairs of an entry and one of its bytes (`Cells`), by
taking a least set on which the two disagree, and `SumWithout` then takes an entry out.

`SortedTheorem` rests on facts about `Arranged`, proved once: positions under a strict
order that is total on them have a least one, the number of those before a position grows
along the order, and so an arrangement exists, is a sequence, and holds each entry once
(`LeastExists`, `BeforeGrows`, `ArrangedFacts`). `EditedFacts` says what an edit of the
window leaves of the queue, and one lemma per continuation of `drain` that it keeps
`QueueInv`.

`WholeTheorem` and `ClearedTheorem` are about what a file's downloads, by one URL or by
several, do to each other's files. `TaskInv`: a file that is not `shared` has at most one
download (`Alone`), which nobody has cut short and which renames no partial file (`Sound`),
so what it leaves at the final path is whole (`Whole`); and while one that is about to
register finds a temp file, another that has not come so far is still there to take it away
(`Left`). `SerialTheorem` is about hrefs, which is all the code's guard compares.

Only model-checked: liveness (`StartingEnds`, `ForegroundIsServed`, `EveryRequestAnswered`,
`DrainEnds`, `EvictionEnds`, `ListIsWorkedOff`, `GetsEnd`, `CancelSettles`, the fairness
half of `ReadinessKept`), which is out of the proof system's reach here. Every invariant and
every action property of a passing run is also a theorem, `BackgroundIsStopped` and those that
need `MaxRetries > 1` under the premises named above. What the three runs that find a
violation check is false, so nothing is proved of it.

The project uses no recursive operators.

## 6. Not modelled

- Cache keys and playlist rewriting (`cacheKeyPolicy.ts`, `util.ts`): string code. That
  several URLs share one file is `PreCacheQueue`'s `FileOf`; which parameters a key drops,
  the hash, and the rewriting of playlist lines are left out.
- Hooks: thin wrappers; `useCache`'s calls enter `PreCacheQueue`.
- Subscribers of `publishServerState`: callbacks of the application, one of which may
  re-enter it.
- A second asset in `AssetCache`: the segment owner (`_lastHlsOwnerKey`) is exact only for
  one asset at a time, and the segments a prefetch writes, with a generation key that
  nothing bumps, are not a second writer there.
- A rejected promise of `readStream`, which has no `catch`.
- `retain`/`release` (pins), `PrefetchWindow.cancel` and `dispose`, and the bridge's `post`,
  `put`, `delete` and `patch`: called by nothing in the library.
- Examples, tests, build tooling.

The hazards in `PROJECT.json` without a property say which of these they wait for.

## 7. Plan

Done: BridgeLifecycle with ServerReadiness, ProviderLifecycle, AssetCache, PrefetchWindow,
EvictionPolicy, RegistryPersistence, PreCacheQueue, RequestDispatch, SessionTasks, and the
proofs of every safety property their runs check.

Left:

1. Proofs: that in dev mode too a failed cycle leaves nothing behind (`FailedIsStopped`
   under the provider), which needs an account of the stops a re-render queues.
2. A second asset in `AssetCache`, and the prefetch as a second writer of its paths.
3. Subscribers of the readiness store.
