---------------------------- MODULE EvictionPolicy ----------------------------
(***************************************************************************)
(* The registry of cached assets (MemoryCacheProvider) and the policies    *)
(* that evict from it: LFUSizePolicy (by bytes, asynchronous), LFUPolicy   *)
(* (by count, synchronous) and FreePolicy (never).                         *)
(*                                                                         *)
(* JavaScript runs one callback to its end.  What a callback does until it *)
(* awaits or returns may take several steps here (one per turn of the      *)
(* policy's loop, one per continuation of the caller); no other step is    *)
(* enabled in between (Idle).                                              *)
(***************************************************************************)
EXTENDS Integers, FiniteSets, Functions

CONSTANTS
    Keys,           \* assets, by their CacheKeyPolicy key
    Policies,       \* the policies the application may have chosen
    Capacity,       \* bytes for LFUSizePolicy, entries for LFUPolicy
    MinEntries,     \* the loop gives up at this many entries (2 in the code)
    MaxCandidates,  \* the loop gives up after this many candidates (10)
    MaxBytes,       \* bound: bytes of one asset
    MaxFreq,        \* bound: access count of one asset
    MaxOps,         \* bound: calls and events the environment makes
    None            \* no trigger, no victim

ASSUME CapacityAssumption == Capacity \in Nat /\ MaxFreq \in Nat /\ MaxBytes \in Nat
ASSUME LimitsAssumption == MinEntries \in Nat /\ MaxCandidates \in Nat
ASSUME BoundsAssumption == MaxOps \in Nat
ASSUME NoneAssumption == None \notin Keys

VARIABLES
    policy,      \* which policy the registry was created with
    cache,       \* MemoryCacheProvider.cache: registered key -> entry.bytes
    freq,        \* the policy's referenceBit: tracked key -> access count
    busy,        \* assets that are pinned or downloading: not isEvictable
    unlinking,   \* assets whose files are being unlinked by didEvictHandler
    asks,        \* look-ups that await the file system, or are about to go on
    isEvicting,  \* LFUSizePolicy.isEvicting
    loop,        \* the run of LFUSizePolicy.onEvict
    totalSize,   \* its running total
    held,        \* the Map that run holds once load or clear replaced it
    pending,     \* what the caller does when onEvict returns to it
    ops          \* calls and events so far

registry == <<policy, cache, freq>>
disk == <<busy, unlinking, asks>>
mutex == <<isEvicting, totalSize>>
vars == <<registry, disk, mutex, loop, held, pending, ops>>

-----------------------------------------------------------------------------
PartialFns(S, T) == UNION {[D -> T] : D \in SUBSET S}
Without(f, k) == Restrict(f, DOMAIN f \ {k})
With(f, k, v) == [x \in DOMAIN f \union {k} |-> IF x = k THEN v ELSE f[x]]
Larger(a, b) == IF a < b THEN b ELSE a

Empty == [k \in {} |-> 0]
NoLoop == [at |-> "idle", victim |-> None, trigger |-> None, bytes |-> 0,
           count |-> 0, skipped |-> {}, own |-> TRUE, alone |-> TRUE]
NoCall == [key |-> None, step |-> "none", had |-> FALSE]

\* Who calls getCachedFileAsync, and what it awaits: whether the file of an entry is there
\* ("entry"), whether there is one without ("final"); or a removal's own turn after it.
Lookers == {"view", "removal"}
Stages == {"entry", "final", "found", "gone"}

\* One callback at a time: nothing else runs inside the policy's loop or before the caller
\* of onEvict has finished its own callback.
Idle == loop.at # "select" /\ pending = NoCall

\* A call of the application, a request or an event of the system; at most MaxOps of them.
Call ==
    /\ Idle
    /\ ops < MaxOps
    /\ ops' = ops + 1

\* A session of which the registry was loaded: each saved asset has its count.
Init ==
    /\ policy \in Policies
    /\ cache \in PartialFns(Keys, 1 .. MaxBytes)
    /\ freq \in IF policy = "Free" THEN {Empty} ELSE [DOMAIN cache -> 0 .. MaxFreq]
    /\ held = Empty /\ busy = {} /\ unlinking = {} /\ asks = {} /\ ops = 0
    /\ isEvicting = FALSE
    /\ loop = NoLoop /\ totalSize = 0 /\ pending = NoCall

-----------------------------------------------------------------------------
(***************************************************************************)
(* onAccess and onEvict of the three policies.                             *)
(***************************************************************************)

\* onAccess: a key seen for the first time, registered or not, is tracked with count zero.
Touched(k) ==
    IF policy = "Free" THEN freq
    ELSE With(freq, k, IF k \in DOMAIN freq THEN freq[k] + 1 ELSE 0)

\* findLFUKey over the tracked keys: a count of zero is falsy and never the least.
LeastUsed(f, excluded) ==
    LET counted == {k \in DOMAIN f \ excluded : f[k] > 0}
    IN  {k \in counted : \A j \in counted : f[k] <= f[j]}

\* (mutated) The fallback to the oldest entry forgets whom to exclude.
CandidatesUnfiltered(map, f, excluded) ==
    IF LeastUsed(f, excluded) # {} THEN LeastUsed(f, excluded)
    ELSE IF DOMAIN f = {} THEN {} ELSE DOMAIN map

\* findLFUKey: the least used key or, when none is counted, an entry of the Map (the code
\* takes the one touched longest ago; the order of touches is not kept here).
Candidates(map, f, excluded) ==
    IF LeastUsed(f, excluded) # {} THEN LeastUsed(f, excluded)
    ELSE IF DOMAIN f = {} THEN {} ELSE DOMAIN map \ excluded

\* LFUSizePolicy.onEvict up to its loop: a run in progress makes this one return at once.
BeginLoop(trigger) ==
    IF isEvicting THEN UNCHANGED <<mutex, loop>>
    ELSE /\ isEvicting' = TRUE
         /\ loop' = [NoLoop EXCEPT !.at = "select", !.trigger = trigger]
         /\ totalSize' = SumFunction(cache)

\* LFUPolicy.onEvict: one victim, at once, whether it is in use or not.
EvictByCount(f) ==
    IF Cardinality(DOMAIN cache) < Capacity
    THEN freq' = f /\ UNCHANGED <<cache, unlinking>>
    ELSE LET tracked == Restrict(f, DOMAIN f \intersect DOMAIN cache)
             victims == IF LeastUsed(tracked, {}) # {} THEN LeastUsed(tracked, {})
                        ELSE DOMAIN cache
         IN  \E v \in victims :
                /\ cache' = Without(cache, v)
                /\ freq' = Without(tracked, v)
                /\ unlinking' = unlinking \union {v}

\* cachePolicy.onEvict(cache, delegate, k), with referenceBit f when it is called.
OnEvict(k, f) ==
    \/ /\ policy = "LFUSize"
       /\ BeginLoop(k)
       /\ freq' = f
       /\ UNCHANGED <<cache, unlinking>>
    \/ /\ policy = "LFU"
       /\ EvictByCount(f)
       /\ UNCHANGED <<mutex, loop>>
    \/ /\ policy = "Free"
       /\ UNCHANGED <<cache, freq, unlinking, mutex, loop>>

\* MemoryCacheProvider.get: count the access, then let the policy evict; what the caller
\* does with the entry that is left is its continuation.
Get(k, step) ==
    /\ k \in DOMAIN freq => freq[k] < MaxFreq
    /\ OnEvict(k, Touched(k))
    /\ pending' = [key |-> k, step |-> step, had |-> k \in DOMAIN cache]
    /\ UNCHANGED <<policy, busy, held>>

\* `finally`: the run is over and the mutex free.
EndRun == isEvicting' = FALSE /\ totalSize' = 0 /\ loop' = NoLoop /\ held' = Empty

\* A change of the registry while the loop awaits an unlink.
Interfere == loop' = [loop EXCEPT !.alone = loop.at = "idle"]

-----------------------------------------------------------------------------
(***************************************************************************)
(* The loop of LFUSizePolicy.onEvict, one turn per step.                   *)
(***************************************************************************)
Map == IF loop.own THEN cache ELSE held

\* One turn counts one candidate, whatever becomes of it.
Turn == loop.count + 1

\* The conditions under which the loop ends, in the code's order.
Fits == totalSize <= Capacity
GivesUp == Cardinality(DOMAIN Map) <= MinEntries \/ Turn > MaxCandidates
NoCandidate == Candidates(Map, freq, loop.skipped \union {loop.trigger}) = {}

\* Under capacity, given up, or nothing left: `finally` frees the mutex.
EndLoop ==
    /\ loop.at = "select"
    /\ Fits \/ GivesUp \/ NoCandidate
    /\ EndRun
    /\ UNCHANGED <<registry, disk, pending, ops>>

\* The candidate of this turn.
Candidate(k) ==
    /\ loop.at = "select"
    /\ ~Fits /\ ~GivesUp
    /\ k \in Candidates(Map, freq, loop.skipped \union {loop.trigger})

\* A tracked key without an entry: forgotten.
SkipStale(k) ==
    /\ Candidate(k)
    /\ k \notin DOMAIN Map
    /\ freq' = Without(freq, k)
    /\ loop' = [loop EXCEPT !.count = Turn]
    /\ UNCHANGED <<policy, cache, disk, mutex, held, pending, ops>>

\* (mutated) The loop stops at the first candidate in use instead of trying the next one.
SkipBusyBreak(k) ==
    /\ Candidate(k)
    /\ k \in DOMAIN Map /\ k \in busy
    /\ EndRun
    /\ UNCHANGED <<registry, disk, pending, ops>>

\* A pinned or downloading candidate: skipped for the rest of this run.
SkipBusy(k) ==
    /\ Candidate(k)
    /\ k \in DOMAIN Map /\ k \in busy
    /\ loop' = [loop EXCEPT !.count = Turn, !.skipped = @ \union {k}]
    /\ UNCHANGED <<registry, disk, mutex, held, pending, ops>>

\* The entry leaves the Map and the tracking; the loop awaits the unlink.
Evict(k) ==
    /\ Candidate(k)
    /\ k \in DOMAIN Map /\ k \notin busy
    /\ IF loop.own THEN cache' = Without(cache, k) /\ UNCHANGED held
                   ELSE held' = Without(held, k) /\ UNCHANGED cache
    /\ freq' = Without(freq, k)
    /\ unlinking' = unlinking \union {k}
    /\ loop' = [loop EXCEPT !.at = "unlink", !.victim = k, !.bytes = Map[k], !.count = Turn]
    /\ UNCHANGED <<policy, busy, asks, mutex, pending, ops>>

-----------------------------------------------------------------------------
(***************************************************************************)
(* The file system answers didEvictHandler.                                *)
(***************************************************************************)

\* The loop goes on with its running total less what the victim's entry said.
Unlinked(k) ==
    /\ Idle
    /\ k \in unlinking
    /\ unlinking' = unlinking \ {k}
    /\ IF loop.at = "unlink" /\ loop.victim = k
       THEN /\ loop' = [loop EXCEPT !.at = "select", !.victim = None, !.bytes = 0]
            /\ totalSize' = totalSize - loop.bytes
       ELSE UNCHANGED <<loop, totalSize>>
    /\ UNCHANGED <<registry, busy, asks, isEvicting, held, pending, ops>>

\* (mutated) No `finally`: a rejected unlink leaves the mutex taken.
UnlinkRejectsNoFinally(k) ==
    /\ Idle
    /\ k \in unlinking
    /\ unlinking' = unlinking \ {k}
    /\ loop' = IF loop.victim = k THEN NoLoop ELSE loop
    /\ UNCHANGED <<registry, busy, asks, mutex, held, pending, ops>>

\* An unlink may reject (the system purged the file, another unlink was first): the loop's
\* promise rejects, with nobody to notice, and `finally` frees the mutex.
UnlinkRejects(k) ==
    /\ Idle
    /\ k \in unlinking
    /\ unlinking' = unlinking \ {k}
    /\ IF loop.at = "unlink" /\ loop.victim = k
       THEN EndRun
       ELSE UNCHANGED <<mutex, loop, held>>
    /\ UNCHANGED <<registry, busy, asks, pending, ops>>

-----------------------------------------------------------------------------
(***************************************************************************)
(* The callers: the request handlers, the application, the provider.       *)
(***************************************************************************)

\* retain or a download begins; release or it ends (counted in AssetCache).
Hold(k) ==
    /\ Call
    /\ busy' = IF k \in busy THEN busy \ {k} ELSE busy \union {k}
    /\ UNCHANGED <<registry, unlinking, asks, mutex, loop, held, pending>>

\* Every handler that reads an entry: addSegmentHandler, resolveRecordedTotal, serveCached.
Read(k) ==
    /\ Call
    /\ Get(k, "return")
    /\ UNCHANGED asks

\* A playlist, a media file or a total was promoted: registerHlsOwner, putCachedFile and the
\* write-back of addSegmentHandler read the entry first, then put one.
Ingest(k) ==
    /\ Call
    /\ Get(k, "put")
    /\ UNCHANGED asks

\* A segment was promoted: registerSegmentUnderOwner looks its owner up.
IngestSegment(k) ==
    /\ Call
    /\ Get(k, "append")
    /\ UNCHANGED asks

\* onCachingPlaylistSource with SIGNAL_NOT_DOWNLOAD_ACTION: the entry, whatever it was, is
\* a new one without bytes, and the policy is not told.
Signal(k) ==
    /\ Call
    /\ cache' = With(cache, k, 0)
    /\ Interfere
    /\ UNCHANGED <<policy, freq, disk, mutex, held, pending>>

\* getCachedFileAsync for a viewer, or for removeCachedVideo, begins with a get.
LookUp(k, who) ==
    /\ Call
    /\ \A about \in Stages : <<k, who, about>> \notin asks
    /\ Get(k, who)
    /\ UNCHANGED asks

\* The look-up returns to its caller: a viewer is done, a removal goes on.
Answered(k, who, about, outcome) ==
    /\ <<k, who, about>> \in asks
    /\ asks' = (asks \ {<<k, who, about>>})
                  \union (IF who = "removal" THEN {<<k, who, outcome>>} ELSE {})

\* syncCache without a value: entry and count are dropped.
Drop(k) ==
    /\ cache' = Without(cache, k)
    /\ freq' = Without(freq, k)
    /\ Interfere

\* existsFile answers: the file of the entry that was there is there.
Kept(k, who) ==
    /\ Idle
    /\ Answered(k, who, "entry", "found")
    /\ UNCHANGED <<registry, busy, unlinking, mutex, loop, held, pending, ops>>

\* It is not; or there was no entry and there is no file: whatever is registered by now is
\* dropped.
Missing(k, who) ==
    /\ Idle
    /\ \E about \in {"entry", "final"} : Answered(k, who, about, "gone")
    /\ Drop(k)
    /\ UNCHANGED <<policy, busy, unlinking, mutex, held, pending, ops>>

\* A file without an entry: it is registered, over whatever is registered by now, and the
\* entry looked up once more.
Found(k, who) ==
    /\ Idle
    /\ k \in DOMAIN freq => freq[k] < MaxFreq
    /\ Answered(k, who, "final", "found")
    /\ cache' = With(cache, k, 0)
    /\ Interfere
    /\ pending' = [key |-> k, step |-> "read", had |-> TRUE]
    /\ UNCHANGED <<policy, freq, busy, unlinking, mutex, held, ops>>

\* removeCachedVideo after its look-up: even that counts once more, and evicts.
GoOn(k) ==
    /\ Idle
    /\ \E outcome \in {"found", "gone"} :
          /\ <<k, "removal", outcome>> \in asks
          /\ asks' = asks \ {<<k, "removal", outcome>>}
          /\ Get(k, IF outcome = "found" THEN "remove" ELSE "forget")
    /\ UNCHANGED ops

\* The caller's continuation when onEvict has returned to it.
Called(step) == loop.at # "select" /\ pending.step = step

Return ==
    /\ Called("return")
    /\ pending' = NoCall
    /\ UNCHANGED <<registry, disk, mutex, loop, held, ops>>

ReadAgain ==
    /\ Called("read")
    /\ OnEvict(pending.key, Touched(pending.key))
    /\ pending' = [pending EXCEPT !.step = "return"]
    /\ UNCHANGED <<policy, busy, asks, held, ops>>

\* getCachedFileAsync asks for the file of the entry it got, or else for the final path.
Ask ==
    /\ \E who \in Lookers :
          /\ Called(who)
          /\ LET about == IF pending.key \in DOMAIN cache THEN "entry" ELSE "final"
             IN  asks' = asks \union {<<pending.key, who, about>>}
    /\ pending' = NoCall
    /\ UNCHANGED <<registry, busy, unlinking, mutex, loop, held, ops>>

\* put: an entry is replaced without asking the policy; a new key is tracked afresh and
\* the policy asked to make room for it first.
Put ==
    /\ Called("put")
    /\ IF pending.key \in DOMAIN cache
       THEN /\ \E b \in 0 .. MaxBytes : cache' = [cache EXCEPT ![pending.key] = b]
            /\ Interfere
            /\ pending' = NoCall
            /\ UNCHANGED <<freq, unlinking, mutex>>
       ELSE /\ OnEvict(pending.key, IF policy = "Free" THEN freq ELSE With(freq, pending.key, 0))
            /\ pending' = [pending EXCEPT !.step = "set"]
    /\ UNCHANGED <<policy, busy, asks, held, ops>>

PutNew ==
    /\ Called("set")
    /\ \E b \in 0 .. MaxBytes : cache' = With(cache, pending.key, b)
    /\ Interfere
    /\ pending' = NoCall
    /\ UNCHANGED <<policy, freq, disk, mutex, held, ops>>

\* The segment's bytes go to its owner, once; an owner that is gone, or is not a playlist,
\* gets nothing, and the segment stays on disk unregistered.
AppendSegment ==
    /\ Called("append")
    /\ IF pending.key \in DOMAIN cache
       THEN /\ \E b \in cache[pending.key] .. MaxBytes : cache' = [cache EXCEPT ![pending.key] = b]
            /\ Interfere
       ELSE UNCHANGED <<cache, loop>>
    /\ pending' = NoCall
    /\ UNCHANGED <<policy, freq, disk, mutex, held, ops>>

\* removeCachedVideo: the entry is dropped, then its files are unlinked if it had one and
\* the look-up found one.
FinishRemove ==
    /\ \E step \in {"remove", "forget"} :
          /\ Called(step)
          /\ unlinking' = IF step = "remove"
                          THEN unlinking \union ({pending.key} \intersect DOMAIN cache)
                          ELSE unlinking
    /\ Drop(pending.key)
    /\ pending' = NoCall
    /\ UNCHANGED <<policy, busy, asks, mutex, held, ops>>

\* load and clear put a new Map in place; a loop that awaits keeps the old one.
Replace ==
    /\ held' = IF loop.at = "unlink" /\ loop.own THEN cache ELSE held
    /\ loop' = IF loop.at = "unlink" THEN [loop EXCEPT !.own = FALSE, !.alone = FALSE] ELSE loop

\* clearCache: registry and tracking are emptied.
Clear ==
    /\ Call
    /\ cache' = Empty
    /\ freq' = Empty
    /\ Replace
    /\ UNCHANGED <<policy, disk, mutex, pending>>

\* load: the saved entries under the live ones, the larger of two counts.
Load ==
    /\ Call
    /\ \E saved \in SUBSET Keys, n \in 0 .. MaxFreq :
          /\ cache' = [k \in saved \union DOMAIN cache |->
                          IF k \in DOMAIN cache THEN cache[k] ELSE MaxBytes]
          /\ freq' = IF policy = "Free" THEN freq
                     ELSE [k \in saved \union DOMAIN freq |->
                              IF k \in DOMAIN freq
                              THEN IF k \in saved THEN Larger(freq[k], n) ELSE freq[k]
                              ELSE n]
    /\ Replace
    /\ UNCHANGED <<policy, disk, mutex, pending>>

-----------------------------------------------------------------------------
Next ==
    \/ \E k \in Keys :
          \/ SkipStale(k) \/ SkipBusy(k) \/ Evict(k)
          \/ Unlinked(k) \/ UnlinkRejects(k) \/ Hold(k)
          \/ Read(k) \/ Ingest(k) \/ IngestSegment(k) \/ Signal(k) \/ GoOn(k)
          \/ \E who \in Lookers : LookUp(k, who) \/ Kept(k, who) \/ Missing(k, who) \/ Found(k, who)
    \/ EndLoop \/ Return \/ ReadAgain \/ Put \/ PutNew \/ AppendSegment \/ Ask \/ FinishRemove
    \/ Clear \/ Load

\* A callback runs to its end, and a file operation answers.  Nothing makes the application
\* call or a download end.
Fairness ==
    /\ WF_vars(EndLoop \/ \E k \in Keys : SkipStale(k) \/ SkipBusy(k) \/ Evict(k))
    /\ WF_vars(Return \/ ReadAgain \/ Put \/ PutNew \/ AppendSegment \/ Ask \/ FinishRemove)
    /\ \A k \in Keys : WF_vars(Unlinked(k) \/ UnlinkRejects(k))

Spec == Init /\ [][Next]_vars /\ Fairness

-----------------------------------------------------------------------------
(***************************************************************************)
(* Properties.                                                             *)
(***************************************************************************)

Loops == [at : {"idle", "select", "unlink"}, victim : Keys \union {None},
          trigger : Keys \union {None}, bytes : Nat, count : Nat,
          skipped : SUBSET Keys, own : BOOLEAN, alone : BOOLEAN]
Steps == {"none", "return", "read", "put", "set", "append", "remove", "forget"} \union Lookers
Calls == [key : Keys \union {None}, step : Steps, had : BOOLEAN]

\* Types of the variables; the mutex of LFUSizePolicy is taken exactly while its loop runs.
TypeOK ==
    /\ policy \in Policies
    /\ cache \in PartialFns(Keys, 0 .. MaxBytes)
    /\ freq \in PartialFns(Keys, 0 .. MaxFreq)
    /\ held \in PartialFns(Keys, 0 .. MaxBytes)
    /\ busy \subseteq Keys /\ unlinking \subseteq Keys
    /\ asks \subseteq Keys \X Lookers \X Stages
    /\ loop \in Loops /\ pending \in Calls
    /\ isEvicting = (loop.at # "idle")
    /\ ops \in 0 .. MaxOps

\* Under LFUSizePolicy a look-up never evicts what it looks up: the entry that was there
\* when get was called is still there when it returns.
GetKeepsItsEntry ==
    policy # "LFU" /\ pending.had => pending.key \in DOMAIN cache

\* A run of the loop that nothing interfered with ends under capacity, or for one of the
\* reasons the code has for giving up - and then by what the entries really sum up to, not
\* only by its running total.  A run that an unlink rejects is excepted.
EndsFittingOrGivenUp ==
    [][loop.at = "select" /\ loop'.at = "idle" /\ loop.own /\ loop.alone =>
         \/ SumFunction(cache) <= Capacity
         \/ Cardinality(DOMAIN cache) <= MinEntries
         \/ loop.count >= MaxCandidates
         \/ DOMAIN cache \subseteq loop.skipped \union {loop.trigger}]_vars

\* The mutex is always freed: whatever is pinned, rejected, removed or replaced under the
\* loop, LFUSizePolicy can evict again.
EvictionEnds == isEvicting ~> ~isEvicting
=============================================================================
