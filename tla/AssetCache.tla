----------------------------- MODULE AssetCache -----------------------------
(***************************************************************************)
(* The HLS cache behind the proxy: addPlaylistHandler, addSegmentHandler,  *)
(* removeCachedVideo, clearCache, getCachedFileAsync and didEvictHandler   *)
(* (ProxyCacheManager.ts), over CacheFileRepository (verifiedWrite.ts),    *)
(* the generation and downloading counters (pinGenerationGuard.ts) and the *)
(* asynchronous file system (fileSystem.ts).                               *)
(*                                                                         *)
(* Between two steps any other handler, look-up, eviction, removal or wipe *)
(* may run, and requests for one path may overlap: nothing serialises      *)
(* them.  A call of the file system and the code that follows its await    *)
(* are one step, except where the registry or another path is changed      *)
(* after an answer that may be stale by then (look-ups, moveFile).         *)
(* A job is one run of a request handler.  A file is named by its final    *)
(* path, its temp by the same name; what a path holds is the job that last *)
(* opened it for writing.                                                  *)
(***************************************************************************)
EXTENDS Naturals, FiniteSets

CONSTANTS
    Keys,       \* HLS assets; a key also names the path of its playlist
    Segs,       \* segments, each with one path
    None,       \* no job, no key, no file
    Old,        \* the writer of a file verified in an earlier session
    Left,       \* the files that session left
    MaxJobs,    \* bound on the requests made
    MaxAtOnce,  \* bound on the requests in flight at a time
    MaxOps      \* bound on evictions, removals, wipes and look-ups

\* Runs of a request handler, numbered in the order they begin.
Jobs == 1..MaxJobs

ASSUME NamesAssumption ==
    /\ Keys \cap Segs = {}
    /\ None \notin Keys \cup Segs \cup Jobs
    /\ Old \notin Jobs \cup {None}
ASSUME LeftAssumption == Left \subseteq Keys \cup Segs
ASSUME JobsAssumption == MaxJobs \in Nat /\ MaxAtOnce \in Nat
ASSUME OpsAssumption == MaxOps \in Nat

VARIABLES
    jobs,           \* the handlers' local state
    registry,       \* _memoryCache: the entry of each key
    generation,     \* pinGenerationGuard's generation
    downloading,    \* pinGenerationGuard's downloadingCounts
    lastOwner,      \* _lastHlsOwnerKey
    disk,           \* final paths
    temp,           \* temp paths
    looking,        \* look-ups that await the file system, by their caller
    evicting,       \* unlinks the running eviction waits for (isEvicting)
    doomed,         \* other unlinks on their way
    wiping,         \* clearDirectory on its way
    ops             \* operations so far, for MaxOps

upkeep == <<looking, evicting, doomed, wiping, ops>>
guard  == <<generation, downloading>>
vars   == <<jobs, registry, guard, lastOwner, disk, temp, upkeep>>

Files == Keys \cup Segs

\* CacheEntry; bytes counts one for the playlist and one for each segment.
Missing == [kind |-> "none",  segs |-> {}, bytes |-> 0]
Media   == [kind |-> "media", segs |-> {}, bytes |-> 0]
FreshHls == [kind |-> "hls",  segs |-> {}, bytes |-> 1]

Entries == [kind : {"none", "media", "hls"}, segs : SUBSET Segs, bytes : Nat]

\* What an origin may answer: a full 2xx body, one that stops short of its Content-Length,
\* one with another status or without a Content-Length (of a playlist neither is asked: it
\* is good or, an error page or cut short, it is not).
Bodies == {"good", "short", "refused"}

Phases == {"idle", "lookup", "streaming", "fetching", "reading", "writing",
           "verifying", "clearing", "moving", "fallback", "done"}

\* `key` is the asset the job works for: the playlist's own, or the owner a segment
\* request took from lastOwner; `held` is the kind of the owner entry it has read; `body`
\* is what it has received.  `alone` is history that no step reads: no other request for
\* its path has been in flight beside it.
JobStates == [phase : Phases,
              file  : Files \cup {None},
              key   : Keys \cup {None},
              held  : {"none", "media", "hls"},
              gen   : Nat,
              body  : Bodies \cup {"none"},
              sent  : Nat,
              alone : BOOLEAN]

NoJob == [phase |-> "idle", file |-> None, key |-> None, held |-> "none",
          gen |-> 0, body |-> "none", sent |-> 0, alone |-> TRUE]

\* Who looks a key up: the application and removeCachedVideo (getCachedFileAsync), and
\* the check of preCacheForList.
Callers == {"view", "removal", "list"}

\* The call a look-up awaits - existsFile of the entry's path, of the final path, of the
\* temp path, unlinkFile of the temp path - or the answer it has: "kept" (the entry has
\* its file), "found" (there is a file without an entry), "missed".
Stages == {"none", "entry", "final", "temp", "unlink", "kept", "found", "missed"}

TypeOK ==
    /\ jobs \in [Jobs -> JobStates]
    /\ registry \in [Keys -> Entries]
    /\ generation \in [Keys -> Nat]
    /\ downloading \in [Keys -> Nat]
    /\ lastOwner \in Keys \cup {None}
    /\ disk \in [Files -> Jobs \cup {Old, None}]
    /\ temp \in [Files -> Jobs \cup {None}]
    /\ looking \in [Callers -> [Keys -> Stages]]
    /\ evicting \subseteq Files
    /\ doomed \subseteq Files
    /\ wiping \in BOOLEAN
    /\ ops \in 0..MaxOps

\* A session starts with an empty registry over the files the last one left.
Init ==
    /\ jobs = [j \in Jobs |-> NoJob]
    /\ registry = [k \in Keys |-> Missing]
    /\ generation = [k \in Keys |-> 0]
    /\ downloading = [k \in Keys |-> 0]
    /\ lastOwner = None
    /\ disk = [f \in Files |-> IF f \in Left THEN Old ELSE None]
    /\ temp = [f \in Files |-> None]
    /\ looking = [c \in Callers |-> [k \in Keys |-> "none"]]
    /\ evicting = {}
    /\ doomed = {}
    /\ wiping = FALSE
    /\ ops = 0

-----------------------------------------------------------------------------
(* Pieces of the handlers *)

At(j, phase) == jobs[j].phase = phase
File(j)      == jobs[j].file
Key(j)       == jobs[j].key
IsPlaylist(j) == File(j) \in Keys

InFlight(j) == jobs[j].phase \notin {"idle", "done"}

Goto(j, phase) == jobs' = [jobs EXCEPT ![j].phase = phase]

\* reverseRes.send or sendRaw, and the return after it: the handler's locals are gone; what
\* it received is of interest only if it was promoted.
AnswerLeaving(j, body) ==
    jobs' = [jobs EXCEPT ![j] = [NoJob EXCEPT !.phase = "done", !.body = body,
                                              !.sent = jobs[j].sent + 1,
                                              !.alone = jobs[j].alone]]

Answer(j) == AnswerLeaving(j, "none")

\* Mutant: the refcount is not clamped at 0.
ReleaseUnclamped(k) == downloading' = [downloading EXCEPT ![k] = @ - 1]

Acquire(k) == downloading' = [downloading EXCEPT ![k] = @ + 1]
Release(k) == downloading' = [downloading EXCEPT ![k] = IF @ = 0 THEN 0 ELSE @ - 1]

\* registerHlsOwner: an hls entry keeps its segments and bytes.
WithPlaylist(entry) == IF entry.kind = "hls" THEN entry ELSE FreshHls

\* Mutant: the path is not looked up in segmentPaths first.
WithSegmentAgain(entry, s) ==
    IF entry.kind # "hls" THEN entry
    ELSE [entry EXCEPT !.segs = @ \cup {s}, !.bytes = @ + 1]

\* registerSegmentUnderOwner: a path counts once, and only under an hls owner.
WithSegment(entry, s) ==
    IF entry.kind # "hls" \/ s \in entry.segs THEN entry
    ELSE [entry EXCEPT !.segs = @ \cup {s}, !.bytes = @ + 1]

Begins(j) ==
    /\ At(j, "idle") /\ \A i \in 1..(j-1) : ~At(i, "idle")
    /\ Cardinality({i \in Jobs : InFlight(i)}) < MaxAtOnce

AtWorkOn(i, f) == InFlight(i) /\ File(i) = f

\* A handler begins beside whoever is at work on its path already.
Begin(j, request) ==
    jobs' = [i \in Jobs |->
        IF i = j
        THEN [request EXCEPT !.alone = \A o \in Jobs : ~AtWorkOn(o, request.file)]
        ELSE [jobs[i] EXCEPT !.alone = @ /\ ~AtWorkOn(i, request.file)]]

-----------------------------------------------------------------------------
(* Requests *)

RequestPlaylist(j, k) ==
    /\ Begins(j)
    /\ lastOwner' = k
    /\ Begin(j, [NoJob EXCEPT !.phase = "fetching", !.file = k, !.key = k,
                              !.gen = generation[k]])
    /\ UNCHANGED <<registry, guard, disk, temp, upkeep>>

RequestSegment(j, s) ==
    /\ Begins(j)
    /\ Begin(j, [NoJob EXCEPT !.phase = "lookup", !.file = s, !.key = lastOwner])
    /\ UNCHANGED <<registry, guard, lastOwner, disk, temp, upkeep>>

-----------------------------------------------------------------------------
(* A segment: found on disk, or fetched *)

LookupHit(j) ==
    /\ At(j, "lookup")
    /\ disk[File(j)] # None
    /\ Goto(j, "streaming")
    /\ UNCHANGED <<registry, guard, lastOwner, disk, temp, upkeep>>

Streamed(j) ==
    /\ At(j, "streaming")
    /\ registry' = [k \in Keys |->
          IF k = Key(j) THEN WithSegment(registry[k], File(j)) ELSE registry[k]]
    /\ Answer(j)
    /\ UNCHANGED <<guard, lastOwner, disk, temp, upkeep>>

NotOnDisk(j) ==
    /\ jobs[j].phase \in {"lookup", "streaming"}
    /\ disk[File(j)] = None

OwnerMissing(j) ==
    /\ NotOnDisk(j)
    /\ Key(j) \in Keys => registry[Key(j)].kind = "none"
    /\ Answer(j)
    /\ UNCHANGED <<registry, guard, lastOwner, disk, temp, upkeep>>

\* getGeneration(ownerKey), then writeTemp up to its await.
FetchSegment(j) ==
    /\ NotOnDisk(j)
    /\ Key(j) \in Keys
    /\ registry[Key(j)].kind # "none"
    /\ jobs' = [jobs EXCEPT ![j].phase = "fetching",
                            ![j].held = registry[Key(j)].kind,
                            ![j].gen = generation[Key(j)]]
    /\ Acquire(Key(j))
    /\ temp' = [temp EXCEPT ![File(j)] = j]
    /\ UNCHANGED <<registry, generation, lastOwner, disk, upkeep>>

\* Mutant: a playlist whose fetch failed is given up without an answer.
FetchFailsSilently(j) ==
    /\ At(j, "fetching")
    /\ IF IsPlaylist(j)
       THEN Goto(j, "done") /\ UNCHANGED downloading
       ELSE Answer(j) /\ Release(Key(j))
    /\ UNCHANGED <<registry, generation, lastOwner, disk, temp, upkeep>>

\* A network error, or a cancelTask by a removal or a wipe; a segment's partial temp
\* is left where it is.
FetchFails(j) ==
    /\ At(j, "fetching")
    /\ IF IsPlaylist(j)
       THEN Goto(j, "fallback") /\ UNCHANGED downloading
       ELSE Answer(j) /\ Release(Key(j))
    /\ UNCHANGED <<registry, generation, lastOwner, disk, temp, upkeep>>

\* The answer of the origin; for a playlist, write(tempPath) up to its await: the temp is
\* opened, and empty.
FetchDone(j) ==
    /\ At(j, "fetching")
    /\ \E body \in IF IsPlaylist(j) THEN {"good", "short"} ELSE Bodies :
          jobs' = [jobs EXCEPT
                ![j].body = body,
                ![j].phase = IF IsPlaylist(j) THEN "writing" ELSE "reading"]
    /\ temp' = IF IsPlaylist(j) THEN [temp EXCEPT ![File(j)] = j] ELSE temp
    /\ UNCHANGED <<registry, guard, lastOwner, disk, upkeep>>

\* read(tempPath): a temp that is gone reads as an empty body ...
ReadTemp(j) ==
    /\ At(j, "reading")
    /\ Goto(j, "verifying")
    /\ UNCHANGED <<registry, guard, lastOwner, disk, temp, upkeep>>

\* ... unless it went between existsFile and readFile; nothing releases the slot then.
ReadFails(j) ==
    /\ At(j, "reading")
    /\ temp[File(j)] = None
    /\ Answer(j)
    /\ UNCHANGED <<registry, guard, lastOwner, disk, temp, upkeep>>

-----------------------------------------------------------------------------
(* A playlist: written out by the handler *)

WriteEnds(j) ==
    /\ At(j, "writing")
    /\ Goto(j, "verifying")
    /\ UNCHANGED <<registry, guard, lastOwner, disk, temp, upkeep>>

\* What was opened stays behind, not filled; nothing, if it could not be opened.
WriteFails(j) ==
    /\ At(j, "writing")
    /\ temp' \in {temp, [temp EXCEPT ![File(j)] = None]}
    /\ Answer(j)
    /\ UNCHANGED <<registry, guard, lastOwner, disk, upkeep>>

\* respondWithCachedPlaylistOrError: the last verified playlist, or a 502.
Fallback(j) ==
    /\ At(j, "fallback")
    /\ Answer(j)
    /\ UNCHANGED <<registry, guard, lastOwner, disk, temp, upkeep>>

-----------------------------------------------------------------------------
(* verifyAndPromote *)

\* Refused before the temp is looked at.
Refused(j) == jobs[j].body = "refused"

\* Mutant: the size is not compared.
MayFitUnchecked(j) == TRUE

\* The size of the temp against the length passed in: the origin's for a segment; for a
\* playlist that of the body itself, whatever the origin announced.  A temp some other
\* handler opened meanwhile may have any size.
MayFit(j) == temp[File(j)] = j /\ ~IsPlaylist(j) => jobs[j].body = "good"

\* A playlist that is no UTF-8 text changes its size as it is decoded and written.
MayMisfit(j) == temp[File(j)] = j => jobs[j].body # "good"

Stale(j) == jobs[j].gen # generation[Key(j)]

\* The size, then the generation.
Unfit(j) == temp[File(j)] # None /\ (MayMisfit(j) \/ Stale(j))

Discard(j) ==
    /\ At(j, "verifying")
    /\ Refused(j) \/ Unfit(j)
    /\ temp' = [temp EXCEPT ![File(j)] = None]
    /\ Release(Key(j))
    /\ IF IsPlaylist(j) THEN Goto(j, "fallback") ELSE Answer(j)
    /\ UNCHANGED <<registry, generation, lastOwner, disk, upkeep>>

StatFails(j) ==
    /\ At(j, "verifying")
    /\ ~Refused(j)
    /\ temp[File(j)] = None
    /\ Release(Key(j))
    /\ Answer(j)
    /\ UNCHANGED <<registry, generation, lastOwner, disk, temp, upkeep>>

Authorise(j) ==
    /\ At(j, "verifying")
    /\ ~Refused(j)
    /\ temp[File(j)] # None
    /\ MayFit(j)
    /\ ~Stale(j)
    /\ Goto(j, "clearing")
    /\ UNCHANGED <<registry, guard, lastOwner, disk, temp, upkeep>>

\* moveFile clears the destination, then renames.
ClearFinal(j) ==
    /\ At(j, "clearing")
    /\ disk' = [disk EXCEPT ![File(j)] = None]
    /\ Goto(j, "moving")
    /\ UNCHANGED <<registry, guard, lastOwner, temp, upkeep>>

\* The rename, the registration it leads to, and the answer.  A segment whose owner was
\* read as media, and whose total length is known, writes that entry back as it was read.
Move(j) ==
    /\ At(j, "moving")
    /\ temp[File(j)] # None
    /\ disk' = [disk EXCEPT ![File(j)] = temp[File(j)]]
    /\ temp' = [temp EXCEPT ![File(j)] = None]
    /\ Release(Key(j))
    /\ \E entry \in IF IsPlaylist(j) THEN {WithPlaylist(registry[Key(j)])}
                    ELSE IF jobs[j].held = "media"
                    THEN {Media, WithSegment(registry[Key(j)], File(j))}
                    ELSE {WithSegment(registry[Key(j)], File(j))} :
          registry' = [registry EXCEPT ![Key(j)] = entry]
    /\ AnswerLeaving(j, jobs[j].body)
    /\ UNCHANGED <<generation, lastOwner, upkeep>>

MoveFails(j) ==
    /\ At(j, "moving")
    /\ Release(Key(j))
    /\ Answer(j)
    /\ UNCHANGED <<registry, generation, lastOwner, disk, temp, upkeep>>

JobStep(j) ==
    \/ LookupHit(j) \/ Streamed(j) \/ OwnerMissing(j) \/ FetchSegment(j)
    \/ FetchFails(j) \/ FetchDone(j) \/ ReadTemp(j) \/ ReadFails(j)
    \/ WriteEnds(j) \/ WriteFails(j) \/ Fallback(j)
    \/ Discard(j) \/ StatFails(j) \/ Authorise(j) \/ ClearFinal(j)
    \/ Move(j) \/ MoveFails(j)

-----------------------------------------------------------------------------
(* Look-ups *)

Operate == ops < MaxOps /\ ops' = ops + 1

Bump(k) == generation' = [generation EXCEPT ![k] = @ + 1]

AwaitNext(c, k, stage) == looking' = [looking EXCEPT ![c][k] = stage]

\* getCachedFileAsync, down to its first await.
BeginLookup(c, k) ==
    /\ Operate
    /\ looking[c][k] = "none"
    /\ AwaitNext(c, k, IF c = "list" \/ registry[k].kind = "none" THEN "final" ELSE "entry")
    /\ UNCHANGED <<jobs, registry, downloading, lastOwner, disk, temp,
                   evicting, doomed, wiping>>

LookUp(c, k) == c # "removal" /\ BeginLookup(c, k) /\ UNCHANGED generation

\* removeCachedVideo, down to its await; the cancelTask is FetchFails.
Remove(k) == BeginLookup("removal", k) /\ Bump(k)

EntryStat(c, k) ==
    /\ looking[c][k] = "entry"
    /\ AwaitNext(c, k, IF disk[k] # None THEN "kept" ELSE "missed")
    /\ UNCHANGED temp

\* preCacheForList makes nothing of a file that is not there.
FinalStat(c, k) ==
    /\ looking[c][k] = "final"
    /\ AwaitNext(c, k, IF disk[k] # None THEN "found" ELSE IF c = "list" THEN "none" ELSE "temp")
    /\ UNCHANGED temp

TempStat(c, k) ==
    /\ looking[c][k] = "temp"
    /\ AwaitNext(c, k, IF temp[k] # None THEN "unlink" ELSE "missed")
    /\ UNCHANGED temp

\* The orphaned temp is deleted; if it has gone meanwhile the look-up rejects.
UnlinkTemp(c, k) ==
    /\ looking[c][k] = "unlink"
    /\ AwaitNext(c, k, IF temp[k] # None THEN "missed" ELSE "none")
    /\ temp' = [temp EXCEPT ![k] = None]

LookupAwaits(c, k) ==
    /\ EntryStat(c, k) \/ FinalStat(c, k) \/ TempStat(c, k) \/ UnlinkTemp(c, k)
    /\ UNCHANGED <<jobs, registry, guard, lastOwner, disk, evicting, doomed, wiping, ops>>

\* Mutant: didEvictHandler tells an hls asset by its key, which is a hash: one file.
EvictedFilesBySniffing(k, entry) == IF entry.kind = "none" THEN {} ELSE {k}

\* didEvictHandler: the playlist and all its segments, or the one media file.
EvictedFiles(k, entry) == IF entry.kind = "none" THEN {} ELSE {k} \cup entry.segs

\* The entry is dropped, or replaced by a media entry - what it is by now is not asked -
\* and a removal takes whatever entry there is then.
LookupEnds(c, k) ==
    /\ looking[c][k] \in {"kept", "found", "missed"}
    /\ AwaitNext(c, k, "none")
    /\ LET entry == CASE looking[c][k] = "kept"   -> registry[k]
                      [] looking[c][k] = "found"  -> Media
                      [] looking[c][k] = "missed" -> Missing
       IN  IF c = "removal"
           THEN /\ registry' = [registry EXCEPT ![k] = Missing]
                /\ doomed' = doomed \cup EvictedFiles(k, entry)
           ELSE registry' = [registry EXCEPT ![k] = entry] /\ UNCHANGED doomed
    /\ UNCHANGED <<jobs, guard, lastOwner, disk, temp, evicting, wiping, ops>>

-----------------------------------------------------------------------------
(* Eviction, removal, wipe *)

\* One candidate of LFUSizePolicy.onEvict, down to the await of didEvictHandler.
Evict(k) ==
    /\ Operate
    /\ evicting = {}
    /\ registry[k].kind # "none"
    /\ downloading[k] = 0
    /\ Bump(k)
    /\ registry' = [registry EXCEPT ![k] = Missing]
    /\ evicting' = EvictedFiles(k, registry[k])
    /\ UNCHANGED <<jobs, downloading, lastOwner, disk, temp, looking, doomed, wiping>>

Clear ==
    /\ Operate
    /\ ~wiping
    /\ generation' = [k \in Keys |->
          IF registry[k].kind = "none" THEN generation[k] ELSE generation[k] + 1]
    /\ registry' = [k \in Keys |-> Missing]
    /\ wiping' = TRUE
    /\ UNCHANGED <<jobs, downloading, lastOwner, disk, temp, looking, evicting, doomed>>

Wipe ==
    /\ wiping
    /\ wiping' = FALSE
    /\ disk' = [f \in Files |-> None]
    /\ temp' = [f \in Files |-> None]
    /\ UNCHANGED <<jobs, registry, guard, lastOwner, looking, evicting, doomed, ops>>

UnlinkEvicted(f) ==
    /\ f \in evicting
    /\ disk[f] # None
    /\ evicting' = evicting \ {f}
    /\ disk' = [disk EXCEPT ![f] = None]
    /\ UNCHANGED <<jobs, registry, guard, lastOwner, temp, looking, doomed, wiping, ops>>

\* Promise.all rejects at the first failure: the eviction ends, the others go on.
UnlinkMissing(f) ==
    /\ f \in evicting
    /\ disk[f] = None
    /\ evicting' = {}
    /\ doomed' = doomed \cup (evicting \ {f})
    /\ UNCHANGED <<jobs, registry, guard, lastOwner, disk, temp, looking, wiping, ops>>

UnlinkDoomed(f) ==
    /\ f \in doomed
    /\ doomed' = doomed \ {f}
    /\ disk' = [disk EXCEPT ![f] = None]
    /\ UNCHANGED <<jobs, registry, guard, lastOwner, temp, looking, evicting, wiping, ops>>

Upkeep ==
    \/ \E c \in Callers, k \in Keys : LookupAwaits(c, k) \/ LookupEnds(c, k)
    \/ \E f \in Files : UnlinkEvicted(f) \/ UnlinkMissing(f) \/ UnlinkDoomed(f)
    \/ Wipe

Next ==
    \/ \E j \in Jobs, k \in Keys : RequestPlaylist(j, k)
    \/ \E j \in Jobs, s \in Segs : RequestSegment(j, s)
    \/ \E j \in Jobs : JobStep(j)
    \/ \E c \in Callers, k \in Keys : LookUp(c, k)
    \/ \E k \in Keys : Remove(k) \/ Evict(k)
    \/ Clear
    \/ Upkeep

\* Origins, disks and the event loop answer in the end; nobody has to ask.
Fairness == (\A j \in Jobs : WF_vars(JobStep(j))) /\ WF_vars(Upkeep)

Spec == Init /\ [][Next]_vars /\ Fairness
-----------------------------------------------------------------------------
(* What the cache must guarantee *)

\* What a handler leaves at a final path is whole, though evictions, wipes, removals,
\* look-ups and failed moves work on the same paths (fileSystem.ts: a download "is renamed
\* to the final path only after size verification passes"): a segment is the origin's
\* successful answer in its full length, a playlist all that was received of it.  Only a
\* handler beside which another request for the same path was in flight is excepted: the
\* two write one temp, and then the rename may take what neither has finished.
VerifiedOnDisk ==
    \A f \in Files :
        disk[f] \in Jobs /\ jobs[disk[f]].alone =>
            /\ jobs[disk[f]].phase = "done" /\ jobs[disk[f]].body # "none"
            /\ f \in Segs => jobs[disk[f]].body = "good"

\* A file of this session has somebody who answers for it: an entry that lists it, or an
\* unlink or a wipe on its way.
Listed(f) == \E k \in Keys : registry[k].kind # "none" /\ f \in {k} \cup registry[k].segs

Accounted(f) == disk[f] \in Jobs => Listed(f) \/ f \in evicting \cup doomed \/ wiping

\* No file is forgotten on disk, where no capacity counts it: not by evictions, removals,
\* wipes, failed unlinks, re-ingests or promotes that run into each other.  The code has
\* two exceptions: a look-up that drops or replaces the entry it finds when its answer
\* comes, and a segment that is promoted when its owner's entry has gone or is, or was
\* when it was read, a media one.
NoOrphan ==
    [][ \A f \in Files : Accounted(f) =>
          \/ Accounted(f)'
          \/ \E c \in Callers, k \in Keys :
                looking[c][k] \in {"found", "missed"} /\ looking'[c][k] = "none"
          \/ \E j \in Jobs :
                /\ At(j, "moving") /\ ~IsPlaylist(j) /\ jobs'[j].phase = "done"
                /\ "hls" # registry[Key(j)].kind \/ jobs[j].held = "media" ]_vars

\* The registry's bytes, which alone drive eviction, count the playlist and each
\* registered segment once, however hits, promotes and re-ingests interleave.
BytesCounted ==
    \A k \in Keys :
        registry[k].kind = "hls" => registry[k].bytes = 1 + Cardinality(registry[k].segs)

\* No request hangs: whatever is evicted, removed, wiped or lost meanwhile, every
\* handler that has begun comes to its one answer (R10).
EveryRequestAnswered == \A j \in Jobs : InFlight(j) ~> jobs[j].sent = 1

\* A promote whose generation is no longer current never touches the final path
\* (verifiedWrite.ts, "no-resurrection guard").
StaleNeverLands ==
    [][ \A j \in Jobs :
          (At(j, "moving") /\ jobs'[j].phase = "done" /\ disk'[File(j)] # disk[File(j)])
              => jobs[j].gen = generation[Key(j)] ]_vars
=============================================================================
