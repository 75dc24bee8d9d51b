---------------------------- MODULE PreCacheQueue ----------------------------
(***************************************************************************)
(* PreCacheProvider: the pre-cache list, the runners that work it off, and *)
(* the verified download of a media file (prepareSourceMedia), beside      *)
(* lookups and removals of the same files by CacheManager.                 *)
(*                                                                         *)
(* A promise's continuation runs before the next native event, so the code *)
(* between two awaits is one step.  The list and cachingUrl know a URL by  *)
(* its href; its path and its registry key come from CacheKeyPolicy, which *)
(* drops scheme, fragment and signing parameters: two URLs may have one    *)
(* file.  A file at a path is missing, cut short ("part"), complete        *)
(* ("whole"), or of full length with a gap ("holed").                      *)
(***************************************************************************)
EXTENDS Naturals, Sequences, FiniteSets

CONSTANTS
    Media,       \* URLs of media files
    Streams,     \* URLs of playlists, prefetched by PrefetchWindow
    Malformed,   \* media URLs that decodeURIComponent rejects
    Encoded,     \* URLs whose decoded form is another string
    FileOf,      \* URL -> its final path, and its key: one identity gives both
    Lists,       \* the pages that the application lists
    NoFile,      \* (value) no file
    MaxOps,      \* bound: calls of the application
    MaxTasks     \* bound: downloads at once, and runners at once

Urls == Media \union Streams \union Malformed
Files == {FileOf[u] : u \in Urls}
MediaFiles == {FileOf[u] : u \in Media}

ASSUME UrlsAssumption ==
    /\ Media \intersect Streams = {} /\ Media \intersect Malformed = {}
    /\ Streams \intersect Malformed = {} /\ Encoded \subseteq Media
ASSUME ListsAssumption == Lists \subseteq Seq(Urls)
ASSUME NoFileAssumption == NoFile \notin {"part", "whole", "holed"}
ASSUME BoundsAssumption == MaxOps \in Nat /\ MaxTasks \in Nat

VARIABLES
    preCachingList,    \* URLs still to be cached
    isRunningThread,   \* the semaphore of runThread
    runners,           \* runCacheFromCDN calls that await something
    pages,             \* preCacheForList calls that await existsFile
    cachingUrl,        \* URL -> its download, 0 if none is entered
    errorCachingList,  \* URLs recorded for a retry
    tasks,             \* prepareSourceMedia calls under way
    asks,              \* getCachedFileAsync and removeCachedVideo calls under way
    temp, final,       \* what lies at a file's temp path, and at its final path
    cached,            \* files in the registry
    ops,               \* calls so far
    shared,            \* (history) files that two downloads have worked on at once
    loosened,          \* (history) a direct call, a cancel or an encoded URL came in
    threw              \* (history) a runner has died of a malformed URL

queue == <<preCachingList, isRunningThread, runners>>
disk == <<temp, final>>
history == <<shared, loosened, threw>>
vars == <<queue, pages, cachingUrl, errorCachingList, tasks, asks, disk, cached, ops, history>>

-----------------------------------------------------------------------------
Contents == {NoFile, "part", "whole", "holed"}
Reasons == {"NO_CONTENT_LENGTH", "SIZE_MISMATCH", "DOWNLOAD_FAILED"}
Ids == 1 .. MaxTasks

\* A task is fetching, awaits stat, the unlink and the rename of moveFile, is about to
\* register, or awaits the unlink of its temp for a reason.  Its open file lies at the temp
\* path, at the final path or nowhere any more; cut: another download has truncated it.
Stages == {"fetch", "stat", "unlink", "rename", "register"} \union Reasons
Tasks == [id : Ids, url : Media, path : MediaFiles, at : Stages,
          file : {"unopened", "temp", "final", "gone"}, cut : BOOLEAN]

\* A runner awaits a download, a prefetch or the 300 ms delay; held: runThread awaits it.
Runners == [id : Ids, at : {"download", "prefetch", "delay"}, task : {0} \union Ids,
            held : BOOLEAN]

Pages == [urls : Seq(Urls), exist : SUBSET Files, at : {"exists", "go"}]
Asks == [path : MediaFiles, removal : BOOLEAN, at : {"entry", "final", "temp", "unlink", "files"}]

Init ==
    /\ preCachingList = <<>> /\ isRunningThread = FALSE /\ runners = {} /\ pages = {}
    /\ cachingUrl = [u \in Urls |-> 0] /\ errorCachingList = {} /\ tasks = {} /\ asks = {}
    /\ temp \in [Files -> {NoFile, "part"}]     \* a killed session leaves partial temps
    /\ final \in [Files -> {NoFile, "whole"}]
    /\ \A f \in Files \ MediaFiles : temp[f] = NoFile /\ final[f] = NoFile
    /\ cached \in SUBSET {f \in Files : final[f] # NoFile}
    /\ ops = 0 /\ shared = {} /\ loosened = FALSE /\ threw = FALSE

\* A call of the application; at most MaxOps of them.
Call == ops < MaxOps /\ ops' = ops + 1

FreeIds(S) == Ids \ {x.id : x \in S}
LeastFree(S) == CHOOSE i \in FreeIds(S) : \A j \in FreeIds(S) : i <= j
Room(S) == FreeIds(S) # {}

\* The elements of s at the positions in kept, in their order.
Kept(s, kept) ==
    [n \in 1 .. Cardinality(kept) |->
        s[CHOOSE i \in kept : Cardinality({j \in kept : j < i}) = n - 1]]

\* The URLs of a page that are new: file not on disk, href not listed, key not registered.
NewUrls(p) ==
    LET listed == {preCachingList[i] : i \in DOMAIN preCachingList}
    IN  Kept(p.urls, {i \in DOMAIN p.urls : /\ FileOf[p.urls[i]] \notin p.exist \union cached
                                           /\ p.urls[i] \notin listed})

-----------------------------------------------------------------------------
(***************************************************************************)
(* prepareSourceMedia, up to its first await.                              *)
(***************************************************************************)
\* The entry of u in cachingUrl is overwritten; the temp path is that of every URL of its file.
StartTask(u) ==
    LET id == LeastFree(tasks)
    IN  /\ tasks' = tasks \union
                {[id |-> id, url |-> u, path |-> FileOf[u], at |-> "fetch",
                  file |-> "unopened", cut |-> FALSE]}
        /\ cachingUrl' = [cachingUrl EXCEPT ![u] = id]
        /\ shared' = IF \E t \in tasks : t.path = FileOf[u] THEN shared \union {FileOf[u]}
                     ELSE shared

-----------------------------------------------------------------------------
(***************************************************************************)
(* runThread and runCacheFromCDN.                                          *)
(***************************************************************************)

\* (mutated) No guard against a download that is under way.
EnteredNever(u) == FALSE

\* The list and the guard know an encoded URL by different strings.
Entered(u) == u \notin Encoded /\ cachingUrl[u] # 0

\* runCacheFromCDN on list L among the runners others; hold: runThread awaits it.  URLs being
\* downloaded are skipped at once, which ends what runThread awaits; the first other one is
\* worked on.
RunList(L, others, hold) ==
    LET free == {i \in DOMAIN L : ~Entered(L[i])}
        first == CHOOSE i \in free : \A j \in free : i <= j
        u == L[first]
        runner(at, task) == [id |-> LeastFree(others), at |-> at, task |-> task,
                             held |-> hold /\ first = 1]
    IN  \/ /\ free = {}
           /\ preCachingList' = <<>>
           /\ runners' = others
           /\ isRunningThread' = \E r \in others : r.held
           /\ UNCHANGED <<tasks, cachingUrl, history>>
        \/ /\ free # {} /\ u \in Media
           /\ Room(tasks) /\ Room(others)
           /\ preCachingList' = SubSeq(L, first + 1, Len(L))
           /\ StartTask(u)
           /\ runners' = others \union {runner("download", LeastFree(tasks))}
           /\ isRunningThread' = \E r \in runners' : r.held
           /\ loosened' = (loosened \/ u \in Encoded)
           /\ UNCHANGED threw
        \/ /\ free # {} /\ u \in Streams
           /\ Room(others)
           /\ preCachingList' = SubSeq(L, first + 1, Len(L))
           /\ runners' = others \union {runner("prefetch", 0)}
           /\ isRunningThread' = \E r \in runners' : r.held
           /\ UNCHANGED <<tasks, cachingUrl, history>>
        \/ /\ free # {} /\ u \in Malformed
           /\ preCachingList' = SubSeq(L, first + 1, Len(L))
           /\ runners' = others
           /\ isRunningThread' = \E r \in others : r.held
           /\ threw' = TRUE
           /\ UNCHANGED <<tasks, cachingUrl, shared, loosened>>

\* preCacheForList: asks for every URL whether its file exists.
PreCacheForList(urls) ==
    /\ Call
    /\ pages' = pages \union {[urls |-> urls, exist |-> {}, at |-> "exists"]}
    /\ UNCHANGED <<queue, cachingUrl, errorCachingList, tasks, asks, disk, cached, history>>

FilesExist(p) ==
    /\ p \in pages /\ p.at = "exists"
    /\ pages' = (pages \ {p}) \union
            {[p EXCEPT !.exist = {f \in Files : final[f] # NoFile}, !.at = "go"]}
    /\ UNCHANGED <<queue, cachingUrl, errorCachingList, tasks, asks, disk, cached, ops, history>>

\* (mutated) runThread does not look at its semaphore.
ListPageUnchecked(p) ==
    /\ p \in pages /\ p.at = "go"
    /\ pages' = pages \ {p}
    /\ cached' = cached \union {f \in p.exist : \E i \in DOMAIN p.urls : FileOf[p.urls[i]] = f}
    /\ RunList(NewUrls(p) \o preCachingList, runners, TRUE)
    /\ UNCHANGED <<errorCachingList, asks, disk, ops>>

\* What exists is registered; the rest, unless listed or registered, goes before the list;
\* a runner is started unless runThread awaits one.
ListPage(p) ==
    /\ p \in pages /\ p.at = "go"
    /\ pages' = pages \ {p}
    /\ cached' = cached \union {f \in p.exist : \E i \in DOMAIN p.urls : FileOf[p.urls[i]] = f}
    /\ LET L == NewUrls(p) \o preCachingList
       IN  IF isRunningThread
           THEN /\ preCachingList' = L
                /\ UNCHANGED <<isRunningThread, runners, tasks, cachingUrl, history>>
           ELSE RunList(L, runners, TRUE)
    /\ UNCHANGED <<errorCachingList, asks, disk, ops>>

\* (mutated) The runner ends after one URL.
RunOnNever(r) ==
    /\ r \in runners /\ r.at = "delay"
    /\ runners' = runners \ {r}
    /\ isRunningThread' = \E q \in runners' : q.held
    /\ UNCHANGED <<preCachingList, pages, cachingUrl, errorCachingList, tasks, asks, disk, cached,
                   ops, history>>

\* After the delay: on with the list, if there is any, no longer awaited by runThread.
RunOn(r) ==
    /\ r \in runners /\ r.at = "delay"
    /\ RunList(preCachingList, runners \ {r}, FALSE)
    /\ UNCHANGED <<pages, errorCachingList, asks, disk, cached, ops>>

\* prefetchHlsAsset returns, whatever came of it.
Prefetched(r) ==
    /\ r \in runners /\ r.at = "prefetch"
    /\ runners' = (runners \ {r}) \union {[r EXCEPT !.at = "delay"]}
    /\ UNCHANGED <<preCachingList, isRunningThread, pages, cachingUrl, errorCachingList, tasks,
                   asks, disk, cached, ops, history>>

\* preCacheFor of a media URL by useCache, or by PrefetchWindow for an item of its window.
PreCacheFor(u) ==
    /\ Call
    /\ Room(tasks)
    /\ StartTask(u)
    /\ loosened' = TRUE
    /\ UNCHANGED <<queue, pages, errorCachingList, asks, disk, cached, threw>>

\* cancelCachingList (disableBridgeServer): entered downloads are cancelled - they will fail,
\* as any may - and forgotten, the list otherwise stays.
CancelCachingList ==
    /\ Call
    /\ LET entered == {u \in Urls : cachingUrl[u] # 0}
           first == {i \in DOMAIN preCachingList :
                        /\ preCachingList[i] \in entered \ Encoded
                        /\ \A j \in 1 .. (i - 1) : preCachingList[j] # preCachingList[i]}
       IN  /\ errorCachingList' = errorCachingList \ entered
           /\ preCachingList' = Kept(preCachingList, DOMAIN preCachingList \ first)
    /\ cachingUrl' = [u \in Urls |-> 0]
    /\ loosened' = TRUE
    /\ UNCHANGED <<isRunningThread, runners, pages, tasks, asks, disk, cached, shared, threw>>

-----------------------------------------------------------------------------
(***************************************************************************)
(* prepareSourceMedia, from its first await on.                            *)
(***************************************************************************)
Becomes(t, new) == tasks' = (tasks \ {t}) \union {new}

\* Open files follow their file: at path from they now are at path to, others stay.
Follow(S, f, from, to) ==
    {IF t.path = f /\ t.file = from THEN [t EXCEPT !.file = to] ELSE t : t \in S}

\* The finally block, whoever's entry that is; the runner goes on to its delay.
Ends(t, S) ==
    /\ cachingUrl' = [cachingUrl EXCEPT ![t.url] = 0]
    /\ tasks' = S \ {t}
    /\ runners' = {IF r.task = t.id THEN [r EXCEPT !.at = "delay", !.task = 0] ELSE r : r \in runners}
    /\ UNCHANGED <<preCachingList, isRunningThread>>

\* The first byte: the file at the temp path is created or, if there is one, truncated.
Open(t) ==
    /\ t \in tasks /\ t.at = "fetch" /\ t.file = "unopened"
    /\ temp' = [temp EXCEPT ![t.path] = "part"]
    /\ tasks' = {IF s = t THEN [s EXCEPT !.file = "temp"]
                 ELSE IF s.path = t.path /\ s.file = "temp" /\ s.at = "fetch"
                      THEN [s EXCEPT !.cut = TRUE] ELSE s : s \in tasks}
    /\ UNCHANGED <<queue, pages, cachingUrl, errorCachingList, asks, final, cached, ops, history>>

\* The last byte, with or without a Content-Length: complete, but for what another has cut.
Filled(t, was) == IF ~t.cut \/ was = "whole" THEN "whole" ELSE "holed"

Fetch(t) ==
    /\ t \in tasks /\ t.at = "fetch" /\ t.file # "unopened"
    /\ temp' = IF t.file = "temp" THEN [temp EXCEPT ![t.path] = Filled(t, @)] ELSE temp
    /\ final' = IF t.file = "final" THEN [final EXCEPT ![t.path] = Filled(t, @)] ELSE final
    /\ \E next \in {"stat", "NO_CONTENT_LENGTH"} : Becomes(t, [t EXCEPT !.at = next])
    /\ UNCHANGED <<queue, pages, cachingUrl, errorCachingList, asks, cached, ops, history>>

\* Bytes are missing: the answer is short, or the request fails or is cancelled.
FetchFails(t) ==
    /\ t \in tasks /\ t.at = "fetch"
    /\ \/ t.file # "unopened" /\ Becomes(t, [t EXCEPT !.at = "stat"])
       \/ Becomes(t, [t EXCEPT !.at = "DOWNLOAD_FAILED"])
    /\ UNCHANGED <<queue, pages, cachingUrl, errorCachingList, asks, disk, cached, ops, history>>

\* (mutated) A short file passes.
VerdictUnchecked(t) == IF temp[t.path] = NoFile THEN "DOWNLOAD_FAILED" ELSE "unlink"

\* The size against Content-Length.
Verdict(t) ==
    IF temp[t.path] = NoFile THEN "DOWNLOAD_FAILED"
    ELSE IF temp[t.path] = "part" THEN "SIZE_MISMATCH" ELSE "unlink"

Stat(t) ==
    /\ t \in tasks /\ t.at = "stat"
    /\ Becomes(t, [t EXCEPT !.at = Verdict(t)])
    /\ UNCHANGED <<queue, pages, cachingUrl, errorCachingList, asks, disk, cached, ops, history>>

\* moveFile: the destination is unlinked ...
UnlinkFinal(t) ==
    /\ t \in tasks /\ t.at = "unlink"
    /\ final' = [final EXCEPT ![t.path] = NoFile]
    /\ tasks' = Follow(tasks \ {t}, t.path, "final", "gone") \union {[t EXCEPT !.at = "rename"]}
    /\ UNCHANGED <<queue, pages, cachingUrl, errorCachingList, asks, temp, cached, ops, history>>

\* ... and the temp renamed, over a destination that is there again on Android only.
Rename(t) ==
    /\ t \in tasks /\ t.at = "rename"
    /\ \/ /\ temp[t.path] # NoFile
          /\ final' = [final EXCEPT ![t.path] = temp[t.path]]
          /\ temp' = [temp EXCEPT ![t.path] = NoFile]
          /\ tasks' = Follow(Follow(tasks \ {t}, t.path, "final", "gone"), t.path, "temp", "final")
                        \union {[t EXCEPT !.at = "register", !.file = "final"]}
       \/ /\ temp[t.path] = NoFile \/ final[t.path] # NoFile
          /\ Becomes(t, [t EXCEPT !.at = "DOWNLOAD_FAILED"])
          /\ UNCHANGED disk
    /\ UNCHANGED <<queue, pages, cachingUrl, errorCachingList, asks, cached, ops, history>>

\* onCachingPlaylistSource and putCachedFile, whatever has happened to the asset meanwhile.
Register(t) ==
    /\ t \in tasks /\ t.at = "register"
    /\ cached' = cached \union {t.path}
    /\ errorCachingList' = errorCachingList \ {t.url}
    /\ Ends(t, tasks)
    /\ UNCHANGED <<pages, asks, disk, ops, history>>

\* (mutated) Only a failed download's temp is deleted.
DiscardFailed(t) ==
    /\ t \in tasks /\ t.at \in Reasons
    /\ temp' = IF t.at = "DOWNLOAD_FAILED" THEN [temp EXCEPT ![t.path] = NoFile] ELSE temp
    /\ errorCachingList' = IF t.at = "NO_CONTENT_LENGTH" THEN errorCachingList
                           ELSE errorCachingList \union {t.url}
    /\ Ends(t, {t} \union Follow(tasks \ {t}, t.path, "temp", "gone"))
    /\ UNCHANGED <<pages, asks, final, cached, ops, history>>

\* discardTempFile, and the record for a retry.
Discard(t) ==
    /\ t \in tasks /\ t.at \in Reasons
    /\ temp' = [temp EXCEPT ![t.path] = NoFile]
    /\ errorCachingList' = IF t.at = "NO_CONTENT_LENGTH" THEN errorCachingList
                           ELSE errorCachingList \union {t.url}
    /\ Ends(t, {t} \union Follow(tasks \ {t}, t.path, "temp", "gone"))
    /\ UNCHANGED <<pages, asks, final, cached, ops, history>>

-----------------------------------------------------------------------------
(***************************************************************************)
(* getCachedFileAsync and removeCachedVideo of a media file.               *)
(***************************************************************************)
Ask(f, removal) ==
    /\ Call
    /\ asks' = asks \union {[path |-> f, removal |-> removal,
                             at |-> IF f \in cached THEN "entry" ELSE "final"]}
    /\ UNCHANGED <<queue, pages, cachingUrl, errorCachingList, tasks, disk, cached, history>>

\* The file is there: a look-up without an entry registers it, a removal drops the entry and,
\* if there still was one, awaits the deletion of the file.
AskFinds(a) ==
    /\ a \in asks /\ a.at \in {"entry", "final"} /\ final[a.path] # NoFile
    /\ LET entered == IF a.at = "final" THEN cached \union {a.path} ELSE cached
       IN  /\ cached' = IF a.removal THEN entered \ {a.path} ELSE entered
           /\ asks' = (asks \ {a}) \union
                  (IF a.removal /\ a.path \in entered THEN {[a EXCEPT !.at = "files"]} ELSE {})
    /\ UNCHANGED <<queue, pages, cachingUrl, errorCachingList, tasks, disk, ops, history>>

\* It is not: a stale entry goes; without an entry, so does a temp of a killed session.
AskMisses(a) ==
    /\ a \in asks /\ a.at \in {"entry", "final", "temp"}
    /\ IF a.at = "temp" THEN temp[a.path] = NoFile ELSE final[a.path] = NoFile
    /\ IF a.at = "final"
       THEN /\ asks' = (asks \ {a}) \union {[a EXCEPT !.at = "temp"]}
            /\ UNCHANGED cached
       ELSE /\ asks' = asks \ {a}
            /\ cached' = cached \ {a.path}
    /\ UNCHANGED <<queue, pages, cachingUrl, errorCachingList, tasks, disk, ops, history>>

AskFindsTemp(a) ==
    /\ a \in asks /\ a.at = "temp" /\ temp[a.path] # NoFile
    /\ asks' = (asks \ {a}) \union {[a EXCEPT !.at = "unlink"]}
    /\ UNCHANGED <<queue, pages, cachingUrl, errorCachingList, tasks, disk, cached, ops, history>>

\* ... which may by now be the temp of a download in flight.
AskUnlinksTemp(a) ==
    /\ a \in asks /\ a.at = "unlink"
    /\ temp' = [temp EXCEPT ![a.path] = NoFile]
    /\ tasks' = Follow(tasks, a.path, "temp", "gone")
    /\ cached' = cached \ {a.path}
    /\ asks' = asks \ {a}
    /\ UNCHANGED <<queue, pages, cachingUrl, errorCachingList, final, ops, history>>

RemoveFile(a) ==
    /\ a \in asks /\ a.at = "files"
    /\ final' = [final EXCEPT ![a.path] = NoFile]
    /\ tasks' = Follow(tasks, a.path, "final", "gone")
    /\ asks' = asks \ {a}
    /\ UNCHANGED <<queue, pages, cachingUrl, errorCachingList, temp, cached, ops, history>>

-----------------------------------------------------------------------------
TaskStep(t) ==
    \/ Open(t) \/ Fetch(t) \/ FetchFails(t) \/ Stat(t)
    \/ UnlinkFinal(t) \/ Rename(t) \/ Register(t) \/ Discard(t)

RunnerStep(r) == RunOn(r) \/ Prefetched(r)

PageStep(p) == FilesExist(p) \/ ListPage(p)

AskStep(a) ==
    AskFinds(a) \/ AskMisses(a) \/ AskFindsTemp(a) \/ AskUnlinksTemp(a) \/ RemoveFile(a)

Next ==
    \/ \E urls \in Lists : PreCacheForList(urls)
    \/ \E u \in Media : PreCacheFor(u)
    \/ \E f \in MediaFiles, removal \in BOOLEAN : Ask(f, removal)
    \/ CancelCachingList
    \/ \E p \in pages : PageStep(p)
    \/ \E r \in runners : RunnerStep(r)
    \/ \E t \in tasks : TaskStep(t)
    \/ \E a \in asks : AskStep(a)

\* File operations, requests and timers answer.  Nothing makes the application call.
Fairness ==
    /\ WF_vars(\E p \in pages : PageStep(p))
    /\ WF_vars(\E t \in tasks : TaskStep(t))
    /\ WF_vars(\E r \in runners : RunnerStep(r))

Spec == Init /\ [][Next]_vars /\ Fairness

-----------------------------------------------------------------------------
(***************************************************************************)
(* Properties.                                                             *)
(***************************************************************************)

\* Types of the variables; the semaphore is taken exactly while runThread awaits a runner, and
\* at most one.
TypeOK ==
    /\ preCachingList \in Seq(Urls)
    /\ runners \subseteq Runners
    /\ isRunningThread = \E r \in runners : r.held
    /\ \A r \in runners, q \in runners : r.held /\ q.held => r = q
    /\ pages \subseteq Pages
    /\ cachingUrl \in [Urls -> {0} \union Ids]
    /\ errorCachingList \subseteq Urls /\ cached \subseteq Files
    /\ tasks \subseteq Tasks /\ asks \subseteq Asks
    /\ temp \in [Files -> Contents] /\ final \in [Files -> Contents]
    /\ ops \in 0 .. MaxOps
    /\ shared \subseteq Files /\ loosened \in BOOLEAN /\ threw \in BOOLEAN

\* What lies at a final path is complete, through every order of downloads, failures, lookups
\* and removals, unless two downloads of that file, by whatever URLs, were under way at once.
FinalIsWhole == \A f \in Files : final[f] \in {NoFile, "whole"} \/ f \in shared

\* The runners by themselves never download one URL twice at once, however many of them run:
\* only a direct call, a cancel or an encoded URL gets past the guard on cachingUrl.  The guard
\* compares hrefs: two URLs of one file are downloaded side by side.
GuardKeepsSerial == loosened \/ \A s \in tasks, t \in tasks : s.url = t.url => s = t

\* Downloads leave no temp file behind: when the last one of a file ends, there is none at its
\* temp path, whatever the others, lookups and removals have done to it.
TempsAreCleared ==
    [][\A f \in MediaFiles : (\E t \in tasks : t.path = f) /\ (\A t \in tasks' : t.path # f)
            => temp'[f] = NoFile]_vars

\* Every page's URLs get worked off, though runThread refuses to run a second thread, unless
\* a malformed URL killed a runner.
ListIsWorkedOff == preCachingList # <<>> ~> preCachingList = <<>> \/ threw
=============================================================================
