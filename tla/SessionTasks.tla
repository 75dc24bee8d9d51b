----------------------------- MODULE SessionTasks -----------------------------
(***************************************************************************)
(* SimpleSessionProvider and, under it, the Android transport: every       *)
(* download the library makes goes through dataTask, is entered by its URL *)
(* in downloadingList - from which isBusy, cancelTask and cancelAllTask    *)
(* are answered - and becomes an OkHttp Call that cancelDownload aborts.   *)
(*                                                                         *)
(* Native methods run one after the other in the order of their calls;     *)
(* OkHttp's threads run beside them.  A download ends for JS in two        *)
(* continuations, dataTask's own and its caller's, in either order.        *)
(* Requests that go through react-native-blob-util (playlists, iOS) are    *)
(* taken to behave alike; what an ended download yields is AssetCache's.   *)
(***************************************************************************)
EXTENDS Naturals, Sequences

CONSTANTS
    Urls,
    MaxDownloads,  \* bound: calls of dataTask
    MaxCancels     \* bound: calls of cancelTask and cancelAllTask

ASSUME UrlsAssumption == Urls # {}
ASSUME BoundsAssumption == MaxDownloads \in Nat /\ MaxCancels \in Nat

VARIABLES
    task,             \* download -> its URL, stage and fate
    downloadingList,  \* URL -> the download entered for it
    prefetchUrls,     \* URLs marked as prefetch
    commands,         \* native calls not yet run
    tracked,          \* downloads whose Call is in the native map
    cancels,          \* cancels so far
    shared            \* (history) URLs with two downloads in flight since any was

js == <<downloadingList, prefetchUrls, cancels, shared>>
vars == <<task, js, commands, tracked>>

-----------------------------------------------------------------------------
Downloads == 1..MaxDownloads           \* in the order of their calls
NoTask == 0                            \* no entry
Continuations == {"entry", "caller"}   \* dataTask's finally, the caller's

\* A download is queued for the native side, streaming there, or settled.
Tasks == [at : {"unused", "queued", "streaming", "settled"}, url : Urls, prefetch : BOOLEAN,
          cancelled : BOOLEAN,   \* JS has called cancel
          aborted : BOOLEAN,     \* ... and the Call was cancelled
          ran : SUBSET Continuations]
Commands == [op : {"download", "cancel"}, ids : (SUBSET Downloads) \ {{}}]

Outstanding(d) == task[d].at # "unused" /\ task[d].ran # Continuations

NewTask(at, u, p) == [at |-> at, url |-> u, prefetch |-> p,
                      cancelled |-> FALSE, aborted |-> FALSE, ran |-> {}]

Init ==
    /\ task = [d \in Downloads |-> NewTask("unused", CHOOSE u \in Urls : TRUE, FALSE)]
    /\ downloadingList = [u \in Urls |-> NoTask] /\ prefetchUrls = {}
    /\ commands = <<>> /\ tracked = {} /\ cancels = 0 /\ shared = {}

-----------------------------------------------------------------------------
(***************************************************************************)
(* JS.                                                                     *)
(***************************************************************************)
Issue(op, ids) == Append(commands, [op |-> op, ids |-> ids])

\* PrefetchWindow marks the URL as it calls, nobody else does.
DataTask(d, u, prefetch) ==
    /\ task[d].at = "unused" /\ \A e \in 1..(d - 1) : task[e].at # "unused"
    /\ task' = [task EXCEPT ![d] = NewTask("queued", u, prefetch)]
    /\ downloadingList' = [downloadingList EXCEPT ![u] = d]
    /\ prefetchUrls' = IF prefetch THEN prefetchUrls \union {u} ELSE prefetchUrls
    /\ shared' = IF \E e \in Downloads : Outstanding(e) /\ task[e].url = u
                 THEN shared \union {u} ELSE shared
    /\ commands' = Issue("download", {d})
    /\ UNCHANGED <<tracked, cancels>>

IsBusy == \E u \in Urls \ prefetchUrls : downloadingList[u] # NoTask

\* (mutated) A URL without an entry is cancelled like any other.
CancelTaskUnchecked(u) ==
    /\ cancels < MaxCancels
    /\ cancels' = cancels + 1
    /\ commands' = Issue("cancel", {downloadingList[u]})
    /\ downloadingList' = [downloadingList EXCEPT ![u] = NoTask]
    /\ prefetchUrls' = prefetchUrls \ {u}
    /\ UNCHANGED <<task, tracked, shared>>

CancelTask(u) ==
    LET d == downloadingList[u]
    IN  /\ cancels < MaxCancels
        /\ cancels' = cancels + 1
        /\ d # NoTask
        /\ task' = [task EXCEPT ![d].cancelled = TRUE]
        /\ commands' = Issue("cancel", {d})
        /\ downloadingList' = [downloadingList EXCEPT ![u] = NoTask]
        /\ prefetchUrls' = prefetchUrls \ {u}
        /\ UNCHANGED <<tracked, shared>>

Entered == {downloadingList[u] : u \in Urls} \ {NoTask}

\* One cancelDownload per entered download, in some order.
CancelAllTask ==
    /\ cancels < MaxCancels
    /\ cancels' = cancels + 1
    /\ task' = [d \in Downloads |-> [task[d] EXCEPT !.cancelled = @ \/ d \in Entered]]
    /\ commands' = IF Entered = {} THEN commands ELSE Issue("cancel", Entered)
    /\ downloadingList' = [u \in Urls |-> NoTask]
    /\ prefetchUrls' = {}
    /\ UNCHANGED <<tracked, shared>>

\* A settled download runs one continuation; with the last one its URL may stop being shared.
Run(d, c) ==
    /\ task[d].at = "settled" /\ c \notin task[d].ran
    /\ task' = [task EXCEPT ![d].ran = @ \union {c}]
    /\ shared' = {u \in shared : \E e \in Downloads :
                      task[e].url = u /\ Outstanding(e) /\ ~(e = d /\ task[d].ran \union {c} = Continuations)}
    /\ UNCHANGED <<commands, tracked, cancels>>

\* (mutated) Only a download that was cancelled drops its entry.
EntryKept(d) ==
    /\ Run(d, "entry")
    /\ downloadingList' = IF task[d].cancelled THEN [downloadingList EXCEPT ![task[d].url] = NoTask]
                          ELSE downloadingList
    /\ UNCHANGED prefetchUrls

\* Whoever's entry it is by now.
DropEntry(d) ==
    /\ Run(d, "entry")
    /\ downloadingList' = [downloadingList EXCEPT ![task[d].url] = NoTask]
    /\ UNCHANGED prefetchUrls

CallerEnds(d) ==
    /\ Run(d, "caller")
    /\ prefetchUrls' = IF task[d].prefetch THEN prefetchUrls \ {task[d].url} ELSE prefetchUrls
    /\ UNCHANGED downloadingList

-----------------------------------------------------------------------------
(***************************************************************************)
(* The native module and OkHttp.                                           *)
(***************************************************************************)

\* The call is tracked and enqueued; a malformed URL is refused at once.
NativeDownload(d) ==
    /\ commands # <<>> /\ Head(commands) = [op |-> "download", ids |-> {d}]
    /\ commands' = Tail(commands)
    /\ \E at \in {"streaming", "settled"} :
          /\ task' = [task EXCEPT ![d].at = at]
          /\ tracked' = IF at = "streaming" THEN tracked \union {d} ELSE tracked
    /\ UNCHANGED js

\* One id of the cancel call at the head is served.
Served(d) ==
    /\ commands # <<>> /\ Head(commands).op = "cancel" /\ d \in Head(commands).ids
    /\ commands' = IF Head(commands).ids = {d} THEN Tail(commands)
                   ELSE [commands EXCEPT ![1].ids = @ \ {d}]

\* (mutated) The call is forgotten and goes on.
NativeCancelForgets(d) ==
    /\ Served(d)
    /\ tracked' = tracked \ {d}
    /\ UNCHANGED <<task, js>>

\* A download that is not tracked any more is left alone.
NativeCancel(d) ==
    /\ Served(d)
    /\ tracked' = tracked \ {d}
    /\ task' = [task EXCEPT ![d].aborted = @ \/ d \in tracked]
    /\ UNCHANGED js

\* A failed call leaves the map and rejects; one that resolves leaves it after that.
Settle(d) ==
    /\ task[d].at = "streaming"
    /\ task' = [task EXCEPT ![d].at = "settled"]
    /\ tracked' \in {tracked, tracked \ {d}}
    /\ UNCHANGED <<js, commands>>

Untrack(d) ==
    /\ task[d].at = "settled" /\ d \in tracked
    /\ tracked' = tracked \ {d}
    /\ UNCHANGED <<task, js, commands>>

\* A call that was cancelled does settle; others may stream for ever.
Ends(d) == task[d].aborted /\ Settle(d)

Continue(d) == DropEntry(d) \/ CallerEnds(d)
Native(d) == NativeDownload(d) \/ NativeCancel(d)

Next ==
    \/ \E d \in Downloads : \/ \E u \in Urls, p \in BOOLEAN : DataTask(d, u, p)
                            \/ Continue(d) \/ Native(d) \/ Settle(d) \/ Untrack(d)
    \/ \E u \in Urls : CancelTask(u)
    \/ CancelAllTask

\* The method queue runs, an aborted read throws, settled promises reach JS.  Each
\* download takes each of these steps once, so none can keep another waiting.
Fairness ==
    /\ WF_vars(\E d \in Downloads : Native(d))
    /\ WF_vars(\E d \in Downloads : Ends(d))
    /\ WF_vars(\E d \in Downloads : Continue(d))

Spec == Init /\ [][Next]_vars /\ Fairness

-----------------------------------------------------------------------------
(***************************************************************************)
(* Properties.                                                             *)
(***************************************************************************)

\* Types.
TypeOK ==
    /\ task \in [Downloads -> Tasks]
    /\ downloadingList \in [Urls -> Downloads \union {NoTask}]
    /\ prefetchUrls \subseteq Urls /\ shared \subseteq Urls
    /\ commands \in Seq(Commands)
    /\ tracked \subseteq Downloads
    /\ cancels \in 0..MaxCancels

Live(d) == task[d].at # "unused" /\ "entry" \notin task[d].ran /\ ~task[d].cancelled

\* An entry names a live download of its URL, and no live download is out of
\* cancelTask's reach unless another of its URL has been in flight with it.
EntriesAreLive ==
    /\ \A u \in Urls : downloadingList[u] # NoTask =>
          Live(downloadingList[u]) /\ task[downloadingList[u]].url = u
    /\ \A d \in Downloads : Live(d) /\ task[d].url \notin shared => downloadingList[task[d].url] = d

\* A mark belongs to a prefetch whose caller still waits: none is left behind to
\* hide the player's next fetch of the URL.
MarksAreOwned ==
    \A u \in prefetchUrls : \E d \in Downloads :
        /\ task[d].url = u /\ task[d].prefetch
        /\ task[d].at # "unused" /\ "caller" \notin task[d].ran

\* While the player fetches, prefetching is told so; while only prefetches whose
\* callers wait are live, it is not.
BusyIsPlaying ==
    /\ (\E d \in Downloads : Live(d) /\ ~task[d].prefetch /\ task[d].url \notin shared) => IsBusy
    /\ IsBusy => \E d \in Downloads :
          /\ Live(d)
          /\ ~task[d].prefetch \/ "caller" \in task[d].ran \/ task[d].url \in shared

\* session.ts's three books - entries, marks, isBusy - agree with what is really in
\* flight, through cancels that overtake downloads and continuations in any order.
BooksAgree == EntriesAreLive /\ MarksAreOwned /\ BusyIsPlaying

\* A cancelled download always reaches its caller: cancelDownload aborts the call
\* that downloadToFile has tracked, and one that is no longer tracked has ended.
CancelSettles ==
    \A d \in Downloads : task[d].cancelled ~> task[d].ran = Continuations
=============================================================================
