--------------------------- MODULE PrefetchWindow ---------------------------
(***************************************************************************)
(* The sliding-window prefetch (Provider/PrefetchWindow.ts):               *)
(* setActiveWindow edits a distance-sorted queue while one serial runner,  *)
(* drain(), works through it, yielding to the player as isBusy() sees it.  *)
(* What isBusy() sees is the bookkeeping of SimpleSessionProvider          *)
(* (Libs/session.ts): one entry per URL, whoever fetches it, and a set of  *)
(* URLs tagged as prefetch.                                                *)
(*                                                                         *)
(* The player and the runner have at most one fetch each in flight.  What  *)
(* a prefetch writes is the matter of the cache, not of this module.       *)
(***************************************************************************)
EXTENDS Integers, Sequences, SequencesExt

CONSTANTS
    Hls,            \* items that are HLS playlists ...
    Masters,        \* ... those of them that are master playlists
    Media,          \* items that are media files
    Lists,          \* the lists an application passes to setActiveWindow
    Indices,        \* the currentIndex values it passes
    Options,        \* the opts it passes, [ahead, behind, segmentCount]
    DefaultCount,   \* DEFAULT_SEGMENT_COUNT
    MaxCount,       \* bound on every segmentCount, DEFAULT_SEGMENT_COUNT included
    MaxTicks,       \* BUSY_POLL_MAX_TICKS
    None,
    MaxCalls        \* bound on setActiveWindow and cancelAllTask calls

Urls == Hls \cup Media

ASSUME ItemsAssumption ==
    /\ Hls \cap Media = {}
    /\ Masters \subseteq Hls
    /\ Lists \subseteq Seq(Urls)
    /\ \A list \in Lists : IsInjective(list)
ASSUME CallsAssumption ==
    /\ Indices \subseteq Int
    /\ MaxCount \in Nat /\ DefaultCount \in 0..MaxCount
    /\ Options \subseteq [ahead : Nat, behind : Nat, segmentCount : 0..MaxCount]
ASSUME BoundsAssumption == MaxTicks \in Nat \ {0} /\ MaxCalls \in Nat

VARIABLES
    items,              \* PrefetchWindow.items
    segmentCount,       \* PrefetchWindow.segmentCount
    runner,             \* the drain() that is running, if draining
    downloadingList,    \* SimpleSessionProvider.downloadingList
    prefetchUrls,       \* SimpleSessionProvider.prefetchUrls
    playing,            \* the player's fetch in flight
    aborted,            \* whose fetch in flight has been cancelled
    calls               \* calls made so far, for MaxCalls

queue   == <<items, segmentCount>>
session == <<downloadingList, prefetchUrls, playing, aborted>>
vars    == <<queue, runner, session, calls>>

\* What is fetched: part 0 of an item is its own URL, part n its n-th segment, and
\* the last part the variant a master points at.
Variant  == MaxCount + 1
Fetches  == Urls \X (0..Variant)

Item(u, d) == [url |-> u, distance |-> d, status |-> "queued"]

Items == [url : Urls, distance : Nat, status : {"queued", "downloading"}]

\* drain() at one of its awaits: in waitUntilNotBusy before an item ("waiting") or a
\* segment ("pausing"), in a fetch, or in registerPrefetchedPlaylist.  A wait is
\* "polling" with its timer set, or "clear" with its continuation due.  `member` is
\* ~isCancelled(): the item object is still in the queue.
Off == [pc |-> "off", url |-> None, member |-> FALSE, wait |-> "none", ticks |-> 0, left |-> 0]

Runners == [pc : {"off", "waiting", "playlist", "variant", "registering", "pausing",
                  "segment", "media"},
            url : Urls \cup {None}, member : BOOLEAN,
            wait : {"none", "polling", "clear"}, ticks : 0..MaxTicks, left : 0..MaxCount]

TypeOK ==
    /\ items \in Seq(Items)
    /\ segmentCount \in 0..MaxCount
    /\ runner \in Runners
    /\ downloadingList \in [Fetches -> {"none", "player", "prefetch"}]
    /\ prefetchUrls \subseteq Fetches
    /\ playing \in Fetches \cup {None}
    /\ aborted \subseteq {"player", "prefetch"}
    /\ calls \in 0..MaxCalls

Init ==
    /\ items = << >>
    /\ segmentCount = DefaultCount
    /\ runner = Off
    /\ downloadingList = [f \in Fetches |-> "none"]
    /\ prefetchUrls = {}
    /\ playing = None
    /\ aborted = {}
    /\ calls = 0

-----------------------------------------------------------------------------
(* The session *)

\* isBusy(): an entry whose URL is not tagged.
Busy(list, tagged) == \E f \in Fetches : list[f] # "none" /\ f \notin tagged

\* cancelTask for each of `gone`: only the latest fetch of a URL has an entry.
CancelTasks(gone) ==
    LET listed == {f \in gone : downloadingList[f] # "none"}
    IN  /\ aborted' = aborted \cup {downloadingList[f] : f \in listed}
        /\ downloadingList' = [f \in Fetches |->
              IF f \in listed THEN "none" ELSE downloadingList[f]]
        /\ prefetchUrls' = prefetchUrls \ listed
        /\ UNCHANGED playing

\* The fetch the runner has in flight.
RunnerFetch ==
    CASE runner.pc \in {"playlist", "media"} -> <<runner.url, 0>>
      [] runner.pc = "variant"               -> <<runner.url, Variant>>
      [] runner.pc = "segment"               -> <<runner.url, runner.left>>

\* markPrefetch (not for a media file) and dataTask.
StartFetch(f, tag, list, tagged) ==
    /\ downloadingList' = [list EXCEPT ![f] = "prefetch"]
    /\ prefetchUrls' = IF tag THEN tagged \cup {f} ELSE tagged

-----------------------------------------------------------------------------
(* setActiveWindow *)

Clamp(i, lo, hi) == IF i < lo THEN lo ELSE IF i > hi THEN hi ELSE i

\* The elements of s at the positions in P, arranged in the order given by R, a relation
\* on P: the n-th of them is the one that n - 1 others precede.
Arranged(s, P, R) ==
    [n \in 1..Cardinality(P) |->
        s[CHOOSE i \in P : Cardinality({j \in P : <<j, i>> \in R}) = n - 1]]

\* ... as they come in s, and by distance, which leaves equals as they come.
Filtered(s, P) == Arranged(s, P, {r \in P \X P : r[1] < r[2]})

ByDistance(s, P) ==
    Arranged(s, P, {r \in P \X P :
        \/ s[r[1]].distance < s[r[2]].distance
        \/ s[r[1]].distance = s[r[2]].distance /\ r[1] < r[2]})

Urlset(s) == {s[i].url : i \in DOMAIN s}

\* The target window in index order, each URL with its distance from the current item.
Target(list, index, opts) ==
    LET n  == Len(list)
        at == Clamp(index, 0, n - 1)
        lo == Max({0, at - opts.behind})
        hi == Min({n - 1, at + opts.ahead})
    IN  [k \in 1..(hi - lo + 1) |->
            LET i == lo + k - 1
            IN  Item(list[i + 1], IF i < at THEN at - i ELSE i - at)]

\* Everything queued, with its distance in the window if it is there, and the window.
Merged(window) ==
    LET there(u) == CHOOSE i \in DOMAIN window : window[i].url = u
    IN  [k \in DOMAIN items |->
            IF items[k].url \in Urlset(window)
            THEN [items[k] EXCEPT !.distance = window[there(items[k].url)].distance]
            ELSE items[k]] \o window

\* Who has left the window goes, who stays keeps its place and status, who is new follows.
Wanted(window) ==
    {k \in 1..(Len(items) + Len(window)) :
        IF k <= Len(items) THEN items[k].url \in Urlset(window)
        ELSE window[k - Len(items)].url \notin Urlset(items)}

\* Mutant: the queue is not sorted again.
EditedUnsorted(window) == Filtered(Merged(window), Wanted(window))

\* The sort is stable.
Edited(window) == ByDistance(Merged(window), Wanted(window))

\* The next turn of drain()'s loop.
NextTurn(q, list, tagged) ==
    LET queued == {i \in DOMAIN q : q[i].status = "queued"}
        first  == CHOOSE i \in queued : \A j \in queued : i <= j
    IN  IF queued = {} THEN Off
        ELSE [Off EXCEPT !.pc = "waiting", !.url = q[first].url, !.member = TRUE,
                         !.wait = IF Busy(list, tagged) THEN "polling" ELSE "clear"]

Leave(q) == runner.member /\ runner.url \in Urlset(q)

SetActiveWindow(list, index, opts) ==
    /\ list # << >>
    /\ calls < MaxCalls
    /\ calls' = calls + 1
    /\ segmentCount' = opts.segmentCount
    /\ items' = Edited(Target(list, index, opts))
    /\ CancelTasks({<<u, 0>> : u \in Urlset(items) \ Urlset(items')})
    /\ runner' = IF runner.pc = "off" THEN NextTurn(items', downloadingList', prefetchUrls')
                 ELSE [runner EXCEPT !.member = Leave(items')]

EmptyWindow ==
    /\ calls < MaxCalls
    /\ calls' = calls + 1
    /\ items' = << >>
    /\ CancelTasks({<<u, 0>> : u \in Urlset(items)})
    /\ runner' = [runner EXCEPT !.member = FALSE]
    /\ UNCHANGED segmentCount

-----------------------------------------------------------------------------
(* drain, prefetchHlsAsset, waitUntilNotBusy *)

\* A continuation that is due runs before anything but more of the same task.
Turn == runner.wait # "clear"

Stop ==
    /\ runner' = Off
    /\ UNCHANGED <<queue, downloadingList, prefetchUrls>>

\* Mutant: the item stays in the queue, marked.
EndedKept(q) == q

\* The item is done with: the queue drops it, if it is still there, and the loop turns.
Ended(q) == Filtered(q, {i \in DOMAIN q : ~(runner.member /\ q[i].url = runner.url)})

EndItem(list, tagged) ==
    /\ items' = Ended(items)
    /\ downloadingList' = list
    /\ prefetchUrls' = tagged
    /\ runner' = NextTurn(Ended(items), list, tagged)
    /\ UNCHANGED segmentCount

\* waitUntilNotBusy has answered true and the item is still wanted: the item's own
\* fetch starts, or its next segment's.
Begin ==
    IF runner.pc = "waiting"
    THEN /\ items' = [k \in DOMAIN items |->
                 IF items[k].url = runner.url THEN [items[k] EXCEPT !.status = "downloading"]
                 ELSE items[k]]
         /\ runner' = [runner EXCEPT !.pc = IF runner.url \in Hls THEN "playlist" ELSE "media",
                                     !.wait = "none", !.ticks = 0, !.left = segmentCount]
         /\ StartFetch(<<runner.url, 0>>, runner.url \in Hls, downloadingList, prefetchUrls)
         /\ UNCHANGED segmentCount
    ELSE /\ runner' = [runner EXCEPT !.pc = "segment", !.wait = "none", !.ticks = 0]
         /\ StartFetch(<<runner.url, runner.left>>, TRUE, downloadingList, prefetchUrls)
         /\ UNCHANGED queue

\* It has answered false, or the item has left: drain() stops; a segment loop only
\* ends its item.
GiveUp ==
    IF runner.pc = "waiting"
    THEN Stop
    ELSE EndItem(downloadingList, prefetchUrls)

\* Mutant: isCancelled() is not asked again after the wait.
AnsweredUnchecked(ok) ==
    /\ IF ok THEN Begin ELSE GiveUp
    /\ UNCHANGED <<playing, aborted, calls>>

Answered(ok) ==
    /\ IF ok /\ runner.member THEN Begin ELSE GiveUp
    /\ UNCHANGED <<playing, aborted, calls>>

Resume == runner.wait = "clear" /\ Answered(TRUE)

\* Mutant: there is no bound on the polls.
PollUnbounded ==
    /\ runner.wait = "polling"
    /\ runner.member
    /\ Busy(downloadingList, prefetchUrls)
    /\ runner' = [runner EXCEPT !.ticks = @ + 1]
    /\ UNCHANGED <<queue, session, calls>>

\* Mutant: the polls are not counted.
PollUncounted ==
    /\ runner.wait = "polling"
    /\ runner.member
    /\ Busy(downloadingList, prefetchUrls)
    /\ UNCHANGED vars

\* The 250 ms timer fires and the player is still busy.
PollAgain ==
    /\ runner.wait = "polling"
    /\ runner.member
    /\ Busy(downloadingList, prefetchUrls)
    /\ runner.ticks + 1 < MaxTicks
    /\ runner' = [runner EXCEPT !.ticks = @ + 1]
    /\ UNCHANGED <<queue, session, calls>>

PollEnds ==
    /\ runner.wait = "polling"
    /\ \/ ~Busy(downloadingList, prefetchUrls)
       \/ ~runner.member
       \/ runner.ticks + 1 >= MaxTicks
    /\ Answered(~Busy(downloadingList, prefetchUrls))

\* The next segment, if one is wanted.
NextSegment(left, list, tagged) ==
    IF left = 0 \/ ~runner.member THEN EndItem(list, tagged)
    ELSE /\ runner' = [runner EXCEPT !.pc = "pausing", !.left = left,
                          !.wait = IF Busy(list, tagged) THEN "polling" ELSE "clear"]
         /\ downloadingList' = list
         /\ prefetchUrls' = tagged
         /\ UNCHANGED queue

Settling == Turn /\ runner.pc \in {"playlist", "variant", "segment", "media"}

\* The bookkeeping when the runner's fetch settles: the entry goes, whosever it is.
Listed == [downloadingList EXCEPT ![RunnerFetch] = "none"]
Tagged == IF runner.pc = "media" THEN prefetchUrls ELSE prefetchUrls \ {RunnerFetch}

FetchFails ==
    /\ Settling
    /\ EndItem(Listed, Tagged)
    /\ aborted' = aborted \ {"prefetch"}
    /\ UNCHANGED <<playing, calls>>

\* A master's variant is fetched at once; any other playlist is written and registered.
PlaylistFetched ==
    /\ Settling /\ "prefetch" \notin aborted
    /\ runner.pc \in {"playlist", "variant"}
    /\ IF runner.pc = "playlist" /\ runner.url \in Masters
       THEN /\ runner' = [runner EXCEPT !.pc = "variant"]
            /\ StartFetch(<<runner.url, Variant>>, TRUE, Listed, Tagged)
       ELSE /\ runner' = [runner EXCEPT !.pc = "registering"]
            /\ downloadingList' = Listed
            /\ prefetchUrls' = Tagged
    /\ UNCHANGED <<queue, playing, aborted, calls>>

\* The playlist may hold fewer segments than are wanted.
Registered ==
    /\ Turn
    /\ runner.pc = "registering"
    /\ \E left \in 0..runner.left : NextSegment(left, downloadingList, prefetchUrls)
    /\ UNCHANGED <<playing, aborted, calls>>

SegmentFetched ==
    /\ Settling /\ "prefetch" \notin aborted
    /\ runner.pc = "segment"
    /\ NextSegment(runner.left - 1, Listed, Tagged)
    /\ UNCHANGED <<playing, aborted, calls>>

MediaFetched ==
    /\ Settling /\ "prefetch" \notin aborted
    /\ runner.pc = "media"
    /\ EndItem(Listed, Tagged)
    /\ UNCHANGED <<playing, aborted, calls>>

RunnerStep ==
    \/ Resume \/ PollAgain \/ PollEnds \/ FetchFails
    \/ PlaylistFetched \/ Registered \/ SegmentFetched \/ MediaFetched

-----------------------------------------------------------------------------
(* The player, through the same session *)

PlayerFetches(f) ==
    /\ Turn
    /\ playing = None
    /\ playing' = f
    /\ downloadingList' = [downloadingList EXCEPT ![f] = "player"]
    /\ UNCHANGED <<queue, runner, prefetchUrls, aborted, calls>>

PlayerDone ==
    /\ Turn
    /\ playing # None
    /\ playing' = None
    /\ downloadingList' = [downloadingList EXCEPT ![playing] = "none"]
    /\ aborted' = aborted \ {"player"}
    /\ UNCHANGED <<queue, runner, prefetchUrls, calls>>

\* disableBridgeServer and clearCache.
CancelAllTask ==
    /\ Turn
    /\ calls < MaxCalls
    /\ calls' = calls + 1
    /\ aborted' = aborted \cup ({downloadingList[f] : f \in Fetches} \ {"none"})
    /\ downloadingList' = [f \in Fetches |-> "none"]
    /\ prefetchUrls' = {}
    /\ UNCHANGED <<queue, runner, playing>>

Next ==
    \/ \E list \in Lists, index \in Indices, opts \in Options :
          SetActiveWindow(list, index, opts)
    \/ EmptyWindow
    \/ RunnerStep
    \/ \E f \in Fetches : PlayerFetches(f)
    \/ PlayerDone
    \/ CancelAllTask

\* Timers fire and the runner's own fetches settle; the player owes nothing.
Spec == Init /\ [][Next]_vars /\ WF_vars(RunnerStep)
-----------------------------------------------------------------------------
(* What the window must guarantee *)

\* Whatever the runner takes out between two edits, the queue holds each URL once and
\* its ascending order by distance from the current item (setActiveWindow, INV-01).
QueueSorted ==
    \A i, j \in DOMAIN items :
        i < j => /\ items[i].url # items[j].url
                 /\ items[i].distance <= items[j].distance

\* The queue's marks and the runner agree: an item is marked downloading exactly while
\* the runner works on it, so no item is fetched twice or left marked for ever.
MarkedIsWorkedOn ==
    \A i \in DOMAIN items :
        items[i].status = "downloading" <=>
            /\ runner.pc \notin {"off", "waiting"}
            /\ runner.member
            /\ runner.url = items[i].url

Begins == runner.wait # "none" /\ runner'.pc \in {"playlist", "media", "segment"}

\* No item's own fetch and no segment is begun for an item that has left the window,
\* or while the session reports the player busy (the variant of a master is).
YieldsWhenAsked ==
    [][ Begins => runner.member /\ ~Busy(downloadingList, prefetchUrls) ]_vars

\* drain() always ends, even beside a player that never stops fetching: no fetch,
\* timer or cancel leaves `draining` set for ever.
DrainEnds == runner.pc # "off" ~> runner.pc = "off"
=============================================================================
