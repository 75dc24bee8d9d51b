-------------------------- MODULE SessionTasksProofs --------------------------
(***************************************************************************)
(* Theorems about SessionTasks, for any URLs and any number of downloads   *)
(* and of cancels.                                                         *)
(*                                                                         *)
(* The argument for BooksAgree: a URL that two downloads are in flight for *)
(* is shared (SharedBook), so that outside the shared ones a continuation  *)
(* meets only its own entry and its own mark; and the mark of a prefetch   *)
(* stays as long as both its continuations are due (MarksKept).            *)
(***************************************************************************)
EXTENDS SessionTasks, SequenceTheorems, TLAPS

Used(d) == task[d].at # "unused"

\* A native call is about downloads that have begun.
CommandsUsed ==
    \A i \in 1..Len(commands) : \A d \in commands[i].ids : Used(d)

\* Two downloads of one URL in flight share it.
SharedBook ==
    \A d, e \in Downloads :
        d # e /\ Outstanding(d) /\ Outstanding(e) /\ task[d].url = task[e].url
            => task[d].url \in shared

\* A live prefetch of an unshared URL is marked until its caller goes on.
MarksKept ==
    \A d \in Downloads :
        Live(d) /\ task[d].prefetch /\ "caller" \notin task[d].ran /\ task[d].url \notin shared
            => task[d].url \in prefetchUrls

Books == SharedBook /\ MarksKept /\ EntriesAreLive /\ MarksAreOwned

IInv == TypeOK /\ CommandsUsed /\ Books

-----------------------------------------------------------------------------
(* Types *)

\* "No task" is none of the downloads.
LEMMA NotADownload == NoTask \notin Downloads
  BY BoundsAssumption DEF NoTask, Downloads

\* A task as dataTask makes it.
LEMMA NewTaskTyped ==
  ASSUME NEW u \in Urls, NEW p \in BOOLEAN, NEW at \in {"unused", "queued"}
  PROVE  NewTask(at, u, p) \in Tasks
  BY DEF NewTask, Tasks, Continuations

\* Any one field of a task may change within its type.
LEMMA TaskEdits ==
  ASSUME TypeOK, NEW d \in Downloads
  PROVE  /\ task[d] \in Tasks
         /\ \A at \in {"queued", "streaming", "settled"} :
                [task EXCEPT ![d].at = at] \in [Downloads -> Tasks]
         /\ \A b \in BOOLEAN : [task EXCEPT ![d].cancelled = b] \in [Downloads -> Tasks]
         /\ \A b \in BOOLEAN : [task EXCEPT ![d].aborted = b] \in [Downloads -> Tasks]
         /\ \A c \in Continuations :
                [task EXCEPT ![d].ran = @ \union {c}] \in [Downloads -> Tasks]
<1>1. task \in [Downloads -> Tasks] /\ task[d] \in Tasks
  BY DEF TypeOK
<1>2. \A at \in {"queued", "streaming", "settled"} :
          [task EXCEPT ![d].at = at] \in [Downloads -> Tasks]
  BY <1>1 DEF Tasks
<1>3. \A b \in BOOLEAN : /\ [task EXCEPT ![d].cancelled = b] \in [Downloads -> Tasks]
                         /\ [task EXCEPT ![d].aborted = b] \in [Downloads -> Tasks]
  BY <1>1 DEF Tasks
<1>4. \A c \in Continuations :
          [task EXCEPT ![d].ran = @ \union {c}] \in [Downloads -> Tasks]
  <2> TAKE c \in Continuations
  <2>1. task[d].ran \union {c} \in SUBSET Continuations
    BY <1>1 DEF Tasks
  <2> QED
    BY <1>1, <2>1 DEF Tasks
<1> QED
  BY <1>1, <1>2, <1>3, <1>4

\* A native call joins the queue.
LEMMA IssueTyped ==
  ASSUME TypeOK, NEW op \in {"download", "cancel"}, NEW ids \in SUBSET Downloads, ids # {}
  PROVE  /\ Issue(op, ids) \in Seq(Commands)
         /\ \A i \in 1..Len(Issue(op, ids)) : \/ i \in 1..Len(commands) /\ Issue(op, ids)[i] = commands[i]
                                              \/ Issue(op, ids)[i].ids = ids
<1>1. commands \in Seq(Commands)
  BY DEF TypeOK
<1>2. [op |-> op, ids |-> ids] \in Commands
  BY DEF Commands
<1> QED
  BY <1>1, <1>2 DEF Issue

\* The native side takes the head of the queue, or a part of it.
LEMMA ServedTyped ==
  ASSUME TypeOK, commands # <<>>
  PROVE  /\ Tail(commands) \in Seq(Commands)
         /\ \A i \in 1..Len(Tail(commands)) : i + 1 \in 1..Len(commands) /\ Tail(commands)[i] = commands[i + 1]
  BY DEF TypeOK

\* A command names downloads.
LEMMA CommandIds ==
  ASSUME TypeOK, NEW i \in 1..Len(commands)
  PROVE  commands[i].ids \subseteq Downloads
<1>1. commands[i] \in Commands
  BY DEF TypeOK
<1> QED
  BY <1>1 DEF Commands

\* The native side takes one download off the head command.
LEMMA PartServedTyped ==
  ASSUME TypeOK, NEW d \in Downloads, Served(d)
  PROVE  /\ commands' \in Seq(Commands)
         /\ CommandsUsed => \A i \in 1..Len(commands') : \A e \in commands'[i].ids : e \in Downloads /\ Used(e)
<1>0. commands \in Seq(Commands) /\ commands # <<>> /\ Head(commands) = commands[1] /\ 1 \in 1..Len(commands)
  BY DEF TypeOK, Served
<1>1. CASE Head(commands).ids = {d}
  <2>1. commands' = Tail(commands)
    BY <1>1 DEF Served
  <2> QED
    BY <2>1, <1>0, ServedTyped, CommandIds DEF CommandsUsed
<1>2. CASE Head(commands).ids # {d}
  <2>1. commands' = [commands EXCEPT ![1].ids = @ \ {d}]
    BY <1>2 DEF Served
  <2>2. d \in commands[1].ids
    BY <1>0 DEF Served
  <2>3. commands[1] \in Commands
    BY <1>0
  <2>4. commands[1].ids \ {d} # {}
    BY <1>0, <1>2, <2>2
  <2>5. [commands[1] EXCEPT !.ids = @ \ {d}] \in Commands
    BY <2>3, <2>4 DEF Commands
  <2>6. commands' = [commands EXCEPT ![1] = [commands[1] EXCEPT !.ids = @ \ {d}]]
    BY <2>1
  <2>7. commands' \in Seq(Commands) /\ Len(commands') = Len(commands)
    BY <1>0, <2>5, <2>6, ExceptSeq
  <2>8. \A i \in 1..Len(commands) : commands'[i].ids \subseteq commands[i].ids
    BY <1>0, <2>3, <2>6, ExceptSeq DEF Commands
  <2> QED
    BY <2>7, <2>8, CommandIds DEF CommandsUsed
<1> QED
  BY <1>1, <1>2

-----------------------------------------------------------------------------
(* Every action keeps the types and the calls' downloads begun *)

Typed == TypeOK /\ CommandsUsed

\* dataTask keeps the types.
LEMMA DataTaskTyped ==
  ASSUME Typed, NEW d \in Downloads, NEW u \in Urls, NEW p \in BOOLEAN, DataTask(d, u, p)
  PROVE  Typed'
<1> USE DEF Typed
<1>1. task' = [task EXCEPT ![d] = NewTask("queued", u, p)] /\ commands' = Issue("download", {d})
  BY DEF DataTask
<1>2. task' \in [Downloads -> Tasks]
  BY <1>1, NewTaskTyped DEF TypeOK
<1>3. \A e \in Downloads : e = d \/ Used(e) => Used(e)'
  BY <1>1 DEF TypeOK, Used, NewTask
<1>4. downloadingList' \in [Urls -> Downloads \union {NoTask}] /\ prefetchUrls' \subseteq Urls
      /\ shared' \subseteq Urls
  BY DEF DataTask, TypeOK
<1>5. commands' \in Seq(Commands)
      /\ \A i \in 1..Len(commands') : \/ i \in 1..Len(commands) /\ commands'[i] = commands[i]
                                      \/ commands'[i].ids = {d}
  BY <1>1, IssueTyped
<1>6. TypeOK'
  BY <1>2, <1>4, <1>5 DEF TypeOK, DataTask
<1>7. CommandsUsed'
  BY <1>3, <1>5, CommandIds DEF CommandsUsed
<1> QED
  BY <1>6, <1>7

\* So does cancelTask, whose command names the download of an entry.
LEMMA CancelTaskTyped ==
  ASSUME Typed, NEW u \in Urls, CancelTask(u), \A d \in Downloads : downloadingList[u] = d => Used(d)
  PROVE  Typed'
<1> USE DEF Typed
<1>1. PICK d \in Downloads : d = downloadingList[u] /\ Used(d)
  BY DEF CancelTask, TypeOK
<1>2. task' = [task EXCEPT ![d].cancelled = TRUE] /\ commands' = Issue("cancel", {d})
  BY <1>1 DEF CancelTask
<1>3. task' \in [Downloads -> Tasks]
  BY <1>2, TaskEdits
<1>4. \A e \in Downloads : Used(e) => Used(e)'
  BY <1>2, <1>3 DEF TypeOK, Used, Tasks
<1>5. downloadingList' \in [Urls -> Downloads \union {NoTask}] /\ prefetchUrls' \subseteq Urls
  BY DEF CancelTask, TypeOK
<1>6. commands' \in Seq(Commands)
      /\ \A i \in 1..Len(commands') : \/ i \in 1..Len(commands) /\ commands'[i] = commands[i]
                                      \/ commands'[i].ids = {d}
  BY <1>2, IssueTyped
<1>7. TypeOK'
  BY <1>3, <1>5, <1>6, BoundsAssumption DEF TypeOK, CancelTask
<1>8. CommandsUsed'
  BY <1>1, <1>4, <1>6, CommandIds DEF CommandsUsed
<1> QED
  BY <1>7, <1>8

\* So does cancelAllTask, for every entry at once.
LEMMA CancelAllTyped ==
  ASSUME Typed, CancelAllTask, \A d \in Entered : Used(d)
  PROVE  Typed'
<1> USE DEF Typed
<1>1. task' = [d \in Downloads |-> [task[d] EXCEPT !.cancelled = @ \/ d \in Entered]]
  BY DEF CancelAllTask
<1>2. task' \in [Downloads -> Tasks]
  <2>1. ASSUME NEW d \in Downloads, NEW b \in BOOLEAN PROVE [task[d] EXCEPT !.cancelled = b] \in Tasks
    BY <2>1, TaskEdits DEF Tasks
  <2>2. \A d \in Downloads : (task[d].cancelled \/ d \in Entered) \in BOOLEAN
    OBVIOUS
  <2> QED
    BY <1>1, <2>1, <2>2
<1>3. \A e \in Downloads : Used(e) => Used(e)'
  BY <1>1, TaskEdits DEF Used, Tasks
<1>4. Entered \subseteq Downloads
  BY DEF Entered, TypeOK
<1>5. commands' \in Seq(Commands)
      /\ \A i \in 1..Len(commands') : \/ i \in 1..Len(commands) /\ commands'[i] = commands[i]
                                      \/ commands'[i].ids = Entered
  <2>1. CASE Entered = {}
    BY <2>1 DEF CancelAllTask, TypeOK
  <2>2. CASE Entered # {}
    <3>1. commands' = Issue("cancel", Entered)
      BY <2>2 DEF CancelAllTask
    <3> QED
      BY <3>1, <1>4, <2>2, IssueTyped
  <2> QED
    BY <2>1, <2>2
<1>6. TypeOK'
  BY <1>2, <1>5, BoundsAssumption DEF TypeOK, CancelAllTask
<1>7. CommandsUsed'
  BY <1>3, <1>4, <1>5, CommandIds DEF CommandsUsed
<1> QED
  BY <1>6, <1>7

\* So does every continuation a settled request runs.
LEMMA ContinueTyped ==
  ASSUME Typed, NEW d \in Downloads, Continue(d)
  PROVE  Typed'
<1> USE DEF Typed
<1>1. PICK c \in Continuations : Run(d, c)
  BY DEF Continue, DropEntry, CallerEnds, Continuations
<1>2. task' = [task EXCEPT ![d].ran = @ \union {c}]
  BY <1>1 DEF Run
<1>3. task' \in [Downloads -> Tasks]
  BY <1>2, TaskEdits
<1>4. \A e \in Downloads : Used(e) => Used(e)'
  BY <1>2, TaskEdits DEF TypeOK, Used, Tasks
<1>5. downloadingList' \in [Urls -> Downloads \union {NoTask}] /\ prefetchUrls' \subseteq Urls
  BY DEF Continue, DropEntry, CallerEnds, TypeOK
<1>6. shared' \subseteq Urls
  BY <1>1 DEF Run, TypeOK
<1>7. TypeOK'
  BY <1>1, <1>3, <1>5, <1>6 DEF TypeOK, Run
<1>8. CommandsUsed'
  BY <1>1, <1>4, CommandIds DEF CommandsUsed, Run
<1> QED
  BY <1>7, <1>8

\* The native side changes no books, and of a task only its stage and whether it is aborted.
SameForJs(d) ==
    /\ Used(d)' = Used(d)
    /\ task'[d].url = task[d].url /\ task'[d].prefetch = task[d].prefetch
    /\ task'[d].cancelled = task[d].cancelled /\ task'[d].ran = task[d].ran

\* The native side keeps the types and touches nothing JavaScript reads.
LEMMA NativeTyped ==
  ASSUME Typed, NEW d \in Downloads, Native(d) \/ Settle(d) \/ Untrack(d)
  PROVE  Typed' /\ UNCHANGED js /\ \A e \in Downloads : SameForJs(e)
<1> USE DEF Typed
<1>0. task \in [Downloads -> Tasks] /\ UNCHANGED js
  BY DEF TypeOK, Native, NativeDownload, NativeCancel, Settle, Untrack
<1>1. CASE NativeDownload(d)
  <2>1. PICK at \in {"streaming", "settled"} : task' = [task EXCEPT ![d].at = at]
    BY <1>1 DEF NativeDownload
  <2>2. commands # <<>> /\ commands' = Tail(commands) /\ Head(commands).ids = {d}
    BY <1>1 DEF NativeDownload
  <2>3. Used(d)
    <3>1. commands \in Seq(Commands)
      BY DEF TypeOK
    <3>2. 1 \in 1 .. Len(commands) /\ Head(commands) = commands[1]
      BY <2>2, <3>1
    <3> QED
      BY <2>2, <3>2 DEF CommandsUsed
  <2>4. task' \in [Downloads -> Tasks] /\ \A e \in Downloads : SameForJs(e)
    <3>1. task' \in [Downloads -> Tasks]
      BY <2>1, TaskEdits
    <3>2. \A e \in Downloads : SameForJs(e)
      BY <1>0, <2>1, <2>3 DEF SameForJs, Used, Tasks
    <3> QED
      BY <3>1, <3>2
  <2>5. tracked' \subseteq Downloads
    BY <1>1 DEF NativeDownload, TypeOK
  <2>6. TypeOK'
    BY <1>0, <2>2, <2>4, <2>5, ServedTyped DEF TypeOK, js
  <2>7. CommandsUsed'
    BY <2>2, <2>4, ServedTyped, CommandIds DEF CommandsUsed, SameForJs
  <2> QED
    BY <1>0, <2>4, <2>6, <2>7
<1>2. CASE NativeCancel(d)
  <2>1. task' = [task EXCEPT ![d].aborted = @ \/ d \in tracked]
    BY <1>2 DEF NativeCancel
  <2>2. (task[d].aborted \/ d \in tracked) \in BOOLEAN
    OBVIOUS
  <2>3. task' \in [Downloads -> Tasks]
    BY <2>1, <2>2, TaskEdits
  <2>4. \A e \in Downloads : SameForJs(e)
    BY <1>0, <2>1 DEF SameForJs, Used, Tasks
  <2>5. TypeOK'
    BY <1>0, <1>2, <2>3, PartServedTyped DEF TypeOK, js, NativeCancel
  <2>6. CommandsUsed'
    BY <1>2, <2>4, PartServedTyped DEF CommandsUsed, SameForJs, NativeCancel
  <2> QED
    BY <1>0, <2>4, <2>5, <2>6
<1>3. CASE Settle(d)
  <2>1. task' = [task EXCEPT ![d].at = "settled"] /\ task[d].at = "streaming" /\ UNCHANGED commands
    BY <1>3 DEF Settle
  <2>2. task' \in [Downloads -> Tasks] /\ \A e \in Downloads : SameForJs(e)
    <3>1. task' \in [Downloads -> Tasks]
      BY <2>1, TaskEdits
    <3>2. \A e \in Downloads : SameForJs(e)
      BY <1>0, <2>1 DEF SameForJs, Used, Tasks
    <3> QED
      BY <3>1, <3>2
  <2>3. tracked' \subseteq Downloads
    BY <1>3 DEF Settle, TypeOK
  <2>4. TypeOK'
    BY <1>0, <2>1, <2>2, <2>3 DEF TypeOK, js
  <2>5. CommandsUsed'
    BY <2>1, <2>2, <2>4, CommandIds DEF CommandsUsed, SameForJs
  <2> QED
    BY <1>0, <2>2, <2>4, <2>5
<1>4. CASE Untrack(d)
  BY <1>4 DEF Untrack, js, TypeOK, CommandsUsed, SameForJs, Used
<1> QED
  BY <1>1, <1>2, <1>3, <1>4 DEF Native

-----------------------------------------------------------------------------
(* Every action keeps the books *)

\* The next entries are live if each download they name is.
LEMMA EntriesFrom ==
  ASSUME TypeOK',
         \A v \in Urls, e \in Downloads :
            downloadingList'[v] = e => Live(e)' /\ task'[e].url = v,
         \A e \in Downloads :
            Live(e)' /\ task'[e].url \notin shared' => downloadingList'[task'[e].url] = e
  PROVE  EntriesAreLive'
<1>1. \A v \in Urls : downloadingList'[v] \in Downloads \union {NoTask}
  BY DEF TypeOK
<1> QED
  BY <1>1 DEF EntriesAreLive

\* A fact about tasks that are live or outstanding is one about what JS knows of them.
LEMMA NativeBooks ==
  ASSUME TypeOK', Books, UNCHANGED js, \A d \in Downloads : SameForJs(d)
  PROVE  Books'
<1>1. UNCHANGED <<downloadingList, prefetchUrls, shared>>
  BY DEF js
<1>2. \A d \in Downloads : Live(d)' = Live(d) /\ Outstanding(d)' = Outstanding(d)
  BY DEF SameForJs, Used, Live, Outstanding
<1>3. SharedBook' /\ MarksKept'
  BY <1>1, <1>2 DEF Books, SharedBook, MarksKept, SameForJs
<1>4. EntriesAreLive'
  <2>1. ASSUME NEW v \in Urls, NEW e \in Downloads, downloadingList'[v] = e
        PROVE  Live(e)' /\ task'[e].url = v
    BY <1>1, <1>2, <2>1, NotADownload DEF Books, EntriesAreLive, SameForJs
  <2>2. ASSUME NEW e \in Downloads, Live(e)', task'[e].url \notin shared'
        PROVE  downloadingList'[task'[e].url] = e
    BY <1>1, <1>2, <2>2 DEF Books, EntriesAreLive, SameForJs
  <2> QED
    BY <2>1, <2>2, EntriesFrom
<1>5. MarksAreOwned'
  BY <1>1, <1>2 DEF Books, MarksAreOwned, SameForJs, Used
<1> QED
  BY <1>3, <1>4, <1>5 DEF Books

\* dataTask enters one live download under its URL, over whatever was there.
LEMMA DataTaskBooks ==
  ASSUME TypeOK, TypeOK', Books, NEW d \in Downloads, NEW u \in Urls, NEW p \in BOOLEAN, DataTask(d, u, p)
  PROVE  Books'
<1>1. ~Used(d) /\ task' = [task EXCEPT ![d] = NewTask("queued", u, p)]
  BY DEF DataTask, Used
<1>2. /\ task'[d] = NewTask("queued", u, p)
      /\ \A e \in Downloads \ {d} : task'[e] = task[e]
  BY <1>1 DEF TypeOK
<1>3. /\ Live(d)' /\ Outstanding(d)' /\ ~Live(d) /\ ~Outstanding(d)
      /\ task'[d].url = u /\ task'[d].prefetch = p /\ Used(d)' /\ task'[d].ran = {}
  BY <1>1, <1>2 DEF Live, Outstanding, Used, NewTask, Continuations
<1>4. \A e \in Downloads \ {d} :
          /\ Live(e)' = Live(e) /\ Outstanding(e)' = Outstanding(e) /\ Used(e)' = Used(e)
          /\ task'[e].url = task[e].url /\ task'[e].prefetch = task[e].prefetch
          /\ task'[e].ran = task[e].ran
  BY <1>2 DEF Live, Outstanding, Used
<1>5. \A e \in Downloads : Live(e) => Outstanding(e)
  BY DEF Live, Outstanding, Continuations
<1>6. /\ shared \subseteq shared'
      /\ \A e \in Downloads : Outstanding(e) /\ task[e].url = u => u \in shared'
      /\ prefetchUrls \subseteq prefetchUrls' /\ prefetchUrls' \subseteq prefetchUrls \union {u}
      /\ u \in prefetchUrls' => u \in prefetchUrls \/ p
      /\ p => u \in prefetchUrls'
      /\ \A v \in Urls : downloadingList'[v] = IF v = u THEN d ELSE downloadingList[v]
  BY DEF DataTask, TypeOK
<1>7. \A v \in Urls : downloadingList[v] # d
  BY <1>3, NotADownload DEF Books, EntriesAreLive
<1>8. SharedBook'
  BY <1>3, <1>4, <1>6 DEF Books, SharedBook
<1>9. MarksKept'
  BY <1>3, <1>4, <1>5, <1>6 DEF Books, MarksKept
<1>10. EntriesAreLive'
  <2>1. ASSUME NEW v \in Urls, NEW e \in Downloads, downloadingList'[v] = e
        PROVE  Live(e)' /\ task'[e].url = v
    BY <2>1, <1>3, <1>4, <1>6, <1>7, NotADownload DEF Books, EntriesAreLive
  <2>2. ASSUME NEW e \in Downloads, Live(e)', task'[e].url \notin shared'
        PROVE  downloadingList'[task'[e].url] = e
    <3>1. task'[e].url \in Urls
      BY <1>3, <1>4, <2>2, TaskEdits DEF Tasks
    <3> QED
      BY <2>2, <3>1, <1>3, <1>4, <1>5, <1>6 DEF Books, EntriesAreLive
  <2> QED
    BY <2>1, <2>2, EntriesFrom
<1>11. MarksAreOwned'
  <2> SUFFICES ASSUME NEW v \in prefetchUrls'
               PROVE  \E e \in Downloads : /\ task'[e].url = v /\ task'[e].prefetch
                                           /\ Used(e)' /\ "caller" \notin task'[e].ran
    BY DEF MarksAreOwned, Used
  <2>1. CASE v \in prefetchUrls
    BY <2>1, <1>1, <1>4 DEF Books, MarksAreOwned, Used
  <2>2. CASE v \notin prefetchUrls
    BY <2>2, <1>3, <1>6
  <2> QED
    BY <2>1, <2>2
<1> QED
  BY <1>8, <1>9, <1>10, <1>11 DEF Books

SameFates(e) ==
    /\ task'[e].at = task[e].at /\ task'[e].url = task[e].url
    /\ task'[e].prefetch = task[e].prefetch /\ task'[e].ran = task[e].ran

\* A cancel of every download that is the entry of a URL in G.
CancelOf(G) ==
    /\ \A e \in Downloads :
          /\ SameFates(e)
          /\ Live(e)' = (Live(e) /\ \A u \in G : downloadingList[u] # e)
    /\ \A u \in Urls : downloadingList'[u] = IF u \in G THEN NoTask ELSE downloadingList[u]
    /\ prefetchUrls' = prefetchUrls \ G
    /\ UNCHANGED shared

\* A cancel takes entries and marks of the same URLs.
LEMMA CancelBooks ==
  ASSUME TypeOK, TypeOK', Books, NEW G \in SUBSET Urls, CancelOf(G)
  PROVE  Books'
<1>1. \A e \in Downloads : /\ Used(e)' = Used(e) /\ Outstanding(e)' = Outstanding(e)
                           /\ task'[e].url = task[e].url /\ task'[e].prefetch = task[e].prefetch
                           /\ task'[e].ran = task[e].ran
  BY DEF CancelOf, SameFates, Used, Outstanding
<1>2. SharedBook'
  BY <1>1 DEF Books, SharedBook, CancelOf
<1>3. ASSUME NEW e \in Downloads, Live(e)', task[e].url \notin shared
      PROVE  Live(e) /\ downloadingList[task[e].url] = e /\ task[e].url \notin G
  BY <1>3 DEF Books, EntriesAreLive, CancelOf
<1>4. MarksKept'
  BY <1>1, <1>3 DEF Books, MarksKept, CancelOf
<1>5. EntriesAreLive'
  <2>1. ASSUME NEW v \in Urls, NEW e \in Downloads, downloadingList'[v] = e
        PROVE  Live(e)' /\ task'[e].url = v
    <3>1. v \notin G /\ downloadingList[v] = e
      BY <2>1, NotADownload DEF CancelOf
    <3>2. Live(e) /\ task[e].url = v
      BY <3>1, NotADownload DEF Books, EntriesAreLive
    <3>3. \A w \in G : downloadingList[w] # e
      BY <3>1, <3>2, NotADownload DEF Books, EntriesAreLive
    <3> QED
      BY <3>2, <3>3, <1>1 DEF CancelOf
  <2>2. ASSUME NEW e \in Downloads, Live(e)', task'[e].url \notin shared'
        PROVE  downloadingList'[task'[e].url] = e
    <3>1. task[e].url \in Urls
      BY TaskEdits DEF Tasks
    <3> QED
      BY <2>2, <3>1, <1>1, <1>3 DEF CancelOf
  <2> QED
    BY <2>1, <2>2, EntriesFrom
<1>6. MarksAreOwned'
  BY <1>1 DEF Books, MarksAreOwned, CancelOf, Used
<1> QED
  BY <1>2, <1>4, <1>5, <1>6 DEF Books

\* cancelTask is such a cancel, of one URL.
LEMMA CancelTaskCancels ==
  ASSUME TypeOK, Books, NEW u \in Urls, CancelTask(u)
  PROVE  CancelOf({u})
<1>1. PICK d \in Downloads : d = downloadingList[u]
  BY DEF CancelTask, TypeOK
<1>2. task' = [task EXCEPT ![d].cancelled = TRUE]
  BY <1>1 DEF CancelTask
<1>3. \A e \in Downloads : SameFates(e) /\ task'[e].cancelled = IF e = d THEN TRUE ELSE task[e].cancelled
  <2>1. task \in [Downloads -> Tasks]
    BY DEF TypeOK
  <2> QED
    BY <1>2, <2>1 DEF SameFates, Tasks
<1>4. \A e \in Downloads : Live(e)' = (Live(e) /\ e # d)
  BY <1>3 DEF Live, SameFates
<1> QED
  BY <1>1, <1>3, <1>4 DEF CancelOf, CancelTask, TypeOK

\* So is cancelAllTask, of all of them.
LEMMA CancelAllCancels ==
  ASSUME TypeOK, Books, CancelAllTask
  PROVE  CancelOf(Urls)
<1>1. task' = [d \in Downloads |-> [task[d] EXCEPT !.cancelled = @ \/ d \in Entered]]
  BY DEF CancelAllTask
<1>2. ASSUME NEW e \in Downloads
      PROVE  SameFates(e) /\ task'[e].cancelled = (task[e].cancelled \/ e \in Entered)
  BY <1>1, TaskEdits DEF SameFates, Tasks
<1>3. \A e \in Downloads : e \in Entered <=> \E u \in Urls : downloadingList[u] = e
  BY NotADownload DEF Entered
<1>4. \A e \in Downloads : Live(e)' = (Live(e) /\ e \notin Entered)
  BY <1>2, Zenon DEF Live, SameFates
<1>5. prefetchUrls' = prefetchUrls \ Urls
  BY DEF CancelAllTask, TypeOK
<1> QED
  BY <1>2, <1>3, <1>4, <1>5 DEF CancelOf, CancelAllTask

\* A continuation of a download: whatever is unshared afterwards was its URL's only one.
LEMMA ContinueBooks ==
  ASSUME TypeOK, TypeOK', Books, NEW d \in Downloads, Continue(d)
  PROVE  Books'
<1>1. PICK c \in Continuations : Run(d, c) /\ (c = "entry" <=> DropEntry(d)) /\ (c = "caller" <=> CallerEnds(d))
  <2>1. ASSUME DropEntry(d) PROVE ~CallerEnds(d)
    BY <2>1, TaskEdits DEF DropEntry, CallerEnds, Run, Tasks, TypeOK
  <2> QED
    BY <2>1 DEF Continue, DropEntry, CallerEnds, Continuations
<1>2. task' = [task EXCEPT ![d].ran = @ \union {c}] /\ c \notin task[d].ran /\ task[d].at = "settled"
  BY <1>1 DEF Run
<1>3. \A e \in Downloads :
          /\ task'[e].url = task[e].url /\ task'[e].prefetch = task[e].prefetch
          /\ Used(e)' = Used(e) /\ task'[e].cancelled = task[e].cancelled
          /\ task'[e].ran = IF e = d THEN task[d].ran \union {c} ELSE task[e].ran
  <2>1. /\ task'[d] = [task[d] EXCEPT !.ran = @ \union {c}]
        /\ \A e \in Downloads \ {d} : task'[e] = task[e]
    BY <1>2 DEF TypeOK
  <2>2. task[d] \in Tasks
    BY TaskEdits
  <2>3. /\ task'[d].ran = task[d].ran \union {c} /\ task'[d].at = task[d].at
        /\ task'[d].url = task[d].url /\ task'[d].prefetch = task[d].prefetch
        /\ task'[d].cancelled = task[d].cancelled
    BY <2>1, <2>2 DEF Tasks
  <2> QED
    BY <2>1, <2>3, Zenon DEF Used
<1>4. \A e \in Downloads : Live(e) => Outstanding(e)
  BY DEF Live, Outstanding, Continuations
<1>5. /\ \A e \in Downloads : (Live(e)' => Live(e)) /\ (Live(e)' => Outstanding(e)')
      /\ \A e \in Downloads : Outstanding(e)' => Outstanding(e)
      /\ \A e \in Downloads : e # d => Live(e)' = Live(e) /\ Outstanding(e)' = Outstanding(e)
      /\ Outstanding(d)
  <2>1. \A e \in Downloads : task[e].ran \subseteq Continuations
    BY TaskEdits DEF Tasks
  <2> QED
    BY <1>2, <1>3, <2>1 DEF Live, Outstanding, Used, Continuations
<1>6. shared' \subseteq shared
      /\ \A e \in Downloads : Outstanding(e)' /\ task[e].url \in shared => task[e].url \in shared'
  <2>1. shared' = {u \in shared : \E e \in Downloads :
                      task[e].url = u /\ Outstanding(e) /\ ~(e = d /\ task[d].ran \union {c} = Continuations)}
    BY <1>1 DEF Run
  <2>2. \A e \in Downloads : Outstanding(e)' => ~(e = d /\ task[d].ran \union {c} = Continuations)
    BY <1>3 DEF Outstanding
  <2> QED
    BY <2>1, <2>2, <1>5
<1>7. \A e \in Downloads : Live(e)' /\ task[e].url \notin shared' => task[e].url \notin shared
  BY <1>5, <1>6
<1>8. \A e \in Downloads : Live(e)' /\ task[e].url \notin shared /\ e # d => task[e].url # task[d].url
  BY <1>4, <1>5 DEF Books, SharedBook
<1>9. SharedBook'
  BY <1>3, <1>5, <1>6 DEF Books, SharedBook
<1>10. CASE DropEntry(d)
  <2>1. /\ c = "entry" /\ ~Live(d)'
        /\ \A v \in Urls : downloadingList'[v] = IF v = task[d].url THEN NoTask ELSE downloadingList[v]
        /\ UNCHANGED prefetchUrls
    BY <1>1, <1>3, <1>10 DEF DropEntry, Live, TypeOK
  <2>2. MarksKept'
    BY <2>1, <1>3, <1>5, <1>7 DEF Books, MarksKept
  <2>3. EntriesAreLive'
    <3>1. ASSUME NEW v \in Urls, NEW e \in Downloads, downloadingList'[v] = e
          PROVE  Live(e)' /\ task'[e].url = v
      <4>1. v # task[d].url /\ downloadingList[v] = e
        BY <2>1, <3>1, NotADownload
      <4>2. Live(e) /\ task[e].url = v
        BY <4>1, NotADownload DEF Books, EntriesAreLive
      <4> QED
        BY <4>1, <4>2, <1>3, <1>5
    <3>2. ASSUME NEW e \in Downloads, Live(e)', task'[e].url \notin shared'
          PROVE  downloadingList'[task'[e].url] = e
      <4>1. e # d /\ task[e].url # task[d].url /\ downloadingList[task[e].url] = e
        BY <3>2, <2>1, <1>3, <1>5, <1>7, <1>8 DEF Books, EntriesAreLive
      <4>2. task[e].url \in Urls
        BY TaskEdits DEF Tasks
      <4> QED
        BY <4>1, <4>2, <2>1, <1>3
    <3> QED
      BY <3>1, <3>2, EntriesFrom
  <2>4. MarksAreOwned'
    BY <2>1, <1>3 DEF Books, MarksAreOwned, Used
  <2> QED
    BY <1>9, <2>2, <2>3, <2>4 DEF Books
<1>11. CASE CallerEnds(d)
  <2>1. /\ c = "caller" /\ UNCHANGED downloadingList
        /\ prefetchUrls' = IF task[d].prefetch THEN prefetchUrls \ {task[d].url} ELSE prefetchUrls
    BY <1>1, <1>11 DEF CallerEnds
  <2>2. \A e \in Downloads : Live(e)' = Live(e)
    BY <2>1, <1>3 DEF Live, Used
  <2>3. MarksKept'
    <3> SUFFICES ASSUME NEW e \in Downloads, Live(e)', task'[e].prefetch,
                        "caller" \notin task'[e].ran, task'[e].url \notin shared'
                 PROVE  task'[e].url \in prefetchUrls'
      BY DEF MarksKept
    <3>1. e # d /\ task[e].url # task[d].url /\ task[e].url \in prefetchUrls
      BY <2>1, <1>3, <1>5, <1>7, <1>8 DEF Books, MarksKept
    <3> QED
      BY <3>1, <2>1, <1>3
  <2>4. EntriesAreLive'
    BY <2>1, <2>2, <1>3, <1>7 DEF Books, EntriesAreLive, TypeOK
  <2>5. MarksAreOwned'
    <3> SUFFICES ASSUME NEW u \in prefetchUrls'
                 PROVE  \E e \in Downloads : /\ task'[e].url = u /\ task'[e].prefetch
                                             /\ Used(e)' /\ "caller" \notin task'[e].ran
      BY DEF MarksAreOwned, Used
    <3>1. PICK e \in Downloads : /\ task[e].url = u /\ task[e].prefetch
                                 /\ Used(e) /\ "caller" \notin task[e].ran
      BY <2>1 DEF Books, MarksAreOwned, Used
    <3>2. e # d
      BY <3>1, <2>1
    <3> QED
      BY <3>1, <3>2, <1>3
  <2> QED
    BY <1>9, <2>3, <2>4, <2>5 DEF Books
<1> QED
  BY <1>10, <1>11 DEF Continue

-----------------------------------------------------------------------------
(* The theorems *)

\* A session starts with nothing in flight.
LEMMA InitInv == Init => IInv
<1> SUFFICES ASSUME Init PROVE IInv
  OBVIOUS
<1> DEFINE anyUrl == CHOOSE u \in Urls : TRUE
<1>1. anyUrl \in Urls
  BY UrlsAssumption
<1>2. task = [d \in Downloads |-> NewTask("unused", anyUrl, FALSE)]
      /\ downloadingList = [u \in Urls |-> NoTask] /\ prefetchUrls = {}
      /\ commands = <<>> /\ tracked = {} /\ cancels = 0 /\ shared = {}
  BY Zenon DEF Init
<1> HIDE DEF anyUrl
<1>3. task \in [Downloads -> Tasks]
  BY <1>1, <1>2, NewTaskTyped
<1>4. TypeOK
  <2>1. downloadingList \in [Urls -> Downloads \union {NoTask}] /\ cancels \in 0..MaxCancels
    BY <1>2, BoundsAssumption
  <2>2. commands \in Seq(Commands)
    BY <1>2
  <2> QED
    BY <1>2, <1>3, <2>1, <2>2 DEF TypeOK
<1>5. \A d \in Downloads : ~Used(d) /\ ~Live(d) /\ ~Outstanding(d)
  BY <1>2 DEF Used, Live, Outstanding, NewTask
<1>6. CommandsUsed
  BY <1>2 DEF CommandsUsed
<1>7. Books
  BY <1>2, <1>5 DEF Books, SharedBook, MarksKept, EntriesAreLive, MarksAreOwned
<1> QED
  BY <1>4, <1>6, <1>7 DEF IInv

\* IInv is inductive.
LEMMA NextInv == IInv /\ [Next]_vars => IInv'
<1> SUFFICES ASSUME IInv, [Next]_vars PROVE IInv'
  OBVIOUS
<1> USE DEF IInv
<1>1. ASSUME NEW d \in Downloads, NEW u \in Urls, NEW p \in BOOLEAN, DataTask(d, u, p)
      PROVE  IInv'
  BY <1>1, DataTaskTyped, DataTaskBooks DEF Typed
<1>2. ASSUME NEW d \in Downloads, Continue(d)
      PROVE  IInv'
  BY <1>2, ContinueTyped, ContinueBooks DEF Typed
<1>3. ASSUME NEW d \in Downloads, Native(d) \/ Settle(d) \/ Untrack(d)
      PROVE  IInv'
  BY <1>3, NativeTyped, NativeBooks DEF Typed
<1>4. \A u \in Urls, d \in Downloads : downloadingList[u] = d => Used(d)
  BY NotADownload DEF Books, EntriesAreLive, Live, Used
<1>5. ASSUME NEW u \in Urls, CancelTask(u)
      PROVE  IInv'
  <2>1. Typed'
    BY <1>4, <1>5, CancelTaskTyped DEF Typed
  <2> QED
    BY <2>1, <1>5, CancelTaskCancels, CancelBooks DEF Typed
<1>6. CASE CancelAllTask
  <2>1. \A d \in Entered : Used(d)
    BY <1>4 DEF Entered, TypeOK
  <2>2. Typed'
    BY <2>1, <1>6, CancelAllTyped DEF Typed
  <2> QED
    BY <2>2, <1>6, CancelAllCancels, CancelBooks DEF Typed
<1>7. CASE UNCHANGED vars
  <2>1. UNCHANGED js /\ \A d \in Downloads : SameForJs(d)
    BY <1>7 DEF vars, SameForJs, Used
  <2>2. TypeOK' /\ CommandsUsed'
    BY <1>7 DEF vars, js, TypeOK, CommandsUsed, Used
  <2> QED
    BY <2>1, <2>2, NativeBooks
<1> QED
  BY <1>1, <1>2, <1>3, <1>5, <1>6, <1>7 DEF Next

\* Types hold: no cancel or native call ever names a download that was not made.
THEOREM TypeTheorem == Spec => []TypeOK
  BY InitInv, NextInv, PTL DEF Spec, IInv

\* The books of the session agree with what is in flight (session.ts: isBusy, cancelTask,
\* dataTask's finally), for any number of downloads, cancels and URLs.
THEOREM BooksTheorem == Spec => []BooksAgree
<1>1. IInv => BooksAgree
  <2> SUFFICES ASSUME IInv PROVE BooksAgree
    OBVIOUS
  <2> USE DEF IInv, Books
  <2>1. ASSUME NEW d \in Downloads, Live(d), ~task[d].prefetch, task[d].url \notin shared
        PROVE  IsBusy
    <3>1. task[d].url \in Urls /\ downloadingList[task[d].url] = d
      BY <2>1, TaskEdits DEF EntriesAreLive, Tasks
    <3>2. task[d].url \notin prefetchUrls
      BY <2>1 DEF MarksAreOwned, SharedBook, Live, Outstanding, Continuations
    <3> QED
      BY <3>1, <3>2, NotADownload DEF IsBusy
  <2>2. ASSUME IsBusy
        PROVE  \E d \in Downloads :
                  /\ Live(d)
                  /\ ~task[d].prefetch \/ "caller" \in task[d].ran \/ task[d].url \in shared
    <3>1. PICK u \in Urls \ prefetchUrls : downloadingList[u] # NoTask
      BY <2>2 DEF IsBusy
    <3>2. PICK d \in Downloads : d = downloadingList[u]
      BY <3>1 DEF TypeOK
    <3>3. Live(d) /\ task[d].url = u
      BY <3>1, <3>2 DEF EntriesAreLive
    <3> QED
      BY <3>1, <3>3 DEF MarksKept
  <2>3. BusyIsPlaying
    BY <2>1, <2>2 DEF BusyIsPlaying
  <2> QED
    BY <2>3 DEF BooksAgree
<1> QED
  BY <1>1, InitInv, NextInv, PTL DEF Spec
=============================================================================
