------------------------ MODULE PreCacheQueueProofs ------------------------
(***************************************************************************)
(* Theorems about PreCacheQueue, for any URLs, any number of calls of the  *)
(* application, of downloads and of runners.                               *)
(***************************************************************************)
EXTENDS PreCacheQueue, FiniteSetTheorems, SequenceTheorems, TLAPS

-----------------------------------------------------------------------------
(* Least elements, and the sequences that Kept builds.                     *)

\* A set of natural numbers has a least element.
LEMMA LeastExists ==
  ASSUME NEW S \in SUBSET Nat, S # {}
  PROVE  \E i \in S : \A j \in S : i <= j
<1>1. \E i \in S : \A j \in S : <<j, i>> \notin OpToRel(<, Nat)
  BY NatLessThanWellFounded, WFMin, Zenon
<1>2. PICK i \in S : \A j \in S : <<j, i>> \notin OpToRel(<, Nat)
  BY <1>1
<1>3. \A j \in S : ~ (j < i)
  BY <1>2, Zenon DEF OpToRel
<1>4. \A j \in S : i <= j
  BY <1>3
<1> QED BY <1>4

\* In a finite set of natural numbers there is an element with n - 1 smaller ones, for each n
\* up to the size of the set: what Kept's CHOOSE looks for.
LEMMA RankExists ==
  ASSUME NEW S \in SUBSET Nat, IsFiniteSet(S), NEW n \in 1 .. Cardinality(S)
  PROVE  \E i \in S : Cardinality({j \in S : j < i}) = n - 1
<1> DEFINE below(i) == {j \in S : j < i}
           rank == [i \in S |-> Cardinality(below(i))]
           T == 0 .. (Cardinality(S) - 1)
<1>1. Cardinality(S) \in Nat
  BY FS_CardinalityType
<1>2. \A i \in S : IsFiniteSet(below(i)) /\ Cardinality(below(i)) \in Nat
                   /\ Cardinality(below(i)) < Cardinality(S)
  <2> TAKE i \in S
  <2>1. below(i) \in SUBSET S /\ below(i) # S
    OBVIOUS
  <2>2. IsFiniteSet(below(i)) /\ Cardinality(below(i)) <= Cardinality(S)
        /\ Cardinality(S) # Cardinality(below(i))
    BY <2>1, FS_Subset
  <2>3. Cardinality(below(i)) \in Nat
    BY <2>2, FS_CardinalityType
  <2> QED BY <2>2, <2>3, <1>1
<1>3. \A i, k \in S : i < k => rank[i] < rank[k]
  <2> SUFFICES ASSUME NEW i \in S, NEW k \in S, i < k
               PROVE  rank[i] < rank[k]
    OBVIOUS
  <2>1. below(i) \in SUBSET below(k) /\ below(i) # below(k)
    <3>1. i \in below(k) /\ i \notin below(i)
      OBVIOUS
    <3>2. \A j \in below(i) : j \in below(k)
      OBVIOUS
    <3> QED BY <3>1, <3>2
  <2>2. Cardinality(below(i)) <= Cardinality(below(k))
        /\ Cardinality(below(k)) # Cardinality(below(i))
    BY <2>1, <1>2, FS_Subset
  <2> QED BY <2>2, <1>2
<1>4. rank \in Injection(S, T)
  <2>1. rank \in [S -> T]
    BY <1>1, <1>2
  <2>2. \A i, k \in S : rank[i] = rank[k] => i = k
    <3> SUFFICES ASSUME NEW i \in S, NEW k \in S, rank[i] = rank[k]
                 PROVE  i = k
      OBVIOUS
    <3>1. i < k \/ k < i \/ i = k
      OBVIOUS
    <3>2. rank[i] \in Int /\ rank[k] \in Int
      BY <2>1, <1>1
    <3> HIDE DEF rank
    <3> QED BY <3>1, <3>2, <1>3
  <2> HIDE DEF rank
  <2> QED BY <2>1, <2>2 DEF Injection, IsInjective
<1>5. IsFiniteSet(T) /\ Cardinality(T) = Cardinality(S)
  <2>1. 0 \in Int /\ Cardinality(S) - 1 \in Int
    BY <1>1
  <2>2. /\ IsFiniteSet(T)
        /\ Cardinality(T) = IF 0 > Cardinality(S) - 1 THEN 0 ELSE (Cardinality(S) - 1) - 0 + 1
    BY <2>1, FS_Interval, Zenon
  <2> QED BY <2>2, <1>1
<1>6. rank \in Surjection(S, T)
  BY <1>4, <1>5, FS_Injection
<1>7. n - 1 \in T
  BY <1>1
<1>8. \E i \in S : rank[i] = n - 1
  <2> HIDE DEF rank, T
  <2> QED BY <1>6, <1>7 DEF Surjection
<1> QED BY <1>8

\* What is kept of a list is a list of the same elements.
LEMMA KeptIsList ==
  ASSUME NEW E, NEW s \in Seq(E), NEW P \in SUBSET DOMAIN s
  PROVE  Kept(s, P) \in Seq(E)
<1> DEFINE at(n) == CHOOSE i \in P : Cardinality({j \in P : j < i}) = n - 1
<1>1. DOMAIN s = 1 .. Len(s) /\ Len(s) \in Nat
  OBVIOUS
<1>2. IsFiniteSet(P) /\ P \in SUBSET Nat
  <2>1. IsFiniteSet(1 .. Len(s))
    BY <1>1, FS_Interval
  <2> QED BY <2>1, <1>1, FS_Subset
<1>3. Cardinality(P) \in Nat
  BY <1>2, FS_CardinalityType
<1>4. \A n \in 1 .. Cardinality(P) : at(n) \in P
  <2> TAKE n \in 1 .. Cardinality(P)
  <2>1. \E i \in P : Cardinality({j \in P : j < i}) = n - 1
    BY <1>2, RankExists
  <2> QED BY <2>1
<1>5. \A n \in 1 .. Cardinality(P) : s[at(n)] \in E
  <2> HIDE DEF at
  <2> QED BY <1>4, <1>1
<1> HIDE DEF at
<1>6. [n \in 1 .. Cardinality(P) |-> s[at(n)]] \in Seq(E)
  BY <1>3, <1>5, IsASeq
<1> QED BY <1>6 DEF Kept, at

\* LeastFree gives an id that no task, or runner, of S has.
LEMMA FreeId ==
  ASSUME NEW S, Room(S)
  PROVE  LeastFree(S) \in Ids /\ \A x \in S : x.id # LeastFree(S)
<1>1. FreeIds(S) \in SUBSET Nat /\ FreeIds(S) # {}
  BY BoundsAssumption DEF Room, FreeIds, Ids
<1>2. \E i \in FreeIds(S) : \A j \in FreeIds(S) : i <= j
  BY <1>1, LeastExists
<1>3. LeastFree(S) \in FreeIds(S)
  BY <1>2 DEF LeastFree
<1> QED BY <1>3 DEF FreeIds

-----------------------------------------------------------------------------
(* Types. *)

\* Open files that follow their file stay open files.
LEMMA FollowType ==
  ASSUME NEW S \in SUBSET Tasks, NEW f, NEW from,
         NEW to \in {"unopened", "temp", "final", "gone"}
  PROVE  Follow(S, f, from, to) \in SUBSET Tasks
BY DEF Follow, Tasks

\* The first part of prepareSourceMedia keeps the types.
LEMMA StartTaskType ==
  ASSUME TypeOK, NEW u \in Media, Room(tasks), StartTask(u)
  PROVE  /\ tasks' \subseteq Tasks /\ shared' \subseteq Files
         /\ cachingUrl' \in [Urls -> {0} \union Ids]
<1>1. LeastFree(tasks) \in Ids
  BY FreeId
<1>2. u \in Urls /\ FileOf[u] \in MediaFiles /\ FileOf[u] \in Files
  BY DEF Urls, MediaFiles, Files
<1>3. tasks \subseteq Tasks /\ shared \subseteq Files /\ cachingUrl \in [Urls -> {0} \union Ids]
  BY DEF TypeOK
<1>4. [id |-> LeastFree(tasks), url |-> u, path |-> FileOf[u], at |-> "fetch",
         file |-> "unopened", cut |-> FALSE] \in Tasks
  BY <1>1, <1>2 DEF Tasks, Stages
<1>5. tasks' \subseteq Tasks
  BY <1>3, <1>4 DEF StartTask
<1>6. shared' \subseteq Files
  BY <1>2, <1>3 DEF StartTask
<1>7. cachingUrl' \in [Urls -> {0} \union Ids]
  BY <1>1, <1>3 DEF StartTask
<1> QED BY <1>5, <1>6, <1>7

\* What runCacheFromCDN does to downloads: nothing, or it starts one of a URL that is not
\* entered, unless the URL is encoded.
LEMMA RunListTasks ==
  ASSUME TypeOK, NEW L \in Seq(Urls), NEW others, NEW hold, RunList(L, others, hold)
  PROVE  \/ UNCHANGED <<tasks, cachingUrl, shared, loosened>>
         \/ \E u \in Media :
               /\ StartTask(u) /\ Room(tasks)
               /\ loosened' = (loosened \/ u \in Encoded)
               /\ u \in Encoded \/ cachingUrl[u] = 0
<1> DEFINE free == {i \in DOMAIN L : ~Entered(L[i])}
           first == CHOOSE i \in free : \A j \in free : i <= j
           u == L[first]
<1>1. ASSUME free # {} PROVE ~Entered(u)
  <2>1. free \in SUBSET Nat
    OBVIOUS
  <2>2. \E i \in free : \A j \in free : i <= j
    BY <1>1, <2>1, LeastExists
  <2>3. first \in free
    BY <2>2
  <2> QED BY <2>3
<1>2. \/ UNCHANGED <<tasks, cachingUrl, history>>
      \/ UNCHANGED <<tasks, cachingUrl, shared, loosened>>
      \/ /\ free # {} /\ u \in Media /\ Room(tasks) /\ StartTask(u)
         /\ loosened' = (loosened \/ u \in Encoded)
  BY DEF RunList
<1>3. CASE UNCHANGED <<tasks, cachingUrl, history>>
  BY <1>3 DEF history
<1>4. CASE /\ free # {} /\ u \in Media /\ Room(tasks) /\ StartTask(u)
           /\ loosened' = (loosened \/ u \in Encoded)
  <2>1. u \in Encoded \/ cachingUrl[u] = 0
    BY <1>1, <1>4 DEF Entered
  <2> HIDE DEF u, free
  <2> QED BY <1>4, <2>1
<1> QED BY <1>2, <1>3, <1>4

\* runCacheFromCDN keeps the types; of its runner and the others at most one is awaited.
LEMMA RunListType ==
  ASSUME TypeOK, NEW L \in Seq(Urls), NEW others \in SUBSET runners, NEW hold \in BOOLEAN,
         hold => \A r \in others : ~r.held, RunList(L, others, hold)
  PROVE  /\ preCachingList' \in Seq(Urls)
         /\ runners' \subseteq Runners
         /\ isRunningThread' = \E r \in runners' : r.held
         /\ \A r \in runners', q \in runners' : r.held /\ q.held => r = q
         /\ cachingUrl' \in [Urls -> {0} \union Ids] /\ tasks' \subseteq Tasks
         /\ shared' \subseteq Files /\ loosened' \in BOOLEAN /\ threw' \in BOOLEAN
<1> DEFINE free == {i \in DOMAIN L : ~Entered(L[i])}
           first == CHOOSE i \in free : \A j \in free : i <= j
           u == L[first]
           runner(at, task) == [id |-> LeastFree(others), at |-> at, task |-> task,
                                held |-> hold /\ first = 1]
<1>1. /\ runners \subseteq Runners
      /\ \A r \in runners, q \in runners : r.held /\ q.held => r = q
      /\ cachingUrl \in [Urls -> {0} \union Ids] /\ tasks \subseteq Tasks
      /\ shared \subseteq Files /\ loosened \in BOOLEAN /\ threw \in BOOLEAN
  BY DEF TypeOK
<1>2. SubSeq(L, first + 1, Len(L)) \in Seq(Urls) \/ free = {}
  <2> SUFFICES ASSUME free # {} PROVE SubSeq(L, first + 1, Len(L)) \in Seq(Urls)
    OBVIOUS
  <2>1. free \in SUBSET Nat
    OBVIOUS
  <2>2. \E i \in free : \A j \in free : i <= j
    BY <2>1, LeastExists
  <2>3. first \in free
    BY <2>2
  <2>4. first \in 1 .. Len(L) /\ Len(L) \in Nat
    BY <2>3
  <2>5. \A i \in (first + 1) .. Len(L) : L[i] \in Urls
    BY <2>4
  <2> HIDE DEF first, free
  <2> QED BY <2>4, <2>5, SubSeqProperties
<1>3. ASSUME free # {} PROVE \A at, task : Room(others) =>
          /\ runner(at, task).held \in BOOLEAN
          /\ at \in {"download", "prefetch", "delay"} /\ task \in {0} \union Ids
                => runner(at, task) \in Runners
          /\ runner(at, task).held => hold
  BY FreeId DEF Runners
<1>4. CASE /\ free = {}
           /\ preCachingList' = <<>>
           /\ runners' = others
           /\ isRunningThread' = \E r \in others : r.held
           /\ UNCHANGED <<tasks, cachingUrl, history>>
  BY <1>1, <1>4 DEF history
<1>5. ASSUME NEW at \in {"download", "prefetch"}, NEW task \in {0} \union Ids,
             free # {}, Room(others),
             runners' = others \union {runner(at, task)},
             isRunningThread' = \E r \in runners' : r.held
      PROVE  /\ runners' \subseteq Runners
             /\ isRunningThread' = \E r \in runners' : r.held
             /\ \A r \in runners', q \in runners' : r.held /\ q.held => r = q
  <2> DEFINE new == runner(at, task)
  <2>1. new \in Runners /\ (new.held => hold)
    BY <1>3, <1>5
  <2>2. runners' = others \union {new}
    BY <1>5
  <2> HIDE DEF new
  <2>3. runners' \subseteq Runners
    BY <2>1, <2>2, <1>1
  <2>4. \A r \in runners', q \in runners' : r.held /\ q.held => r = q
    BY <2>1, <2>2, <1>1
  <2> QED BY <2>3, <2>4, <1>5
<1>6. CASE /\ free # {} /\ u \in Media
           /\ Room(tasks) /\ Room(others)
           /\ preCachingList' = SubSeq(L, first + 1, Len(L))
           /\ StartTask(u)
           /\ runners' = others \union {runner("download", LeastFree(tasks))}
           /\ isRunningThread' = \E r \in runners' : r.held
           /\ loosened' = (loosened \/ u \in Encoded)
           /\ UNCHANGED threw
  <2>1. LeastFree(tasks) \in Ids
    BY <1>6, FreeId
  <2>2. /\ tasks' \subseteq Tasks /\ shared' \subseteq Files
        /\ cachingUrl' \in [Urls -> {0} \union Ids]
    <3> HIDE DEF u, free
    <3> QED BY <1>6, StartTaskType
  <2>3. /\ runners' \subseteq Runners
        /\ isRunningThread' = \E r \in runners' : r.held
        /\ \A r \in runners', q \in runners' : r.held /\ q.held => r = q
    <3> HIDE DEF runner, u, free
    <3> QED BY <1>5, <1>6, <2>1
  <2>4. preCachingList' \in Seq(Urls)
    <3> HIDE DEF u, free, first
    <3> QED BY <1>2, <1>6
  <2>5. loosened' \in BOOLEAN /\ threw' \in BOOLEAN
    BY <1>1, <1>6
  <2> HIDE DEF runner, u, free
  <2> QED BY <2>2, <2>3, <2>4, <2>5
<1>7. CASE /\ free # {} /\ u \in Streams
           /\ Room(others)
           /\ preCachingList' = SubSeq(L, first + 1, Len(L))
           /\ runners' = others \union {runner("prefetch", 0)}
           /\ isRunningThread' = \E r \in runners' : r.held
           /\ UNCHANGED <<tasks, cachingUrl, history>>
  <2>1. preCachingList' \in Seq(Urls)
    <3> HIDE DEF u, free, first
    <3> QED BY <1>2, <1>7
  <2>2. /\ runners' \subseteq Runners
        /\ isRunningThread' = \E r \in runners' : r.held
        /\ \A r \in runners', q \in runners' : r.held /\ q.held => r = q
    <3> HIDE DEF runner, u, free
    <3> QED BY <1>5, <1>7
  <2> HIDE DEF runner, u, free
  <2> QED BY <2>1, <2>2, <1>1, <1>7 DEF history
<1>8. CASE /\ free # {} /\ u \in Malformed
           /\ preCachingList' = SubSeq(L, first + 1, Len(L))
           /\ runners' = others
           /\ isRunningThread' = \E r \in others : r.held
           /\ threw' = TRUE
           /\ UNCHANGED <<tasks, cachingUrl, shared, loosened>>
  <2>1. preCachingList' \in Seq(Urls)
    <3> HIDE DEF u, free, first
    <3> QED BY <1>2, <1>8
  <2> HIDE DEF u, free
  <2> QED BY <2>1, <1>1, <1>8
<1> QED BY <1>4, <1>6, <1>7, <1>8 DEF RunList

\* The variables' types apart from the queue's, to be cited where the queue stays as it is.
QueueOK ==
    /\ preCachingList \in Seq(Urls)
    /\ runners \subseteq Runners
    /\ isRunningThread = \E r \in runners : r.held
    /\ \A r \in runners, q \in runners : r.held /\ q.held => r = q

FilesOK ==
    /\ tasks \subseteq Tasks /\ asks \subseteq Asks
    /\ temp \in [Files -> Contents] /\ final \in [Files -> Contents]
    /\ cachingUrl \in [Urls -> {0} \union Ids]
    /\ errorCachingList \subseteq Urls /\ cached \subseteq Files

HistoryOK == shared \subseteq Files /\ loosened \in BOOLEAN /\ threw \in BOOLEAN

CallsOK == pages \subseteq Pages /\ ops \in 0 .. MaxOps

\* TypeOK, in those parts, before and after a step.
LEMMA TypeParts ==
  /\ TypeOK <=> QueueOK /\ FilesOK /\ HistoryOK /\ CallsOK
  /\ TypeOK' <=> QueueOK' /\ FilesOK' /\ HistoryOK' /\ CallsOK'
BY DEF TypeOK, QueueOK, FilesOK, HistoryOK, CallsOK

\* The initial states are well-typed.
LEMMA TypeInit == Init => TypeOK
<1> SUFFICES ASSUME Init PROVE TypeOK
  OBVIOUS
<1>1. QueueOK
  <2>1. preCachingList = <<>> /\ isRunningThread = FALSE /\ runners = {}
    BY DEF Init
  <2>2. preCachingList \in Seq(Urls)
    BY <2>1
  <2>3. ~ \E r \in runners : r.held
    BY <2>1
  <2> QED BY <2>1, <2>2, <2>3 DEF QueueOK
<1>2. CallsOK
  BY BoundsAssumption DEF Init, CallsOK
<1>3. FilesOK
  BY DEF Init, FilesOK, Contents
<1>4. HistoryOK
  BY DEF Init, HistoryOK
<1> QED BY <1>1, <1>2, <1>3, <1>4, TypeParts

\* A call of the application is counted.
LEMMA CallCounts == ASSUME TypeOK, Call PROVE ops' \in 0 .. MaxOps
BY BoundsAssumption DEF TypeOK, Call

\* The list, its pages and its runners keep the types.
LEMMA TypeQueueStep ==
  ASSUME TypeOK,
         \/ \E urls \in Lists : PreCacheForList(urls)
         \/ \E u \in Media : PreCacheFor(u)
         \/ CancelCachingList
         \/ \E p \in pages : PageStep(p)
         \/ \E r \in runners : RunnerStep(r)
  PROVE  TypeOK'
<1> USE DEF queue, disk, history
<1>0. QueueOK /\ FilesOK /\ HistoryOK /\ CallsOK
  BY TypeParts
<1>1. ASSUME NEW urls \in Lists, PreCacheForList(urls) PROVE TypeOK'
  <2>1. urls \in Seq(Urls)
    BY ListsAssumption
  <2>2. [urls |-> urls, exist |-> {}, at |-> "exists"] \in Pages
    BY <2>1 DEF Pages
  <2>3. CallsOK'
    BY <1>0, <1>1, <2>2, CallCounts DEF CallsOK, PreCacheForList
  <2>4. QueueOK' /\ FilesOK' /\ HistoryOK'
    BY <1>0, <1>1 DEF QueueOK, FilesOK, HistoryOK, PreCacheForList
  <2> QED BY <2>3, <2>4, TypeParts
<1>2. ASSUME NEW u \in Media, PreCacheFor(u) PROVE TypeOK'
  <2>1. /\ tasks' \subseteq Tasks /\ shared' \subseteq Files
        /\ cachingUrl' \in [Urls -> {0} \union Ids]
    BY <1>2, StartTaskType DEF PreCacheFor
  <2>2. FilesOK'
    BY <2>1, <1>0, <1>2 DEF FilesOK, PreCacheFor
  <2>3. HistoryOK'
    BY <2>1, <1>0, <1>2 DEF HistoryOK, PreCacheFor
  <2>4. QueueOK'
    BY <1>0, <1>2 DEF QueueOK, PreCacheFor
  <2>5. CallsOK'
    BY <1>0, <1>2, CallCounts DEF CallsOK, PreCacheFor
  <2> QED BY <2>2, <2>3, <2>4, <2>5, TypeParts
<1>3. CASE CancelCachingList
  <2> DEFINE entered == {u \in Urls : cachingUrl[u] # 0}
             first == {i \in DOMAIN preCachingList :
                        /\ preCachingList[i] \in entered \ Encoded
                        /\ \A j \in 1 .. (i - 1) : preCachingList[j] # preCachingList[i]}
  <2>1. Kept(preCachingList, DOMAIN preCachingList \ first) \in Seq(Urls)
    <3>1. DOMAIN preCachingList \ first \in SUBSET DOMAIN preCachingList
      OBVIOUS
    <3> QED BY <3>1, <1>0, KeptIsList DEF QueueOK
  <2>2. /\ preCachingList' = Kept(preCachingList, DOMAIN preCachingList \ first)
        /\ errorCachingList' \subseteq errorCachingList
    BY <1>3 DEF CancelCachingList
  <2>3. QueueOK'
    BY <2>1, <2>2, <1>0, <1>3 DEF QueueOK, CancelCachingList
  <2>4. FilesOK'
    BY <2>2, <1>0, <1>3 DEF FilesOK, CancelCachingList
  <2>5. HistoryOK' /\ CallsOK'
    BY <1>0, <1>3, CallCounts DEF HistoryOK, CallsOK, CancelCachingList
  <2> QED BY <2>3, <2>4, <2>5, TypeParts
<1>4. ASSUME NEW p \in pages, FilesExist(p) PROVE TypeOK'
  <2>1. [p EXCEPT !.exist = {f \in Files : final[f] # NoFile}, !.at = "go"] \in Pages
    BY <1>0 DEF CallsOK, Pages
  <2>2. CallsOK'
    BY <2>1, <1>0, <1>4 DEF CallsOK, FilesExist
  <2>3. QueueOK' /\ FilesOK' /\ HistoryOK'
    BY <1>0, <1>4 DEF QueueOK, FilesOK, HistoryOK, FilesExist
  <2> QED BY <2>2, <2>3, TypeParts
<1>5. ASSUME NEW p \in pages, ListPage(p) PROVE TypeOK'
  <2> DEFINE L == NewUrls(p) \o preCachingList
  <2>1. p.urls \in Seq(Urls)
    BY <1>0 DEF CallsOK, Pages
  <2>2. NewUrls(p) \in Seq(Urls)
    BY <2>1, KeptIsList DEF NewUrls
  <2>3. L \in Seq(Urls)
    BY <2>2, <1>0 DEF QueueOK
  <2>4. /\ pages' = pages \ {p}
        /\ cached' \subseteq cached \union p.exist
        /\ UNCHANGED <<errorCachingList, asks, temp, final, ops>>
    BY <1>5 DEF ListPage
  <2>5. cached' \subseteq Files
    BY <2>4, <1>0 DEF FilesOK, CallsOK, Pages
  <2>6. CallsOK'
    BY <2>4, <1>0 DEF CallsOK
  <2>7. CASE /\ preCachingList' = L
             /\ UNCHANGED <<isRunningThread, runners, tasks, cachingUrl, history>>
    BY <2>3, <2>4, <2>5, <2>6, <2>7, <1>0, TypeParts DEF QueueOK, FilesOK, HistoryOK
  <2>8. CASE ~isRunningThread /\ RunList(L, runners, TRUE)
    <3>1. \A r \in runners : ~r.held
      BY <2>8, <1>0 DEF QueueOK
    <3>2. QueueOK' /\ HistoryOK' /\ cachingUrl' \in [Urls -> {0} \union Ids]
          /\ tasks' \subseteq Tasks
      <4> HIDE DEF L
      <4> QED BY <2>3, <2>8, <3>1, RunListType DEF QueueOK, HistoryOK
    <3>3. FilesOK'
      BY <3>2, <2>4, <2>5, <1>0 DEF FilesOK
    <3> QED BY <3>2, <3>3, <2>6, TypeParts
  <2> QED BY <2>7, <2>8, <1>5 DEF ListPage
<1>6. ASSUME NEW r \in runners, RunOn(r) PROVE TypeOK'
  <2>1. RunList(preCachingList, runners \ {r}, FALSE)
    BY <1>6 DEF RunOn
  <2>2. QueueOK' /\ HistoryOK' /\ cachingUrl' \in [Urls -> {0} \union Ids]
        /\ tasks' \subseteq Tasks
    <3>1. runners \ {r} \in SUBSET runners
      OBVIOUS
    <3> QED BY <2>1, <3>1, <1>0, RunListType DEF QueueOK, HistoryOK
  <2>3. FilesOK' /\ CallsOK'
    BY <2>2, <1>0, <1>6 DEF FilesOK, CallsOK, RunOn
  <2> QED BY <2>2, <2>3, TypeParts
<1>7. ASSUME NEW r \in runners, Prefetched(r) PROVE TypeOK'
  <2>1. r \in Runners
    BY <1>0 DEF QueueOK
  <2> DEFINE on == [r EXCEPT !.at = "delay"]
  <2>2. on \in Runners /\ on.held = r.held
    BY <2>1 DEF Runners
  <2>3. runners' = (runners \ {r}) \union {on} /\ UNCHANGED <<preCachingList, isRunningThread>>
    BY <1>7 DEF Prefetched
  <2> HIDE DEF on
  <2>4. QueueOK'
    BY <2>2, <2>3, <1>0 DEF QueueOK
  <2>5. FilesOK' /\ HistoryOK' /\ CallsOK'
    BY <1>0, <1>7 DEF FilesOK, HistoryOK, CallsOK, Prefetched
  <2> QED BY <2>4, <2>5, TypeParts
<1> QED BY <1>1, <1>2, <1>3, <1>4, <1>5, <1>6, <1>7 DEF PageStep, RunnerStep

\* The end of a download keeps the types, and the semaphore in step with the runners.
LEMMA EndsType ==
  ASSUME TypeOK, NEW t \in tasks, NEW S \in SUBSET Tasks, Ends(t, S)
  PROVE  QueueOK' /\ tasks' \subseteq Tasks /\ cachingUrl' \in [Urls -> {0} \union Ids]
<1> DEFINE on(r) == IF r.task = t.id THEN [r EXCEPT !.at = "delay", !.task = 0] ELSE r
<1>1. QueueOK
  BY TypeParts
<1>2. \A r \in runners : on(r) \in Runners /\ on(r).held = r.held
  BY <1>1 DEF QueueOK, Runners
<1>3. runners' = {on(r) : r \in runners} /\ UNCHANGED <<preCachingList, isRunningThread>>
  BY DEF Ends
<1> HIDE DEF on
<1>4. runners' \subseteq Runners
  BY <1>2, <1>3
<1>5. isRunningThread' = \E r \in runners' : r.held
  <2>1. (\E r \in runners : r.held) <=> \E r \in runners' : r.held
    BY <1>2, <1>3
  <2> QED BY <2>1, <1>1, <1>3 DEF QueueOK
<1>6. \A r \in runners', q \in runners' : r.held /\ q.held => r = q
  <2> SUFFICES ASSUME NEW r \in runners, NEW q \in runners, on(r).held, on(q).held
               PROVE  on(r) = on(q)
    BY <1>3
  <2>1. r.held /\ q.held
    BY <1>2
  <2> QED BY <2>1, <1>1 DEF QueueOK
<1>7. QueueOK'
  BY <1>1, <1>3, <1>4, <1>5, <1>6 DEF QueueOK
<1> QED BY <1>7, TypeParts DEF Ends, FilesOK

\* The steps of a download keep the types.
LEMMA TypeTaskStep ==
  ASSUME TypeOK, NEW t \in tasks, TaskStep(t)
  PROVE  TypeOK'
<1> USE DEF queue, disk, history
<1>0. QueueOK /\ FilesOK /\ HistoryOK /\ CallsOK
  BY TypeParts
<1>1. t \in Tasks /\ t.url \in Urls /\ t.path \in Files /\ tasks \ {t} \in SUBSET Tasks
  BY <1>0 DEF FilesOK, Tasks, Urls, MediaFiles, Files
<1>2. \A to \in Contents : /\ [temp EXCEPT ![t.path] = to] \in [Files -> Contents]
                          /\ [final EXCEPT ![t.path] = to] \in [Files -> Contents]
  BY <1>0 DEF FilesOK
<1>3. \A at \in Stages : [t EXCEPT !.at = at] \in Tasks
  BY <1>1 DEF Tasks
<1>4. CASE Open(t)
  <2>0. \A s \in tasks : [s EXCEPT !.file = "temp"] \in Tasks /\ [s EXCEPT !.cut = TRUE] \in Tasks
    BY <1>0 DEF FilesOK, Tasks
  <2>1. tasks' \subseteq Tasks
    BY <2>0, <1>0, <1>4 DEF FilesOK, Open
  <2>2. FilesOK'
    BY <2>1, <1>0, <1>2, <1>4 DEF FilesOK, Open, Contents
  <2>3. QueueOK' /\ HistoryOK' /\ CallsOK'
    BY <1>0, <1>4 DEF QueueOK, HistoryOK, CallsOK, Open
  <2> QED BY <2>2, <2>3, TypeParts
<1>5. CASE Fetch(t)
  <2>1. tasks' \subseteq Tasks
    BY <1>0, <1>3, <1>5 DEF FilesOK, Fetch, Becomes, Stages, Reasons
  <2>2. \A was : Filled(t, was) \in Contents
    BY DEF Filled, Contents
  <2>3. temp' \in [Files -> Contents] /\ final' \in [Files -> Contents]
    BY <2>2, <1>0, <1>5 DEF FilesOK, Fetch
  <2>4. FilesOK'
    BY <2>1, <2>3, <1>0, <1>5 DEF FilesOK, Fetch
  <2>5. QueueOK' /\ HistoryOK' /\ CallsOK'
    BY <1>0, <1>5 DEF QueueOK, HistoryOK, CallsOK, Fetch
  <2> QED BY <2>4, <2>5, TypeParts
<1>6. CASE FetchFails(t)
  <2>1. tasks' \subseteq Tasks
    BY <1>0, <1>3, <1>6 DEF FilesOK, FetchFails, Becomes, Stages, Reasons
  <2>2. FilesOK'
    BY <2>1, <1>0, <1>6 DEF FilesOK, FetchFails
  <2>3. QueueOK' /\ HistoryOK' /\ CallsOK'
    BY <1>0, <1>6 DEF QueueOK, HistoryOK, CallsOK, FetchFails
  <2> QED BY <2>2, <2>3, TypeParts
<1>7. CASE Stat(t)
  <2>1. Verdict(t) \in Stages
    BY DEF Verdict, Stages, Reasons
  <2>2. tasks' \subseteq Tasks
    BY <2>1, <1>0, <1>3, <1>7 DEF FilesOK, Stat, Becomes
  <2>3. FilesOK'
    BY <2>2, <1>0, <1>7 DEF FilesOK, Stat
  <2>4. QueueOK' /\ HistoryOK' /\ CallsOK'
    BY <1>0, <1>7 DEF QueueOK, HistoryOK, CallsOK, Stat
  <2> QED BY <2>3, <2>4, TypeParts
<1>8. CASE UnlinkFinal(t)
  <2>1. tasks' \subseteq Tasks
    BY <1>1, <1>3, <1>8, FollowType DEF UnlinkFinal, Stages
  <2>2. FilesOK'
    BY <2>1, <1>0, <1>2, <1>8 DEF FilesOK, UnlinkFinal, Contents
  <2>3. QueueOK' /\ HistoryOK' /\ CallsOK'
    BY <1>0, <1>8 DEF QueueOK, HistoryOK, CallsOK, UnlinkFinal
  <2> QED BY <2>2, <2>3, TypeParts
<1>9. CASE Rename(t)
  <2>1. [t EXCEPT !.at = "register", !.file = "final"] \in Tasks
    BY <1>1 DEF Tasks, Stages
  <2>2. Follow(Follow(tasks \ {t}, t.path, "final", "gone"), t.path, "temp", "final")
          \in SUBSET Tasks
    BY <1>1, FollowType
  <2>3. tasks' \subseteq Tasks
    BY <2>1, <2>2, <1>1, <1>3, <1>9 DEF Rename, Becomes, Stages, Reasons
  <2>4. temp[t.path] \in Contents /\ NoFile \in Contents
    BY <1>0, <1>1 DEF FilesOK, Contents
  <2>5. temp' \in [Files -> Contents] /\ final' \in [Files -> Contents]
    BY <2>4, <1>0, <1>2, <1>9 DEF Rename, FilesOK
  <2>6. FilesOK'
    BY <2>3, <2>5, <1>0, <1>9 DEF FilesOK, Rename
  <2>7. QueueOK' /\ HistoryOK' /\ CallsOK'
    BY <1>0, <1>9 DEF QueueOK, HistoryOK, CallsOK, Rename
  <2> QED BY <2>6, <2>7, TypeParts
<1>10. CASE Register(t)
  <2>1. QueueOK' /\ tasks' \subseteq Tasks /\ cachingUrl' \in [Urls -> {0} \union Ids]
    BY <1>0, <1>10, EndsType DEF Register, FilesOK
  <2>2. FilesOK'
    BY <2>1, <1>0, <1>1, <1>10 DEF FilesOK, Register
  <2>3. HistoryOK' /\ CallsOK'
    BY <1>0, <1>10 DEF HistoryOK, CallsOK, Register
  <2> QED BY <2>1, <2>2, <2>3, TypeParts
<1>11. CASE Discard(t)
  <2>1. {t} \union Follow(tasks \ {t}, t.path, "temp", "gone") \in SUBSET Tasks
    BY <1>1, FollowType
  <2>2. QueueOK' /\ tasks' \subseteq Tasks /\ cachingUrl' \in [Urls -> {0} \union Ids]
    BY <2>1, <1>11, EndsType DEF Discard
  <2>3. errorCachingList' \subseteq Urls
    BY <1>0, <1>1, <1>11 DEF FilesOK, Discard
  <2>4. FilesOK'
    BY <2>2, <2>3, <1>0, <1>2, <1>11 DEF FilesOK, Discard, Contents
  <2>5. HistoryOK' /\ CallsOK'
    BY <1>0, <1>11 DEF HistoryOK, CallsOK, Discard
  <2> QED BY <2>2, <2>4, <2>5, TypeParts
<1> QED BY <1>4, <1>5, <1>6, <1>7, <1>8, <1>9, <1>10, <1>11 DEF TaskStep

\* Lookups and removals keep the types.
LEMMA TypeAskStep ==
  ASSUME TypeOK,
         \/ \E f \in MediaFiles, removal \in BOOLEAN : Ask(f, removal)
         \/ \E a \in asks : AskStep(a)
  PROVE  TypeOK'
<1> USE DEF queue, disk, history
<1>0. QueueOK /\ FilesOK /\ HistoryOK /\ CallsOK
  BY TypeParts
<1>1. ASSUME NEW f \in MediaFiles, NEW removal \in BOOLEAN, Ask(f, removal) PROVE TypeOK'
  <2>1. [path |-> f, removal |-> removal, at |-> IF f \in cached THEN "entry" ELSE "final"]
          \in Asks
    BY DEF Asks
  <2>2. FilesOK'
    BY <2>1, <1>0, <1>1 DEF FilesOK, Ask
  <2>3. CallsOK'
    BY <1>0, <1>1, CallCounts DEF CallsOK, Ask
  <2>4. QueueOK' /\ HistoryOK'
    BY <1>0, <1>1 DEF QueueOK, HistoryOK, Ask
  <2> QED BY <2>2, <2>3, <2>4, TypeParts
<1>2. ASSUME NEW a \in asks, AskStep(a) PROVE TypeOK'
  <2>1. a \in Asks /\ a.path \in Files /\ asks \subseteq Asks
    BY <1>0 DEF FilesOK, Asks, MediaFiles, Files, Urls
  <2>2. \A at \in {"temp", "unlink", "files"} : [a EXCEPT !.at = at] \in Asks
    BY <2>1 DEF Asks
  <2>3. asks' \subseteq Asks
    <3>1. ASSUME AskFinds(a) PROVE asks' \subseteq Asks
      BY <2>1, <2>2, <3>1 DEF AskFinds
    <3>2. ASSUME AskMisses(a) PROVE asks' \subseteq Asks
      BY <2>1, <2>2, <3>2 DEF AskMisses
    <3>3. ASSUME AskFindsTemp(a) PROVE asks' \subseteq Asks
      BY <2>1, <2>2, <3>3 DEF AskFindsTemp
    <3>4. ASSUME AskUnlinksTemp(a) \/ RemoveFile(a) PROVE asks' \subseteq Asks
      BY <2>1, <3>4 DEF AskUnlinksTemp, RemoveFile
    <3> QED BY <1>2, <3>1, <3>2, <3>3, <3>4 DEF AskStep
  <2>4. cached' \subseteq Files
    BY <2>1, <1>0, <1>2
    DEF FilesOK, AskStep, AskFinds, AskMisses, AskFindsTemp, AskUnlinksTemp, RemoveFile
  <2>5. tasks' \subseteq Tasks
    <3>1. \A from : Follow(tasks, a.path, from, "gone") \in SUBSET Tasks
      BY <1>0, FollowType DEF FilesOK
    <3> QED
      BY <3>1, <1>0, <1>2
      DEF FilesOK, AskStep, AskFinds, AskMisses, AskFindsTemp, AskUnlinksTemp, RemoveFile
  <2>6. temp' \in [Files -> Contents] /\ final' \in [Files -> Contents]
    BY <1>0, <1>2
    DEF FilesOK, Contents, AskStep, AskFinds, AskMisses, AskFindsTemp, AskUnlinksTemp, RemoveFile
  <2>7. UNCHANGED <<queue, pages, cachingUrl, errorCachingList, ops, history>>
    BY <1>2 DEF AskStep, AskFinds, AskMisses, AskFindsTemp, AskUnlinksTemp, RemoveFile
  <2>8. FilesOK'
    BY <2>3, <2>4, <2>5, <2>6, <2>7, <1>0 DEF FilesOK
  <2>9. QueueOK' /\ HistoryOK' /\ CallsOK'
    BY <2>7, <1>0 DEF QueueOK, HistoryOK, CallsOK
  <2> QED BY <2>8, <2>9, TypeParts
<1> QED BY <1>1, <1>2

\* TypeOK is inductive.
LEMMA TypeStep == TypeOK /\ [Next]_vars => TypeOK'
<1> SUFFICES ASSUME TypeOK, [Next]_vars PROVE TypeOK'
  OBVIOUS
<1>1. CASE UNCHANGED vars
  <2>1. QueueOK' /\ FilesOK' /\ HistoryOK' /\ CallsOK'
    BY <1>1, TypeParts DEF vars, queue, disk, history, QueueOK, FilesOK, HistoryOK, CallsOK
  <2> QED BY <2>1, TypeParts
<1> QED BY <1>1, TypeQueueStep, TypeTaskStep, TypeAskStep DEF Next

\* Every reachable state of the pre-cache queue is well-typed: the semaphore of runThread is
\* taken exactly while it awaits a runner, and it never awaits two.
THEOREM TypeTheorem == Spec => []TypeOK
<1> QED BY TypeInit, TypeStep, PTL DEF Spec

-----------------------------------------------------------------------------
(***************************************************************************)
(* Files and downloads.  What two downloads of one file do to each other's *)
(* temp file is not said: FinalIsWhole excepts the files in shared.        *)
(***************************************************************************)
IdsUnique == \A s \in tasks, t \in tasks : s.id = t.id => s = t

Alone == \A s \in tasks, t \in tasks : s.path = t.path /\ s.path \notin shared => s = t

\* A download nobody has disturbed writes to the temp path, and moves no short file.
SoundTask(t, atTemp) ==
    /\ ~t.cut
    /\ t.at = "fetch" => t.file # "final"
    /\ t.at \in {"unlink", "rename"} => atTemp # "part"

Sound == \A t \in tasks : t.path \notin shared => SoundTask(t, temp[t.path])

Whole == \A f \in Files : f \notin shared => final[f] \in {NoFile, "whole"} /\ temp[f] # "holed"

\* Between its rename and its registration a download has no temp file; if there is one, it
\* is another's, which has still to end.
Left ==
    \A t \in tasks : t.at = "register" /\ temp[t.path] # NoFile =>
        \E s \in tasks : s.path = t.path /\ s.at # "register"

TaskInv == IdsUnique /\ Alone /\ Sound /\ Whole /\ Left

\* A step that concerns one file only: g tells what becomes of each task.
LEMMA LocalStep ==
  ASSUME TypeOK, TaskInv, NEW f \in Files, NEW g, shared' = shared,
         \A s \in tasks : g[s].id = s.id /\ g[s].path = s.path,
         \A s \in tasks : s.path # f => g[s] = s /\ s \in tasks',
         \A x \in tasks' : \E s \in tasks : x = g[s],
         \A v \in Files : v # f => temp'[v] = temp[v] /\ final'[v] = final[v],
         f \notin shared => final'[f] \in {NoFile, "whole"} /\ temp'[f] # "holed",
         \A s \in tasks : f \notin shared /\ s.path = f /\ g[s] \in tasks'
                           => SoundTask(g[s], temp'[f]),
         \/ temp'[f] = NoFile
         \/ \E x \in tasks' : x.path = f /\ x.at # "register"
         \/ \A x \in tasks' : x.path # f
  PROVE  TaskInv'
<1>0. \A t \in tasks : t.path \in Files
  BY DEF TypeOK, Tasks, Urls, MediaFiles, Files
<1>1. IdsUnique'
  BY DEF TaskInv, IdsUnique
<1>2. Alone'
  BY DEF TaskInv, Alone
<1>3. Sound'
  <2> SUFFICES ASSUME NEW x \in tasks', x.path \notin shared PROVE SoundTask(x, temp'[x.path])
    BY DEF Sound
  <2>1. PICK s \in tasks : x = g[s]
    OBVIOUS
  <2>2. CASE s.path = f
    BY <2>1, <2>2
  <2>3. CASE s.path # f
    BY <2>1, <2>3, <1>0 DEF TaskInv, Sound
  <2> QED BY <2>2, <2>3
<1>4. Whole'
  BY DEF TaskInv, Whole
<1>5. Left'
  <2> SUFFICES ASSUME NEW x \in tasks', x.at = "register", temp'[x.path] # NoFile
               PROVE  \E y \in tasks' : y.path = x.path /\ y.at # "register"
    BY DEF Left
  <2>1. PICK s \in tasks : x = g[s]
    OBVIOUS
  <2>2. CASE x.path = f
    BY <2>2
  <2>3. CASE x.path # f
    <3>1. x = s /\ temp[s.path] # NoFile
      BY <2>1, <2>3, <1>0
    <3>2. PICK y \in tasks : y.path = s.path /\ y.at # "register"
      BY <3>1 DEF TaskInv, Left
    <3> QED BY <3>1, <3>2, <2>3
  <2> QED BY <2>2, <2>3
<1> QED BY <1>1, <1>2, <1>3, <1>4, <1>5 DEF TaskInv

\* The steps of a download keep TaskInv.
LEMMA TaskStepInv ==
  ASSUME TypeOK, TaskInv, NEW t \in tasks, TaskStep(t)
  PROVE  TaskInv'
<1> USE DEF queue, disk, history
<1> DEFINE f == t.path
<1>1. t \in Tasks /\ f \in Files /\ tasks \subseteq Tasks
  BY DEF TypeOK, Tasks, Urls, MediaFiles, Files
<1>2. temp \in [Files -> Contents] /\ final \in [Files -> Contents]
  BY DEF TypeOK
<1>3. f \notin shared => /\ \A s \in tasks : s.path = f => s = t
                         /\ SoundTask(t, temp[f])
                         /\ final[f] \in {NoFile, "whole"} /\ temp[f] # "holed"
  BY <1>1 DEF TaskInv, Alone, Sound, Whole
<1>4. CASE Open(t)
  <2> DEFINE g == [s \in tasks |->
                     IF s = t THEN [s EXCEPT !.file = "temp"]
                     ELSE IF s.path = t.path /\ s.file = "temp" /\ s.at = "fetch"
                          THEN [s EXCEPT !.cut = TRUE] ELSE s]
  <2>1. /\ tasks' = {g[s] : s \in tasks} /\ shared' = shared
        /\ temp' = [temp EXCEPT ![f] = "part"] /\ final' = final
        /\ t.at = "fetch"
    BY <1>4 DEF Open
  <2>2. /\ \A s \in tasks : g[s].id = s.id /\ g[s].path = s.path
        /\ \A s \in tasks : s.path # f => g[s] = s
        /\ g[t].at = "fetch" /\ g[t].path = f /\ g[t].file = "temp" /\ g[t].cut = t.cut
    BY <1>1, <2>1 DEF Tasks
  <2> HIDE DEF g
  <2>3. f \notin shared => SoundTask(g[t], temp'[f])
    BY <1>3, <2>2 DEF SoundTask
  <2>4. temp'[f] = "part" /\ \A v \in Files : v # f => temp'[v] = temp[v]
    BY <2>1, <1>1, <1>2
  <2>5. \A s \in tasks : g[s] \in tasks'
    BY <2>1
  <2>6. f \notin shared => final'[f] \in {NoFile, "whole"} /\ temp'[f] # "holed"
    BY <2>1, <2>4, <1>3
  <2>7. \A s \in tasks : f \notin shared /\ s.path = f => SoundTask(g[s], temp'[f])
    BY <1>3, <2>3
  <2>8. \E x \in tasks' : x.path = f /\ x.at # "register"
    BY <2>2, <2>5
  <2> HIDE DEF f
  <2> QED BY <1>1, <2>1, <2>2, <2>4, <2>5, <2>6, <2>7, <2>8, LocalStep
<1>5. ASSUME NEW new, tasks' = (tasks \ {t}) \union {new}, shared' = shared,
             new.id = t.id, new.path = f,
             new.at # "register",
             \A v \in Files : v # f => temp'[v] = temp[v] /\ final'[v] = final[v],
             f \notin shared => /\ final'[f] \in {NoFile, "whole"} /\ temp'[f] # "holed"
                                /\ SoundTask(new, temp'[f])
      PROVE  TaskInv'
  <2> DEFINE g == [s \in tasks |-> IF s = t THEN new ELSE s]
  <2>1. /\ \A s \in tasks : g[s].id = s.id /\ g[s].path = s.path
        /\ \A s \in tasks : s.path # f => g[s] = s /\ s \in tasks'
        /\ \A x \in tasks' : \E s \in tasks : x = g[s]
        /\ g[t] = new
    BY <1>5
  <2> HIDE DEF g
  <2>2. \A s \in tasks : f \notin shared /\ s.path = f /\ g[s] \in tasks'
                           => SoundTask(g[s], temp'[f])
    BY <2>1, <1>3, <1>5
  <2>3. \E x \in tasks' : x.path = f /\ x.at # "register"
    BY <1>5
  <2> HIDE DEF f
  <2> QED BY <1>1, <1>5, <2>1, <2>2, <2>3, LocalStep
<1>6. CASE Fetch(t)
  <2>1. PICK next \in {"stat", "NO_CONTENT_LENGTH"} : Becomes(t, [t EXCEPT !.at = next])
    BY <1>6 DEF Fetch
  <2> DEFINE new == [t EXCEPT !.at = next]
  <2>2. /\ new.id = t.id /\ new.path = f /\ new.at = next /\ new.cut = t.cut
        /\ tasks' = (tasks \ {t}) \union {new} /\ shared' = shared
    BY <1>1, <1>6, <2>1 DEF Becomes, Tasks, Fetch
  <2> HIDE DEF new
  <2>3. \A v \in Files : v # f => temp'[v] = temp[v] /\ final'[v] = final[v]
    BY <1>2, <1>6 DEF Fetch
  <2>4. ASSUME f \notin shared
        PROVE  /\ final'[f] \in {NoFile, "whole"} /\ temp'[f] # "holed"
               /\ SoundTask(new, temp'[f])
    <3>1. t.file # "final" /\ ~t.cut
      BY <1>3, <1>6, <2>4 DEF SoundTask, Fetch
    <3>2. final' = final /\ temp'[f] \in {temp[f], "whole"}
      BY <1>1, <1>2, <1>6, <3>1 DEF Fetch, Filled
    <3> QED BY <3>1, <3>2, <2>2, <2>4, <1>3 DEF SoundTask
  <2> QED BY <2>2, <2>3, <2>4, <1>5
<1>7. CASE FetchFails(t)
  <2>1. PICK at \in {"stat", "DOWNLOAD_FAILED"} : Becomes(t, [t EXCEPT !.at = at])
    BY <1>7 DEF FetchFails
  <2> DEFINE new == [t EXCEPT !.at = at]
  <2>2. /\ new.id = t.id /\ new.path = f /\ new.at = at /\ new.cut = t.cut
        /\ tasks' = (tasks \ {t}) \union {new} /\ shared' = shared
    BY <1>1, <1>7, <2>1 DEF Becomes, Tasks, FetchFails
  <2> HIDE DEF new
  <2>3. temp' = temp /\ final' = final
    BY <1>7 DEF FetchFails
  <2>4. f \notin shared => SoundTask(new, temp'[f])
    BY <2>2, <1>3 DEF SoundTask
  <2> QED BY <2>2, <2>3, <2>4, <1>3, <1>5
<1>8. CASE Stat(t)
  <2> DEFINE new == [t EXCEPT !.at = Verdict(t)]
  <2>1. /\ new.id = t.id /\ new.path = f /\ new.at = Verdict(t) /\ new.cut = t.cut
        /\ tasks' = (tasks \ {t}) \union {new} /\ shared' = shared
    BY <1>1, <1>8 DEF Becomes, Tasks, Stat
  <2>2. Verdict(t) \notin {"register", "fetch", "rename"}
        /\ (Verdict(t) = "unlink" => temp[f] # "part")
    BY DEF Verdict
  <2> HIDE DEF new
  <2>3. temp' = temp /\ final' = final
    BY <1>8 DEF Stat
  <2>4. f \notin shared => SoundTask(new, temp'[f])
    BY <2>1, <2>2, <2>3, <1>3 DEF SoundTask
  <2> QED BY <2>1, <2>2, <2>3, <2>4, <1>3, <1>5
<1>9. CASE UnlinkFinal(t)
  <2> DEFINE new == [t EXCEPT !.at = "rename"]
             g == [s \in tasks |->
                     IF s = t THEN new
                     ELSE IF s.path = f /\ s.file = "final" THEN [s EXCEPT !.file = "gone"] ELSE s]
  <2>1. /\ tasks' = Follow(tasks \ {t}, f, "final", "gone") \union {new} /\ shared' = shared
        /\ temp' = temp /\ final' = [final EXCEPT ![f] = NoFile] /\ t.at = "unlink"
    BY <1>9 DEF UnlinkFinal
  <2>2. new.id = t.id /\ new.path = f /\ new.at = "rename" /\ new.cut = t.cut
    BY <1>1 DEF Tasks
  <2>3. /\ \A s \in tasks : g[s].id = s.id /\ g[s].path = s.path
        /\ \A s \in tasks : s.path # f => g[s] = s
        /\ g[t] = new
    BY <1>1, <2>2 DEF Tasks
  <2>4. tasks' = {g[s] : s \in tasks}
    BY <2>1 DEF Follow
  <2> HIDE DEF g, new
  <2>5. \A s \in tasks : g[s] \in tasks'
    BY <2>4
  <2>6. final'[f] = NoFile /\ \A v \in Files : v # f => final'[v] = final[v]
    BY <2>1, <1>1, <1>2
  <2>7. f \notin shared => SoundTask(new, temp'[f])
    BY <2>1, <2>2, <1>3 DEF SoundTask
  <2>8. \A s \in tasks : f \notin shared /\ s.path = f /\ g[s] \in tasks'
                           => SoundTask(g[s], temp'[f])
    BY <1>3, <2>3, <2>7
  <2>9. \E x \in tasks' : x.path = f /\ x.at # "register"
    BY <2>2, <2>3, <2>5
  <2>10. f \notin shared => final'[f] \in {NoFile, "whole"} /\ temp'[f] # "holed"
    BY <2>1, <2>6, <1>3
  <2>11. \A x \in tasks' : \E s \in tasks : x = g[s]
    BY <2>4
  <2>12. \A s \in tasks : s.path # f => g[s] = s /\ s \in tasks'
    BY <2>3, <2>5
  <2>13. \A v \in Files : v # f => temp'[v] = temp[v] /\ final'[v] = final[v]
    BY <2>1, <2>6
  <2> HIDE DEF f
  <2> QED BY <1>1, <2>1, <2>3, <2>8, <2>9, <2>10, <2>11, <2>12, <2>13, LocalStep
<1>10. CASE /\ Rename(t) /\ UNCHANGED disk
            /\ Becomes(t, [t EXCEPT !.at = "DOWNLOAD_FAILED"])
  <2> DEFINE new == [t EXCEPT !.at = "DOWNLOAD_FAILED"]
  <2>1. /\ new.id = t.id /\ new.path = f /\ new.at = "DOWNLOAD_FAILED" /\ new.cut = t.cut
        /\ tasks' = (tasks \ {t}) \union {new} /\ shared' = shared
        /\ temp' = temp /\ final' = final
    BY <1>1, <1>10 DEF Becomes, Tasks, Rename
  <2> HIDE DEF new
  <2>2. f \notin shared => SoundTask(new, temp'[f])
    BY <2>1, <1>3 DEF SoundTask
  <2> QED BY <2>1, <2>2, <1>3, <1>5
<1>11. CASE /\ Rename(t) /\ temp[f] # NoFile
            /\ final' = [final EXCEPT ![f] = temp[f]]
            /\ temp' = [temp EXCEPT ![f] = NoFile]
            /\ tasks' = Follow(Follow(tasks \ {t}, f, "final", "gone"), f, "temp", "final")
                          \union {[t EXCEPT !.at = "register", !.file = "final"]}
  <2> DEFINE new == [t EXCEPT !.at = "register", !.file = "final"]
             g == [s \in tasks |->
                     IF s = t THEN new
                     ELSE IF s.path = f /\ s.file = "final" THEN [s EXCEPT !.file = "gone"]
                     ELSE IF s.path = f /\ s.file = "temp" THEN [s EXCEPT !.file = "final"] ELSE s]
  <2>1. shared' = shared /\ t.at = "rename"
    BY <1>11 DEF Rename
  <2>2. new.id = t.id /\ new.path = f /\ new.at = "register" /\ new.cut = t.cut
    BY <1>1 DEF Tasks
  <2>3. /\ \A s \in tasks : g[s].id = s.id /\ g[s].path = s.path
        /\ \A s \in tasks : s.path # f => g[s] = s
        /\ g[t] = new
    BY <1>1, <2>2 DEF Tasks
  <2>4. \A x \in tasks' : \E s \in tasks : x = g[s]
    <3> SUFFICES ASSUME NEW x \in tasks', x # new PROVE \E s \in tasks : x = g[s]
      BY <2>3
    <3>1. PICK y \in Follow(tasks \ {t}, f, "final", "gone") :
              x = IF y.path = f /\ y.file = "temp" THEN [y EXCEPT !.file = "final"] ELSE y
      BY <1>11 DEF Follow
    <3>2. PICK s \in tasks \ {t} :
              y = IF s.path = f /\ s.file = "final" THEN [s EXCEPT !.file = "gone"] ELSE s
      BY DEF Follow
    <3>3. s \in Tasks
      BY <1>1
    <3>4. x = g[s]
      BY <3>1, <3>2, <3>3 DEF Tasks
    <3> QED BY <3>4
  <2>5. \A s \in tasks : s.path # f => s \in tasks'
    <3> SUFFICES ASSUME NEW s \in tasks, s.path # f PROVE s \in tasks'
      OBVIOUS
    <3>1. s \in Follow(tasks \ {t}, f, "final", "gone")
      BY DEF Follow
    <3>2. s \in Follow(Follow(tasks \ {t}, f, "final", "gone"), f, "temp", "final")
      BY <3>1 DEF Follow
    <3> QED BY <3>2, <1>11
  <2> HIDE DEF g, new
  <2>6. /\ temp'[f] = NoFile /\ final'[f] = temp[f]
        /\ \A v \in Files : v # f => temp'[v] = temp[v] /\ final'[v] = final[v]
    BY <1>1, <1>2, <1>11
  <2>7. f \notin shared => SoundTask(new, temp'[f])
    BY <2>2, <1>3 DEF SoundTask
  <2>8. \A s \in tasks : f \notin shared /\ s.path = f => SoundTask(g[s], temp'[f])
    BY <1>3, <2>3, <2>7
  <2>9. f \notin shared => final'[f] \in {NoFile, "whole"} /\ temp'[f] # "holed"
    <3>1. temp[f] \in Contents
      BY <1>1, <1>2
    <3>2. f \notin shared => temp[f] # "part" /\ temp[f] # "holed"
      BY <1>3, <2>1 DEF SoundTask
    <3> QED BY <3>1, <3>2, <2>6, NoFileAssumption DEF Contents
  <2>10. \A s \in tasks : s.path # f => g[s] = s /\ s \in tasks'
    BY <2>3, <2>5
  <2> HIDE DEF f
  <2> QED BY <1>1, <2>1, <2>3, <2>4, <2>6, <2>8, <2>9, <2>10, LocalStep
<1>12. CASE Register(t)
  <2> DEFINE g == [s \in tasks |-> s]
  <2>1. tasks' = tasks \ {t} /\ shared' = shared /\ temp' = temp /\ final' = final
        /\ t.at = "register"
    BY <1>12 DEF Register, Ends
  <2>2. \/ temp'[f] = NoFile
        \/ \E x \in tasks' : x.path = f /\ x.at # "register"
        \/ \A x \in tasks' : x.path # f
    BY <2>1 DEF TaskInv, Left
  <2>3. \A s \in tasks : g[s] = s
    OBVIOUS
  <2> HIDE DEF g
  <2>4. \A x \in tasks' : \E s \in tasks : x = g[s]
    BY <2>1, <2>3
  <2>5. \A s \in tasks : s.path # f => g[s] = s /\ s \in tasks'
    BY <2>1, <2>3
  <2>6. \A s \in tasks : f \notin shared /\ s.path = f /\ g[s] \in tasks'
                           => SoundTask(g[s], temp'[f])
    BY <2>1, <2>3, <1>3
  <2>7. f \notin shared => final'[f] \in {NoFile, "whole"} /\ temp'[f] # "holed"
    BY <2>1, <1>3
  <2> HIDE DEF f
  <2> QED BY <1>1, <2>1, <2>2, <2>3, <2>4, <2>5, <2>6, <2>7, LocalStep
<1>13. CASE Discard(t)
  <2> DEFINE g == [s \in tasks |->
                     IF s # t /\ s.path = f /\ s.file = "temp" THEN [s EXCEPT !.file = "gone"] ELSE s]
  <2>1. /\ tasks' = ({t} \union Follow(tasks \ {t}, f, "temp", "gone")) \ {t} /\ shared' = shared
        /\ temp' = [temp EXCEPT ![f] = NoFile] /\ final' = final
    BY <1>13 DEF Discard, Ends
  <2>2. /\ \A s \in tasks : g[s].id = s.id /\ g[s].path = s.path
        /\ \A s \in tasks : s.path # f => g[s] = s
        /\ g[t] = t
    BY <1>1 DEF Tasks
  <2>3. \A x \in tasks' : \E s \in tasks : x = g[s]
    BY <2>1 DEF Follow
  <2>4. \A s \in tasks : s.path # f => g[s] = s /\ s \in tasks'
    BY <2>1, <2>2 DEF Follow
  <2> HIDE DEF g
  <2>5. temp'[f] = NoFile /\ \A v \in Files : v # f => temp'[v] = temp[v]
    BY <2>1, <1>1, <1>2
  <2>6. t \notin tasks'
    BY <2>1
  <2>7. \A s \in tasks : f \notin shared /\ s.path = f /\ g[s] \in tasks'
                           => SoundTask(g[s], temp'[f])
    BY <1>3, <2>2, <2>6
  <2>8. f \notin shared => final'[f] \in {NoFile, "whole"} /\ temp'[f] # "holed"
    BY <2>1, <2>5, <1>3, NoFileAssumption
  <2> HIDE DEF f
  <2> QED BY <1>1, <2>1, <2>2, <2>3, <2>4, <2>5, <2>7, <2>8, LocalStep
<1>14. Rename(t) => \/ /\ Rename(t) /\ UNCHANGED disk
                       /\ Becomes(t, [t EXCEPT !.at = "DOWNLOAD_FAILED"])
                    \/ /\ Rename(t) /\ temp[f] # NoFile
                       /\ final' = [final EXCEPT ![f] = temp[f]]
                       /\ temp' = [temp EXCEPT ![f] = NoFile]
                       /\ tasks' = Follow(Follow(tasks \ {t}, f, "final", "gone"),
                                          f, "temp", "final")
                                     \union {[t EXCEPT !.at = "register", !.file = "final"]}
  BY DEF Rename
<1> QED
  BY <1>4, <1>6, <1>7, <1>8, <1>9, <1>10, <1>11, <1>12, <1>13, <1>14 DEF TaskStep

\* Lookups and removals only take files away, and keep TaskInv.
LEMMA AskStepInv ==
  ASSUME TypeOK, TaskInv, NEW a \in asks, AskStep(a)
  PROVE  TaskInv'
<1> USE DEF queue, disk, history
<1> DEFINE f == a.path
<1>1. f \in Files /\ tasks \subseteq Tasks
  BY DEF TypeOK, Asks, Urls, MediaFiles, Files
<1>2. temp \in [Files -> Contents] /\ final \in [Files -> Contents]
  BY DEF TypeOK
<1>3. ASSUME UNCHANGED <<tasks, temp, final, shared>> PROVE TaskInv'
  BY <1>3 DEF TaskInv, IdsUnique, Alone, Sound, Whole, Left
<1>4. ASSUME NEW from, from # "unopened",
             tasks' = Follow(tasks, f, from, "gone"), shared' = shared,
             \A v \in Files : v # f => temp'[v] = temp[v] /\ final'[v] = final[v],
             temp'[f] \in {temp[f], NoFile}, final'[f] \in {final[f], NoFile}
      PROVE  TaskInv'
  <2> DEFINE g == [s \in tasks |->
                     IF s.path = f /\ s.file = from THEN [s EXCEPT !.file = "gone"] ELSE s]
  <2>1. tasks' = {g[s] : s \in tasks}
    BY <1>4 DEF Follow
  <2>2. \A s \in tasks : /\ g[s].id = s.id /\ g[s].path = s.path
                         /\ g[s].at = s.at /\ g[s].cut = s.cut
                         /\ g[s].file \in {s.file, "gone"}
    BY <1>1 DEF Tasks
  <2>3. \A s \in tasks : s.path # f => g[s] = s
    OBVIOUS
  <2> HIDE DEF g
  <2>4. \A x \in tasks' : \E s \in tasks : x = g[s]
    BY <2>1
  <2>5. \A s \in tasks : g[s] \in tasks'
    BY <2>1
  <2>6. \A s \in tasks : s.path # f => g[s] = s /\ s \in tasks'
    BY <2>3, <2>5
  <2>7. \A s \in tasks : f \notin shared /\ s.path = f /\ g[s] \in tasks'
                           => SoundTask(g[s], temp'[f])
    BY <1>4, <2>2, NoFileAssumption DEF TaskInv, Sound, SoundTask
  <2>8. f \notin shared => final'[f] \in {NoFile, "whole"} /\ temp'[f] # "holed"
    BY <1>1, <1>4, NoFileAssumption DEF TaskInv, Whole
  <2>9. \A s \in tasks : g[s].id = s.id /\ g[s].path = s.path
    BY <2>2
  <2>10. \/ temp'[f] = NoFile
         \/ \E x \in tasks' : x.path = f /\ x.at # "register"
         \/ \A x \in tasks' : x.path # f
    <3> SUFFICES ASSUME temp'[f] # NoFile, NEW x \in tasks', x.path = f
                 PROVE  \E y \in tasks' : y.path = f /\ y.at # "register"
      OBVIOUS
    <3>1. temp[f] # NoFile
      BY <1>4
    <3>2. PICK s \in tasks : x = g[s]
      BY <2>4
    <3>3. \E r \in tasks : r.path = f /\ r.at # "register"
      BY <3>1, <3>2, <2>2 DEF TaskInv, Left
    <3> QED BY <3>3, <2>2, <2>5
  <2> HIDE DEF f
  <2> QED BY <1>1, <1>4, <2>4, <2>6, <2>7, <2>8, <2>9, <2>10, LocalStep
<1>5. CASE AskUnlinksTemp(a)
  <2>1. tasks' = Follow(tasks, f, "temp", "gone") /\ shared' = shared /\ final' = final
        /\ temp' = [temp EXCEPT ![f] = NoFile]
    BY <1>5 DEF AskUnlinksTemp
  <2>2. temp'[f] = NoFile /\ \A v \in Files : v # f => temp'[v] = temp[v]
    BY <2>1, <1>1, <1>2
  <2> QED BY <2>1, <2>2, <1>4
<1>6. CASE RemoveFile(a)
  <2>1. tasks' = Follow(tasks, f, "final", "gone") /\ shared' = shared /\ temp' = temp
        /\ final' = [final EXCEPT ![f] = NoFile]
    BY <1>6 DEF RemoveFile
  <2>2. final'[f] = NoFile /\ \A v \in Files : v # f => final'[v] = final[v]
    BY <2>1, <1>1, <1>2
  <2> QED BY <2>1, <2>2, <1>4
<1>7. CASE AskFinds(a) \/ AskMisses(a) \/ AskFindsTemp(a)
  BY <1>3, <1>7 DEF AskFinds, AskMisses, AskFindsTemp
<1> QED BY <1>5, <1>6, <1>7 DEF AskStep

\* A download that starts keeps TaskInv: if it is not the only one of its file, it is shared.
LEMMA StartTaskInv ==
  ASSUME TypeOK, TaskInv, NEW u \in Media, Room(tasks), StartTask(u), UNCHANGED disk
  PROVE  TaskInv'
<1> DEFINE new == [id |-> LeastFree(tasks), url |-> u, path |-> FileOf[u], at |-> "fetch",
                   file |-> "unopened", cut |-> FALSE]
<1>1. /\ tasks' = tasks \union {new}
      /\ shared' = IF \E t \in tasks : t.path = FileOf[u] THEN shared \union {FileOf[u]}
                   ELSE shared
      /\ temp' = temp /\ final' = final
  BY DEF StartTask, disk
<1>2. /\ new.path = FileOf[u] /\ new.at = "fetch" /\ new.file = "unopened" /\ ~new.cut
      /\ \A t \in tasks : t.id # new.id
  BY FreeId
<1> HIDE DEF new
<1>3. IdsUnique'
  BY <1>1, <1>2 DEF TaskInv, IdsUnique
<1>4. Alone'
  BY <1>1, <1>2 DEF TaskInv, Alone
<1>5. Sound'
  BY <1>1, <1>2 DEF TaskInv, Sound, SoundTask
<1>6. Whole'
  BY <1>1 DEF TaskInv, Whole
<1>7. Left'
  BY <1>1, <1>2 DEF TaskInv, Left
<1> QED BY <1>3, <1>4, <1>5, <1>6, <1>7 DEF TaskInv

\* TaskInv is inductive.
LEMMA TaskInvStep == TypeOK /\ TaskInv /\ [Next]_vars => TaskInv'
<1> SUFFICES ASSUME TypeOK, TaskInv, [Next]_vars PROVE TaskInv'
  OBVIOUS
<1> USE DEF queue, disk, history
<1>1. ASSUME UNCHANGED <<tasks, temp, final, shared>> PROVE TaskInv'
  BY <1>1 DEF TaskInv, IdsUnique, Alone, Sound, Whole, Left
<1>2. ASSUME NEW L \in Seq(Urls), NEW others, NEW hold, RunList(L, others, hold), UNCHANGED disk
      PROVE  TaskInv'
  <2>1. CASE UNCHANGED <<tasks, cachingUrl, shared, loosened>>
    BY <1>1, <1>2, <2>1
  <2>2. ASSUME NEW u \in Media, StartTask(u), Room(tasks) PROVE TaskInv'
    BY <1>2, <2>2, StartTaskInv
  <2> QED BY <1>2, <2>1, <2>2, RunListTasks
<1>3. ASSUME NEW urls, PreCacheForList(urls) PROVE TaskInv'
  BY <1>1, <1>3 DEF PreCacheForList
<1>4. ASSUME NEW u \in Media, PreCacheFor(u) PROVE TaskInv'
  BY <1>4, StartTaskInv DEF PreCacheFor
<1>5. ASSUME NEW f, NEW removal, Ask(f, removal) PROVE TaskInv'
  BY <1>1, <1>5 DEF Ask
<1>6. CASE CancelCachingList
  BY <1>1, <1>6 DEF CancelCachingList
<1>7. ASSUME NEW p \in pages, PageStep(p) PROVE TaskInv'
  <2>1. CASE FilesExist(p)
    BY <1>1, <2>1 DEF FilesExist
  <2>2. CASE ListPage(p)
    <3>1. p.urls \in Seq(Urls) /\ preCachingList \in Seq(Urls)
      BY DEF TypeOK, Pages
    <3>2. NewUrls(p) \o preCachingList \in Seq(Urls)
      BY <3>1, KeptIsList DEF NewUrls
    <3>3. UNCHANGED disk
      BY <2>2 DEF ListPage
    <3>4. CASE UNCHANGED <<isRunningThread, runners, tasks, cachingUrl, history>>
      BY <1>1, <3>3, <3>4
    <3>5. CASE RunList(NewUrls(p) \o preCachingList, runners, TRUE)
      BY <1>2, <3>2, <3>3, <3>5
    <3> QED BY <2>2, <3>4, <3>5 DEF ListPage
  <2> QED BY <1>7, <2>1, <2>2 DEF PageStep
<1>8. ASSUME NEW r \in runners, RunnerStep(r) PROVE TaskInv'
  <2>1. CASE RunOn(r)
    BY <1>2, <2>1 DEF RunOn, TypeOK
  <2>2. CASE Prefetched(r)
    BY <1>1, <2>2 DEF Prefetched
  <2> QED BY <1>8, <2>1, <2>2 DEF RunnerStep
<1>9. CASE UNCHANGED vars
  BY <1>1, <1>9 DEF vars
<1> QED BY <1>3, <1>4, <1>5, <1>6, <1>7, <1>8, <1>9, TaskStepInv, AskStepInv DEF Next

\* TaskInv holds initially: a killed session leaves temp files, and no download.
LEMMA TaskInvInit == Init => TaskInv
BY NoFileAssumption DEF Init, TaskInv, IdsUnique, Alone, Sound, Whole, Left

\* What lies at a final path is complete, unless two downloads of that file, by one URL or by
\* two, were under way at once: no failure, short answer, lookup or removal puts a partial file
\* there.
THEOREM WholeTheorem == Spec => []FinalIsWhole
<1>1. TaskInv => FinalIsWhole
  BY DEF TaskInv, Whole, FinalIsWhole
<1> QED BY <1>1, TaskInvInit, TaskInvStep, TypeTheorem, PTL DEF Spec

\* The last download of a file leaves no temp file, whatever has happened to it.
THEOREM ClearedTheorem == Spec => TempsAreCleared
<1>1. TypeOK /\ TaskInv /\ [Next]_vars =>
        [\A f \in MediaFiles : (\E t \in tasks : t.path = f) /\ (\A t \in tasks' : t.path # f)
            => temp'[f] = NoFile]_vars
  <2> SUFFICES ASSUME TypeOK, TaskInv, Next, NEW f \in MediaFiles, NEW t \in tasks, t.path = f,
                      \A x \in tasks' : x.path # f
               PROVE  temp'[f] = NoFile
    OBVIOUS
  <2> USE DEF queue, disk, history
  <2>1. temp \in [Files -> Contents] /\ f \in Files /\ tasks \subseteq Tasks
    BY DEF TypeOK, Urls, MediaFiles, Files
  <2>2. t \notin tasks'
    OBVIOUS
  <2>3. ASSUME NEW L \in Seq(Urls), NEW others, NEW hold, RunList(L, others, hold) PROVE FALSE
    BY <2>2, <2>3, RunListTasks DEF StartTask
  <2>4. ASSUME NEW p \in pages, PageStep(p) PROVE FALSE
    <3>1. p.urls \in Seq(Urls) /\ preCachingList \in Seq(Urls)
      BY DEF TypeOK, Pages
    <3>2. NewUrls(p) \o preCachingList \in Seq(Urls)
      BY <3>1, KeptIsList DEF NewUrls
    <3> QED BY <2>2, <2>3, <2>4, <3>2 DEF PageStep, FilesExist, ListPage
  <2>5. ASSUME NEW r \in runners, RunnerStep(r) PROVE FALSE
    BY <2>2, <2>3, <2>5 DEF RunnerStep, RunOn, Prefetched, TypeOK
  <2>6. ASSUME NEW a \in asks, AskStep(a) PROVE FALSE
    <3>1. ASSUME NEW from, tasks' = Follow(tasks, a.path, from, "gone") PROVE FALSE
      <4>1. PICK x \in tasks' :
                x = IF t.path = a.path /\ t.file = from THEN [t EXCEPT !.file = "gone"] ELSE t
        BY <3>1 DEF Follow
      <4>2. x.path = t.path
        BY <4>1, <2>1 DEF Tasks
      <4> QED BY <4>2
    <3> QED BY <2>2, <2>6, <3>1
            DEF AskStep, AskFinds, AskMisses, AskFindsTemp, AskUnlinksTemp, RemoveFile
  <2>7. ASSUME NEW s \in tasks, TaskStep(s) PROVE temp'[f] = NoFile
    <3>1. s \in Tasks /\ t \in Tasks
      BY <2>1
    <3>2. ~Open(s)
      <4> SUFFICES ASSUME Open(s) PROVE FALSE
        OBVIOUS
      <4>1. \E x \in tasks' : x = [t EXCEPT !.file = "temp"] \/ x = [t EXCEPT !.cut = TRUE] \/ x = t
        BY DEF Open
      <4> QED BY <4>1, <3>1 DEF Tasks
    <3>3. ASSUME NEW new, new.path = s.path, tasks' = (tasks \ {s}) \union {new} PROVE FALSE
      BY <3>3
    <3>4. \A at \in Stages : [s EXCEPT !.at = at].path = s.path
      BY <3>1 DEF Tasks
    <3>5. ~Fetch(s) /\ ~FetchFails(s) /\ ~Stat(s)
      BY <3>3, <3>4 DEF Fetch, FetchFails, Stat, Becomes, Verdict, Stages, Reasons
    <3>6. ASSUME NEW S, NEW from, NEW to, t \in S
          PROVE  \E x \in Follow(S, s.path, from, to) : x = t \/ x = [t EXCEPT !.file = to]
      BY <3>6 DEF Follow
    <3>7. ~UnlinkFinal(s)
      <4> SUFFICES ASSUME UnlinkFinal(s) PROVE FALSE
        OBVIOUS
      <4>1. CASE t = s
        BY <4>1, <3>4 DEF UnlinkFinal, Stages
      <4>2. CASE t # s
        <5>1. \E x \in tasks' : x = t \/ x = [t EXCEPT !.file = "gone"]
          BY <4>2, <3>6 DEF UnlinkFinal
        <5> QED BY <5>1, <3>1 DEF Tasks
      <4> QED BY <4>1, <4>2
    <3>8. ASSUME Rename(s) PROVE temp'[f] = NoFile
      <4>1. CASE Becomes(s, [s EXCEPT !.at = "DOWNLOAD_FAILED"])
        BY <4>1, <3>3, <3>4 DEF Becomes, Stages, Reasons
      <4>2. CASE temp' = [temp EXCEPT ![s.path] = NoFile]
                 /\ [s EXCEPT !.at = "register", !.file = "final"] \in tasks'
                 /\ Follow(Follow(tasks \ {s}, s.path, "final", "gone"), s.path, "temp", "final")
                      \subseteq tasks'
        <5>1. CASE t = s
          BY <5>1, <4>2, <3>1 DEF Tasks
        <5>2. CASE t # s
          <6>1. PICK x \in Follow(tasks \ {s}, s.path, "final", "gone") :
                    x = t \/ x = [t EXCEPT !.file = "gone"]
            BY <5>2, <3>6
          <6>2. PICK y \in tasks' : y = x \/ y = [x EXCEPT !.file = "final"]
            BY <4>2 DEF Follow
          <6>3. y.path = t.path
            BY <6>1, <6>2, <3>1 DEF Tasks
          <6> QED BY <6>3
        <5> QED BY <5>1, <5>2
      <4> QED BY <3>8, <4>1, <4>2 DEF Rename
    <3>9. ASSUME Register(s) PROVE temp'[f] = NoFile
      <4>1. tasks' = tasks \ {s} /\ temp' = temp /\ s.at = "register"
        BY <3>9 DEF Register, Ends
      <4>2. t = s
        BY <4>1
      <4> QED BY <4>1, <4>2 DEF TaskInv, Left
    <3>10. ASSUME Discard(s) PROVE temp'[f] = NoFile
      <4>1. temp' = [temp EXCEPT ![s.path] = NoFile]
            /\ tasks' = ({s} \union Follow(tasks \ {s}, s.path, "temp", "gone")) \ {s}
        BY <3>10 DEF Discard, Ends
      <4>2. CASE s.path = f
        BY <4>1, <4>2, <2>1
      <4>3. CASE s.path # f
        <5>1. t \in Follow(tasks \ {s}, s.path, "temp", "gone")
          BY <4>3 DEF Follow
        <5> QED BY <5>1, <4>1, <4>3
      <4> QED BY <4>2, <4>3
    <3> QED BY <2>7, <3>2, <3>5, <3>7, <3>8, <3>9, <3>10 DEF TaskStep
  <2>8. CASE \/ \E urls \in Lists : PreCacheForList(urls)
             \/ \E v \in Media : PreCacheFor(v)
             \/ \E v \in MediaFiles, removal \in BOOLEAN : Ask(v, removal)
             \/ CancelCachingList
    <3>1. t \in tasks'
      BY <2>8 DEF PreCacheForList, PreCacheFor, Ask, CancelCachingList, StartTask
    <3> QED BY <3>1, <2>2
  <2> QED BY <2>4, <2>5, <2>6, <2>7, <2>8 DEF Next
<1> QED BY <1>1, TaskInvInit, TaskInvStep, TypeTheorem, PTL DEF Spec, TempsAreCleared

-----------------------------------------------------------------------------
\* Until a direct call, a cancel or an encoded URL comes in, every download is entered in
\* cachingUrl under its own id.
GuardInv ==
    ~loosened => \A t \in tasks : cachingUrl[t.url] = t.id

\* Following a file changes neither ids nor URLs.
LEMMA FollowSame ==
  ASSUME NEW S \in SUBSET Tasks, NEW f, NEW from, NEW to, NEW x \in Follow(S, f, from, to)
  PROVE  \E s \in S : x.id = s.id /\ x.url = s.url
<1>1. PICK s \in S : x = IF s.path = f /\ s.file = from THEN [s EXCEPT !.file = to] ELSE s
  BY DEF Follow
<1>2. s \in Tasks
  OBVIOUS
<1> QED BY <1>1, <1>2 DEF Tasks

\* The steps of a download keep GuardInv: the entry that one's end forgets is its own.
LEMMA GuardTaskStep ==
  ASSUME TypeOK, TaskInv, GuardInv, NEW t \in tasks, TaskStep(t)
  PROVE  GuardInv'
<1> USE DEF queue, disk, history
<1> SUFFICES ASSUME ~loosened'
             PROVE  \A x \in tasks' : cachingUrl'[x.url] = x.id
  BY DEF GuardInv
<1>1. tasks \subseteq Tasks /\ cachingUrl \in [Urls -> {0} \union Ids] /\ t \in Tasks
  BY DEF TypeOK
<1>2. UNCHANGED loosened
  BY DEF TaskStep, Open, Fetch, FetchFails, Stat, UnlinkFinal, Rename, Register, Discard
<1>3. \A s \in tasks : cachingUrl[s.url] = s.id
  BY <1>2 DEF GuardInv
<1>4. \A s \in tasks : s.url = t.url => s = t
  BY <1>3 DEF TaskInv, IdsUnique
<1>5. ASSUME cachingUrl' = cachingUrl,
             \A x \in tasks' : \E s \in tasks : x.id = s.id /\ x.url = s.url
      PROVE  \A x \in tasks' : cachingUrl'[x.url] = x.id
  BY <1>3, <1>5
<1>6. \A at \in Stages : [t EXCEPT !.at = at].id = t.id /\ [t EXCEPT !.at = at].url = t.url
  BY <1>1 DEF Tasks
<1>8. CASE Open(t)
  <2>1. \A x \in tasks' : \E s \in tasks : x.id = s.id /\ x.url = s.url
    <3> SUFFICES ASSUME NEW x \in tasks' PROVE \E s \in tasks : x.id = s.id /\ x.url = s.url
      OBVIOUS
    <3>1. PICK s \in tasks : x = [s EXCEPT !.file = "temp"] \/ x = [s EXCEPT !.cut = TRUE] \/ x = s
      BY <1>8 DEF Open
    <3> QED BY <3>1, <1>1 DEF Tasks
  <2> QED BY <2>1, <1>2, <1>3, <1>5, <1>8 DEF Open
<1>9. ASSUME NEW at \in Stages, Becomes(t, [t EXCEPT !.at = at])
      PROVE  \A x \in tasks' : \E s \in tasks : x.id = s.id /\ x.url = s.url
  BY <1>6, <1>9 DEF Becomes
<1>10. CASE Fetch(t) \/ FetchFails(t) \/ Stat(t)
  <2>1. \E at \in Stages : Becomes(t, [t EXCEPT !.at = at])
    BY <1>10 DEF Fetch, FetchFails, Stat, Verdict, Stages, Reasons
  <2>2. cachingUrl' = cachingUrl
    BY <1>10 DEF Fetch, FetchFails, Stat
  <2> QED BY <2>1, <2>2, <1>2, <1>3, <1>5, <1>9
<1>11. tasks \ {t} \in SUBSET Tasks
  BY <1>1
<1>12. CASE UnlinkFinal(t)
  <2>1. /\ tasks' = Follow(tasks \ {t}, t.path, "final", "gone") \union {[t EXCEPT !.at = "rename"]}
        /\ cachingUrl' = cachingUrl
    BY <1>12 DEF UnlinkFinal
  <2>2. \A x \in tasks' : \E s \in tasks : x.id = s.id /\ x.url = s.url
    <3>1. \A x \in Follow(tasks \ {t}, t.path, "final", "gone") :
              \E s \in tasks \ {t} : x.id = s.id /\ x.url = s.url
      BY <1>11, FollowSame
    <3> QED BY <2>1, <3>1, <1>6 DEF Stages
  <2> QED BY <2>1, <2>2, <1>2, <1>3, <1>5
<1>13. CASE Rename(t)
  <2> DEFINE F == Follow(tasks \ {t}, t.path, "final", "gone")
             new == [t EXCEPT !.at = "register", !.file = "final"]
  <2>1. cachingUrl' = cachingUrl
    BY <1>13 DEF Rename
  <2>2. F \in SUBSET Tasks /\ \A x \in F : \E s \in tasks : x.id = s.id /\ x.url = s.url
    <3>1. F \in SUBSET Tasks
      BY <1>11, FollowType
    <3>2. \A x \in F : \E s \in tasks \ {t} : x.id = s.id /\ x.url = s.url
      BY <1>11, FollowSame
    <3> QED BY <3>1, <3>2
  <2>3. new.id = t.id /\ new.url = t.url
    BY <1>1 DEF Tasks
  <2>4. \/ tasks' = Follow(F, t.path, "temp", "final") \union {new}
        \/ Becomes(t, [t EXCEPT !.at = "DOWNLOAD_FAILED"])
    BY <1>13 DEF Rename
  <2> HIDE DEF F, new
  <2>5. CASE tasks' = Follow(F, t.path, "temp", "final") \union {new}
    <3>1. \A x \in tasks' : \E s \in tasks : x.id = s.id /\ x.url = s.url
      <4>1. \A x \in Follow(F, t.path, "temp", "final") :
                \E s \in F : x.id = s.id /\ x.url = s.url
        BY <2>2, FollowSame
      <4> QED BY <4>1, <2>2, <2>3, <2>5
    <3> QED BY <3>1, <2>1, <1>2, <1>3, <1>5
  <2>6. CASE Becomes(t, [t EXCEPT !.at = "DOWNLOAD_FAILED"])
    BY <2>1, <2>6, <1>2, <1>3, <1>5, <1>9 DEF Stages, Reasons
  <2> QED BY <2>4, <2>5, <2>6
<1>14. ASSUME cachingUrl' = [cachingUrl EXCEPT ![t.url] = 0],
              \A x \in tasks' : \E s \in tasks \ {t} : x.id = s.id /\ x.url = s.url
       PROVE  \A x \in tasks' : cachingUrl'[x.url] = x.id
  <2> SUFFICES ASSUME NEW x \in tasks' PROVE cachingUrl'[x.url] = x.id
    OBVIOUS
  <2>1. PICK s \in tasks \ {t} : x.id = s.id /\ x.url = s.url
    BY <1>14
  <2>2. s.url # t.url /\ s.url \in Urls
    BY <1>1, <1>4 DEF Tasks, Urls
  <2> QED BY <2>1, <2>2, <1>1, <1>3, <1>14
<1>15. CASE Register(t)
  <2>1. tasks' = tasks \ {t} /\ cachingUrl' = [cachingUrl EXCEPT ![t.url] = 0]
    BY <1>15 DEF Register, Ends
  <2> QED BY <2>1, <1>2, <1>3, <1>14
<1>16. CASE Discard(t)
  <2>1. /\ tasks' = ({t} \union Follow(tasks \ {t}, t.path, "temp", "gone")) \ {t}
        /\ cachingUrl' = [cachingUrl EXCEPT ![t.url] = 0]
    BY <1>16 DEF Discard, Ends
  <2>2. \A x \in tasks' : \E s \in tasks \ {t} : x.id = s.id /\ x.url = s.url
    <3>1. \A x \in Follow(tasks \ {t}, t.path, "temp", "gone") :
              \E s \in tasks \ {t} : x.id = s.id /\ x.url = s.url
      BY <1>11, FollowSame
    <3> QED BY <2>1, <3>1
  <2> QED BY <2>1, <2>2, <1>2, <1>3, <1>14
<1> QED BY <1>8, <1>10, <1>12, <1>13, <1>15, <1>16 DEF TaskStep

\* GuardInv is inductive beside TypeOK and TaskInv.
LEMMA GuardStep == TypeOK /\ TaskInv /\ GuardInv /\ [Next]_vars => GuardInv'
<1> SUFFICES ASSUME TypeOK, TaskInv, GuardInv, [Next]_vars PROVE GuardInv'
  OBVIOUS
<1> USE DEF queue, disk, history
<1>1. ASSUME UNCHANGED <<tasks, cachingUrl, loosened>> PROVE GuardInv'
  BY <1>1 DEF GuardInv
<1>2. ASSUME NEW L \in Seq(Urls), NEW others, NEW hold, RunList(L, others, hold)
      PROVE  GuardInv'
  <2>1. ASSUME NEW u \in Media, StartTask(u), Room(tasks),
               loosened' = (loosened \/ u \in Encoded), u \in Encoded \/ cachingUrl[u] = 0
        PROVE  GuardInv'
    <3> SUFFICES ASSUME ~loosened'
                 PROVE  \A x \in tasks' : cachingUrl'[x.url] = x.id
      BY DEF GuardInv
    <3>1. cachingUrl[u] = 0 /\ \A t \in tasks : cachingUrl[t.url] = t.id
      BY <2>1 DEF GuardInv
    <3>2. /\ tasks \subseteq Tasks /\ cachingUrl \in [Urls -> {0} \union Ids] /\ u \in Urls
          /\ \A t \in tasks : t.id # 0 /\ t.url \in Urls
      BY DEF TypeOK, Tasks, Ids, Urls
    <3>3. \A t \in tasks : t.url # u
      BY <3>1, <3>2
    <3>4. /\ cachingUrl' = [cachingUrl EXCEPT ![u] = LeastFree(tasks)]
          /\ \A x \in tasks' : x \in tasks \/ (x.url = u /\ x.id = LeastFree(tasks))
      BY <2>1, <3>3 DEF StartTask
    <3> QED BY <3>1, <3>2, <3>3, <3>4
  <2> QED BY <1>1, <1>2, <2>1, RunListTasks
<1>3. ASSUME NEW urls, PreCacheForList(urls) PROVE GuardInv'
  BY <1>1, <1>3 DEF PreCacheForList
<1>4. ASSUME NEW u, PreCacheFor(u) PROVE GuardInv'
  BY <1>4 DEF PreCacheFor, GuardInv
<1>5. ASSUME NEW f, NEW removal, Ask(f, removal) PROVE GuardInv'
  BY <1>1, <1>5 DEF Ask
<1>6. CASE CancelCachingList
  BY <1>6 DEF CancelCachingList, GuardInv
<1>7. ASSUME NEW p \in pages, PageStep(p) PROVE GuardInv'
  <2>1. CASE FilesExist(p)
    BY <1>1, <2>1 DEF FilesExist
  <2>2. CASE ListPage(p)
    <3>1. p.urls \in Seq(Urls) /\ preCachingList \in Seq(Urls)
      BY DEF TypeOK, Pages
    <3>2. NewUrls(p) \o preCachingList \in Seq(Urls)
      BY <3>1, KeptIsList DEF NewUrls
    <3>3. CASE UNCHANGED <<isRunningThread, runners, tasks, cachingUrl, history>>
      BY <1>1, <3>3
    <3>4. CASE RunList(NewUrls(p) \o preCachingList, runners, TRUE)
      BY <1>2, <3>2, <3>4
    <3> QED BY <2>2, <3>3, <3>4 DEF ListPage
  <2> QED BY <1>7, <2>1, <2>2 DEF PageStep
<1>8. ASSUME NEW r \in runners, RunnerStep(r) PROVE GuardInv'
  <2>1. CASE RunOn(r)
    BY <1>2, <2>1 DEF RunOn, TypeOK
  <2>2. CASE Prefetched(r)
    BY <1>1, <2>2 DEF Prefetched
  <2> QED BY <1>8, <2>1, <2>2 DEF RunnerStep
<1>9. ASSUME NEW a \in asks, AskStep(a) PROVE GuardInv'
  <2>1. ASSUME NEW from, tasks' = Follow(tasks, a.path, from, "gone"),
               UNCHANGED <<cachingUrl, loosened>>
        PROVE  GuardInv'
    <3>1. \A x \in tasks' : \E t \in tasks : x.id = t.id /\ x.url = t.url
      BY <2>1 DEF Follow, TypeOK, Tasks
    <3> QED BY <2>1, <3>1 DEF GuardInv
  <2> QED BY <1>1, <1>9, <2>1
          DEF AskStep, AskFinds, AskMisses, AskFindsTemp, AskUnlinksTemp, RemoveFile
<1>10. CASE UNCHANGED vars
  BY <1>1, <1>10 DEF vars
<1> QED BY <1>3, <1>4, <1>5, <1>6, <1>7, <1>8, <1>9, <1>10, GuardTaskStep DEF Next

\* However many runners there are, by themselves they never download one href twice at once.
THEOREM SerialTheorem == Spec => []GuardKeepsSerial
<1>1. Init => GuardInv
  BY DEF Init, GuardInv
<1>2. GuardInv /\ TaskInv => GuardKeepsSerial
  BY DEF GuardInv, TaskInv, IdsUnique, GuardKeepsSerial
<1> QED BY <1>1, <1>2, GuardStep, TaskInvInit, TaskInvStep, TypeTheorem, PTL DEF Spec
=============================================================================
