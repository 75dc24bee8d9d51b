------------------------ MODULE PrefetchWindowProofs ------------------------
(***************************************************************************)
(* Theorems about PrefetchWindow, for any items, any lists and options and *)
(* any number of calls.                                                    *)
(*                                                                         *)
(* The argument for YieldsWhenAsked: what isBusy() answered may be used    *)
(* only after a microtask, so the invariant says that a continuation that  *)
(* is due was given the truth and that nothing has made it stale since     *)
(* (ClearIsTrue): the player cannot start in between, and a window edit    *)
(* only removes entries, each with its tag (CancelLowers).                 *)
(*                                                                         *)
(* The argument for QueueSorted and MarkedIsWorkedOn is further down,      *)
(* after the lemmas about what Arranged makes of a queue.                  *)
(***************************************************************************)
EXTENDS PrefetchWindow, FiniteSetTheorems, SequenceTheorems, TLAPS

\* The runner is a record of drain()'s locals: its fields can be updated one by one.
Shape == DOMAIN runner = {"pc", "url", "member", "wait", "ticks", "left"}

\* drain() waits exactly while it is before an item or a segment.
WaitsThere == runner.wait # "none" <=> runner.pc \in {"waiting", "pausing"}

ClearIsTrue == runner.wait = "clear" => ~Busy(downloadingList, prefetchUrls)

IInv == Shape /\ WaitsThere /\ ClearIsTrue

-----------------------------------------------------------------------------
(* What the helpers do *)

\* The next turn of the loop either ends it or waits, with an answer true to the
\* bookkeeping it was given.
LEMMA NextTurnWaits ==
    ASSUME NEW q, NEW list, NEW tagged
    PROVE  LET r == NextTurn(q, list, tagged)
           IN  /\ DOMAIN r = {"pc", "url", "member", "wait", "ticks", "left"}
               /\ r.pc \in {"off", "waiting"}
               /\ r.wait # "none" <=> r.pc \in {"waiting", "pausing"}
               /\ r.wait = "clear" => ~Busy(list, tagged)
<1> DEFINE queued == {i \in DOMAIN q : q[i].status = "queued"}
<1> HIDE DEF queued
<1>1. CASE queued = {}
  BY <1>1 DEF NextTurn, queued, Off
<1>2. CASE queued # {}
  BY <1>2 DEF NextTurn, queued, Off
<1> QED BY <1>1, <1>2

\* cancelTask takes an entry and its tag together: it never makes the session busy.
LEMMA CancelLowers ==
    ASSUME NEW gone, CancelTasks(gone), ~Busy(downloadingList, prefetchUrls)
    PROVE  ~Busy(downloadingList', prefetchUrls')
BY DEF CancelTasks, Busy

\* An item that ends hands the runner to the next turn.
LEMMA EndItemKeeps ==
    ASSUME NEW list, NEW tagged, EndItem(list, tagged)
    PROVE  IInv' /\ runner'.pc \in {"off", "waiting"}
BY NextTurnWaits DEF EndItem, IInv, Shape, WaitsThere, ClearIsTrue

\* So does a wait that is given up, or it ends drain().
LEMMA GiveUpKeeps ==
    ASSUME GiveUp
    PROVE  IInv' /\ runner'.pc \in {"off", "waiting"}
<1>1. CASE Stop
  BY <1>1 DEF Stop, Off, IInv, Shape, WaitsThere, ClearIsTrue
<1>2. CASE EndItem(downloadingList, prefetchUrls)
  BY <1>2, EndItemKeeps
<1> QED BY <1>1, <1>2 DEF GiveUp

\* A fetch that begins waits for nothing.
LEMMA BeginKeeps ==
    ASSUME IInv, Begin
    PROVE  IInv'
BY DEF Begin, IInv, Shape, WaitsThere, ClearIsTrue

\* The next segment asks the session anew, or the item ends.
LEMMA NextSegmentKeeps ==
    ASSUME IInv, NEW left, NEW list, NEW tagged, NextSegment(left, list, tagged)
    PROVE  IInv'
<1>1. CASE EndItem(list, tagged)
  BY <1>1, EndItemKeeps
<1>2. CASE ~(left = 0 \/ ~runner.member)
  BY <1>2 DEF NextSegment, IInv, Shape, WaitsThere, ClearIsTrue
<1> QED BY <1>1, <1>2 DEF NextSegment

\* A step that leaves the runner alone while no answer is due.
LEMMA RunnerAlone ==
    ASSUME IInv, Turn, runner' = runner
    PROVE  IInv'
BY DEF IInv, Shape, WaitsThere, ClearIsTrue, Turn

\* An edit of the window leaves the runner where it was, or gives it its first turn.
LEMMA EditKeeps ==
    ASSUME IInv, NEW gone, CancelTasks(gone), NEW b,
           runner' = [runner EXCEPT !.member = b]
    PROVE  IInv' /\ runner'.pc = runner.pc
BY CancelLowers DEF IInv, Shape, WaitsThere, ClearIsTrue

-----------------------------------------------------------------------------
(* IInv is an inductive invariant *)

\* No drain() runs at first.
LEMMA InitIInv == Init => IInv
BY DEF Init, Off, IInv, Shape, WaitsThere, ClearIsTrue

\* IInv is inductive.
LEMMA NextIInv == IInv /\ [Next]_vars => IInv'
<1> SUFFICES ASSUME IInv, [Next]_vars PROVE IInv'
  OBVIOUS
<1>1. ASSUME NEW list \in Lists, NEW index \in Indices, NEW opts \in Options,
             SetActiveWindow(list, index, opts)
      PROVE  IInv'
  <2>1. CASE runner.pc = "off"
    BY <1>1, <2>1, NextTurnWaits DEF SetActiveWindow, IInv, Shape, WaitsThere, ClearIsTrue
  <2>2. CASE runner.pc # "off"
    BY <1>1, <2>2, EditKeeps DEF SetActiveWindow
  <2> QED BY <2>1, <2>2
<1>2. CASE EmptyWindow
  BY <1>2, EditKeeps DEF EmptyWindow
<1>3. ASSUME NEW ok, Answered(ok) PROVE IInv'
  BY <1>3, BeginKeeps, GiveUpKeeps DEF Answered
<1>4. CASE PollAgain
  BY <1>4 DEF PollAgain, IInv, Shape, WaitsThere, ClearIsTrue, session
<1>5. CASE FetchFails
  BY <1>5, EndItemKeeps DEF FetchFails
<1>6. CASE PlaylistFetched
  BY <1>6 DEF PlaylistFetched, Settling, Turn, IInv, Shape, WaitsThere, ClearIsTrue
<1>7. CASE Registered
  BY <1>7, NextSegmentKeeps DEF Registered
<1>8. CASE SegmentFetched
  BY <1>8, NextSegmentKeeps DEF SegmentFetched
<1>9. CASE MediaFetched
  BY <1>9, EndItemKeeps DEF MediaFetched
<1>10. CASE CancelAllTask
  BY <1>10, RunnerAlone DEF CancelAllTask
<1>11. CASE PlayerDone
  BY <1>11, RunnerAlone DEF PlayerDone
<1>12. ASSUME NEW f \in Fetches, PlayerFetches(f) PROVE IInv'
  BY <1>12, RunnerAlone DEF PlayerFetches
<1>13. CASE UNCHANGED vars
  BY <1>13 DEF vars, session, IInv, Shape, WaitsThere, ClearIsTrue
<1>14. CASE Resume
  BY <1>14, <1>3 DEF Resume
<1>15. CASE PollEnds
  BY <1>15, <1>3 DEF PollEnds
<1> QED
  BY <1>1, <1>2, <1>4, <1>5, <1>6, <1>7, <1>8, <1>9, <1>10, <1>11, <1>12, <1>13,
     <1>14, <1>15 DEF Next, RunnerStep

-----------------------------------------------------------------------------
(* No step begins a fetch against the answer *)

YieldStep == Begins => runner.member /\ ~Busy(downloadingList, prefetchUrls)

\* Only a wait that has its answer begins a fetch.
LEMMA NextYields == IInv /\ [Next]_vars => [YieldStep]_vars
<1> SUFFICES ASSUME IInv, Next PROVE YieldStep
  BY DEF YieldStep, Begins, vars
<1>1. ASSUME NEW list \in Lists, NEW index \in Indices, NEW opts \in Options,
             SetActiveWindow(list, index, opts)
      PROVE  YieldStep
  <2>1. CASE runner.pc = "off"
    BY <2>1 DEF YieldStep, Begins, IInv, WaitsThere
  <2>2. CASE runner.pc # "off"
    BY <1>1, <2>2, EditKeeps DEF SetActiveWindow, YieldStep, Begins, IInv, WaitsThere
  <2> QED BY <2>1, <2>2
<1>2. CASE EmptyWindow
  BY <1>2, EditKeeps DEF EmptyWindow, YieldStep, Begins, IInv, WaitsThere
<1>3. CASE Resume
  BY <1>3, GiveUpKeeps DEF Resume, Answered, YieldStep, Begins, IInv, ClearIsTrue
<1>4. CASE PollEnds
  BY <1>4, GiveUpKeeps DEF PollEnds, Answered, YieldStep, Begins
<1>5. CASE PollAgain
  BY <1>5 DEF PollAgain, YieldStep, Begins, IInv, Shape, WaitsThere
<1>6. CASE FetchFails \/ PlaylistFetched \/ SegmentFetched \/ MediaFetched
  BY <1>6 DEF FetchFails, PlaylistFetched, SegmentFetched, MediaFetched, Settling,
              YieldStep, Begins, IInv, WaitsThere
<1>7. CASE Registered
  BY <1>7 DEF Registered, YieldStep, Begins, IInv, WaitsThere
<1>8. CASE CancelAllTask \/ PlayerDone \/ \E f \in Fetches : PlayerFetches(f)
  BY <1>8 DEF CancelAllTask, PlayerDone, PlayerFetches, YieldStep, Begins, IInv, WaitsThere
<1> QED BY <1>1, <1>2, <1>3, <1>4, <1>5, <1>6, <1>7, <1>8 DEF Next, RunnerStep

\* No item's own fetch and no segment is begun for an item that has left the window, or
\* while the session reports the player busy, however many edits, player fetches and
\* cancels come between the question and its use (drain, waitUntilNotBusy).
THEOREM YieldsTheorem == Spec => YieldsWhenAsked
<1>1. Init => IInv
  BY InitIInv
<1>2. IInv /\ [Next]_vars => IInv'
  BY NextIInv
<1>3. IInv /\ [Next]_vars => [YieldStep]_vars
  BY NextYields
<1>4. [][YieldStep]_vars => YieldsWhenAsked
  <2>1. [YieldStep]_vars => [Begins => runner.member /\ ~Busy(downloadingList, prefetchUrls)]_vars
    BY DEF YieldStep
  <2> QED BY <2>1, PTL DEF YieldsWhenAsked
<1> QED BY <1>1, <1>2, <1>3, <1>4, PTL DEF Spec

-----------------------------------------------------------------------------
(***************************************************************************)
(* The queue.  Arranged puts the elements at the positions in P in the     *)
(* order of R: if R orders P totally, each position of P is the one that   *)
(* n - 1 others precede, for exactly one n.                                *)
(***************************************************************************)
IsOrder(R, P) ==
    /\ \A i \in P : <<i, i>> \notin R
    /\ \A i, j, k \in P : <<i, j>> \in R /\ <<j, k>> \in R => <<i, k>> \in R
    /\ \A i, j \in P : i = j \/ <<i, j>> \in R \/ <<j, i>> \in R

Before(i, P, R) == {j \in P : <<j, i>> \in R}

\* A set of natural numbers has a least element.
LEMMA LeastExists ==
    ASSUME NEW S \in SUBSET Nat, S # {}
    PROVE  \E i \in S : \A j \in S : i <= j
<1>1. \E i \in S : \A j \in S : <<j, i>> \notin OpToRel(<, Nat)
  BY NatLessThanWellFounded, WFMin, Zenon
<1>2. PICK i \in S : \A j \in S : <<j, i>> \notin OpToRel(<, Nat)
  BY <1>1
<1>3. \A j \in S : ~ (j < i)
  BY <1>2, Zenon DEF OpToRel
<1>4. \A j \in S : i <= j
  BY <1>3
<1> QED BY <1>4

\* What precedes a position is finite and not the whole, and grows along the order.
LEMMA BeforeGrows ==
    ASSUME NEW P, IsFiniteSet(P), NEW R, IsOrder(R, P)
    PROVE  /\ \A i \in P : /\ Cardinality(Before(i, P, R)) \in Nat
                           /\ Cardinality(Before(i, P, R)) < Cardinality(P)
           /\ \A i, k \in P : <<i, k>> \in R =>
                  Cardinality(Before(i, P, R)) < Cardinality(Before(k, P, R))
<1>1. Cardinality(P) \in Nat
  BY FS_CardinalityType
<1>2. \A i \in P : IsFiniteSet(Before(i, P, R)) /\ Cardinality(Before(i, P, R)) \in Nat
                   /\ Cardinality(Before(i, P, R)) < Cardinality(P)
  <2> TAKE i \in P
  <2>1. Before(i, P, R) \in SUBSET P /\ Before(i, P, R) # P
    BY DEF Before, IsOrder
  <2>2. IsFiniteSet(Before(i, P, R)) /\ Cardinality(Before(i, P, R)) <= Cardinality(P)
        /\ Cardinality(P) # Cardinality(Before(i, P, R))
    BY <2>1, FS_Subset
  <2>3. Cardinality(Before(i, P, R)) \in Nat
    BY <2>2, FS_CardinalityType
  <2> QED BY <2>2, <2>3, <1>1
<1>3. \A i, k \in P : <<i, k>> \in R =>
          Cardinality(Before(i, P, R)) < Cardinality(Before(k, P, R))
  <2> SUFFICES ASSUME NEW i \in P, NEW k \in P, <<i, k>> \in R
               PROVE  Cardinality(Before(i, P, R)) < Cardinality(Before(k, P, R))
    OBVIOUS
  <2>1. Before(i, P, R) \in SUBSET Before(k, P, R) /\ Before(i, P, R) # Before(k, P, R)
    <3>1. i \in Before(k, P, R) /\ i \notin Before(i, P, R)
      BY DEF Before, IsOrder
    <3>2. \A j \in Before(i, P, R) : j \in Before(k, P, R)
      BY DEF Before, IsOrder
    <3> QED BY <3>1, <3>2
  <2>2. Cardinality(Before(i, P, R)) <= Cardinality(Before(k, P, R))
        /\ Cardinality(Before(k, P, R)) # Cardinality(Before(i, P, R))
    BY <2>1, <1>2, FS_Subset
  <2> QED BY <2>2, <1>2
<1> QED BY <1>2, <1>3

\* Each position of P has a place of its own, and each place is taken.
LEMMA PlacesTaken ==
    ASSUME NEW P, IsFiniteSet(P), NEW R, IsOrder(R, P), NEW n \in 1..Cardinality(P)
    PROVE  \E i \in P : Cardinality(Before(i, P, R)) = n - 1
<1> DEFINE place == [i \in P |-> Cardinality(Before(i, P, R))]
           T == 0..(Cardinality(P) - 1)
<1>1. Cardinality(P) \in Nat
  BY FS_CardinalityType
<1>2. place \in [P -> T]
  BY <1>1, BeforeGrows
<1>3. \A i, k \in P : place[i] = place[k] => i = k
  <2> SUFFICES ASSUME NEW i \in P, NEW k \in P, place[i] = place[k], i # k
               PROVE  FALSE
    OBVIOUS
  <2>1. <<i, k>> \in R \/ <<k, i>> \in R
    BY DEF IsOrder
  <2>2. place[i] < place[k] \/ place[k] < place[i]
    BY <2>1, BeforeGrows
  <2>3. place[i] \in Int /\ place[k] \in Int
    BY <1>1, BeforeGrows
  <2> QED BY <2>2, <2>3
<1> HIDE DEF place
<1>4. place \in Injection(P, T)
  BY <1>2, <1>3 DEF Injection, IsInjective
<1>5. IsFiniteSet(T) /\ Cardinality(T) = Cardinality(P)
  <2>1. 0 \in Int /\ Cardinality(P) - 1 \in Int
    BY <1>1
  <2>2. /\ IsFiniteSet(T)
        /\ Cardinality(T) = IF 0 > Cardinality(P) - 1 THEN 0 ELSE (Cardinality(P) - 1) - 0 + 1
    BY <2>1, FS_Interval, Zenon
  <2> QED BY <2>2, <1>1
<1>6. place \in Surjection(P, T)
  BY <1>4, <1>5, FS_Injection
<1>7. n - 1 \in T
  BY <1>1
<1>8. \E i \in P : place[i] = n - 1
  <2> HIDE DEF T
  <2> QED BY <1>6, <1>7 DEF Surjection
<1> QED BY <1>8 DEF place

\* The position that comes n-th.
At(n, P, R) == CHOOSE i \in P : Cardinality({j \in P : <<j, i>> \in R}) = n - 1

\* Arranged holds the elements of s at the positions in P, each once and in order.
LEMMA ArrangedFacts ==
    ASSUME NEW E, NEW s \in Seq(E), NEW P \in SUBSET DOMAIN s, NEW R, IsOrder(R, P)
    PROVE  /\ Arranged(s, P, R) \in Seq(E)
           /\ Len(Arranged(s, P, R)) \in Nat
           /\ DOMAIN Arranged(s, P, R) = 1..Len(Arranged(s, P, R))
           /\ \A n \in DOMAIN Arranged(s, P, R) :
                  /\ At(n, P, R) \in P
                  /\ Arranged(s, P, R)[n] = s[At(n, P, R)]
           /\ \A m, n \in DOMAIN Arranged(s, P, R) : m < n => <<At(m, P, R), At(n, P, R)>> \in R
           /\ \A i \in P : \E n \in DOMAIN Arranged(s, P, R) : Arranged(s, P, R)[n] = s[i]
<1>1. DOMAIN s = 1 .. Len(s) /\ Len(s) \in Nat
  OBVIOUS
<1>2. IsFiniteSet(P)
  <2>1. IsFiniteSet(1 .. Len(s))
    BY <1>1, FS_Interval
  <2> QED BY <2>1, <1>1, FS_Subset
<1>3. Cardinality(P) \in Nat
  BY <1>2, FS_CardinalityType
<1>4. \A n \in 1..Cardinality(P) :
          At(n, P, R) \in P /\ Cardinality(Before(At(n, P, R), P, R)) = n - 1
  <2> TAKE n \in 1..Cardinality(P)
  <2>1. \E i \in P : Cardinality(Before(i, P, R)) = n - 1
    BY <1>2, PlacesTaken
  <2>2. \E i \in P : Cardinality({j \in P : <<j, i>> \in R}) = n - 1
    BY <2>1 DEF Before
  <2> QED BY <2>2 DEF At, Before
<1>5. Arranged(s, P, R) = [n \in 1..Cardinality(P) |-> s[At(n, P, R)]]
  BY DEF Arranged, At
<1>6. \A n \in 1..Cardinality(P) : s[At(n, P, R)] \in E
  BY <1>1, <1>4
<1>7. /\ Arranged(s, P, R) \in Seq(E)
      /\ DOMAIN Arranged(s, P, R) = 1..Cardinality(P)
      /\ Len(Arranged(s, P, R)) = Cardinality(P)
      /\ \A n \in 1..Cardinality(P) : Arranged(s, P, R)[n] = s[At(n, P, R)]
  <2> DEFINE A == [n \in 1..Cardinality(P) |-> s[At(n, P, R)]]
  <2>1. A \in Seq(E)
    BY <1>3, <1>6, IsASeq
  <2>2. Len(A) = Cardinality(P)
    BY <2>1, <1>3, LenProperties
  <2> QED BY <2>1, <2>2, <1>5
<1>8. \A m, n \in 1..Cardinality(P) : m < n => <<At(m, P, R), At(n, P, R)>> \in R
  <2> SUFFICES ASSUME NEW m \in 1..Cardinality(P), NEW n \in 1..Cardinality(P), m < n
               PROVE  <<At(m, P, R), At(n, P, R)>> \in R
    OBVIOUS
  <2> DEFINE a == At(m, P, R)  b == At(n, P, R)
  <2>1. /\ a \in P /\ b \in P
        /\ Cardinality(Before(a, P, R)) = m - 1 /\ Cardinality(Before(b, P, R)) = n - 1
    BY <1>4
  <2> HIDE DEF a, b
  <2>2. a # b
    BY <2>1, <1>3
  <2>3. ASSUME <<b, a>> \in R PROVE FALSE
    <3>1. Cardinality(Before(b, P, R)) < Cardinality(Before(a, P, R))
      BY <1>2, <2>1, <2>3, BeforeGrows
    <3> QED BY <3>1, <2>1, <1>3
  <2>4. <<a, b>> \in R
    BY <2>1, <2>2, <2>3 DEF IsOrder
  <2> QED BY <2>4 DEF a, b
<1>9. \A i \in P : \E n \in 1..Cardinality(P) : At(n, P, R) = i
  <2> SUFFICES ASSUME NEW i \in P PROVE \E n \in 1..Cardinality(P) : At(n, P, R) = i
    OBVIOUS
  <2> DEFINE n == Cardinality(Before(i, P, R)) + 1
  <2>1. n \in 1..Cardinality(P) /\ n - 1 = Cardinality(Before(i, P, R))
    BY <1>2, <1>3, BeforeGrows
  <2> HIDE DEF n
  <2>2. At(n, P, R) \in P /\ Cardinality(Before(At(n, P, R), P, R)) = Cardinality(Before(i, P, R))
    BY <1>4, <2>1
  <2>3. Cardinality(Before(i, P, R)) \in Nat
    BY <1>2, BeforeGrows
  <2>4. <<At(n, P, R), i>> \notin R /\ <<i, At(n, P, R)>> \notin R
    BY <1>2, <2>2, <2>3, BeforeGrows
  <2>5. At(n, P, R) = i
    BY <2>2, <2>4 DEF IsOrder
  <2> QED BY <2>1, <2>5
<1>10. \A i \in P : \E n \in 1..Cardinality(P) : Arranged(s, P, R)[n] = s[i]
  BY <1>7, <1>9
<1> QED BY <1>3, <1>4, <1>7, <1>8, <1>10

\* The two orders that the model arranges by: as the elements come, and by distance.
Coming(P) == {r \in P \X P : r[1] < r[2]}

Nearer(s, P) == {r \in P \X P :
    \/ s[r[1]].distance < s[r[2]].distance
    \/ s[r[1]].distance = s[r[2]].distance /\ r[1] < r[2]}

\* Both are total orders, however many elements are equally far.
LEMMA Orders ==
    ASSUME NEW s \in Seq(Items), NEW P \in SUBSET DOMAIN s
    PROVE  /\ IsOrder(Coming(P), P)
           /\ IsOrder(Nearer(s, P), P)
           /\ \A i, j \in P : <<i, j>> \in Coming(P) => i < j
           /\ \A i, j \in P : <<i, j>> \in Nearer(s, P) => s[i].distance <= s[j].distance
<1>1. \A i \in P : i \in Int /\ s[i].distance \in Int
  <2>1. DOMAIN s = 1..Len(s) /\ \A i \in DOMAIN s : s[i] \in Items
    OBVIOUS
  <2>2. \A e \in Items : e.distance \in Int
    BY DEF Items
  <2> QED BY <2>1, <2>2
<1>2. \A i, j \in P : <<i, j>> \in Coming(P) <=> i < j
  BY DEF Coming
<1>3. \A i, j \in P : <<i, j>> \in Nearer(s, P) <=>
          \/ s[i].distance < s[j].distance
          \/ s[i].distance = s[j].distance /\ i < j
  BY DEF Nearer
<1>4. IsOrder(Coming(P), P)
  BY <1>1, <1>2 DEF IsOrder
<1>5. IsOrder(Nearer(s, P), P)
  <2> DEFINE d(i) == s[i].distance
  <2>1. \A i, j \in P : <<i, j>> \in Nearer(s, P) <=> d(i) < d(j) \/ (d(i) = d(j) /\ i < j)
    BY <1>3
  <2>2. \A i \in P : i \in Int /\ d(i) \in Int
    BY <1>1
  <2> HIDE DEF d
  <2>3. \A i \in P : <<i, i>> \notin Nearer(s, P)
    BY <2>1, <2>2
  <2>4. \A i, j, k \in P : <<i, j>> \in Nearer(s, P) /\ <<j, k>> \in Nearer(s, P)
            => <<i, k>> \in Nearer(s, P)
    BY <2>1, <2>2
  <2>5. ASSUME NEW i \in P, NEW j \in P
        PROVE  i = j \/ <<i, j>> \in Nearer(s, P) \/ <<j, i>> \in Nearer(s, P)
    <3>1. i \in Int /\ j \in Int /\ d(i) \in Int /\ d(j) \in Int
      BY <2>2
    <3>2. \/ i = j \/ d(i) < d(j) \/ d(j) < d(i)
          \/ (d(i) = d(j) /\ i < j)
          \/ (d(i) = d(j) /\ j < i)
      BY <3>1
    <3> QED BY <3>2, <2>1
  <2> QED BY <2>3, <2>4, <2>5 DEF IsOrder
<1>6. \A i, j \in P : <<i, j>> \in Nearer(s, P) => s[i].distance <= s[j].distance
  BY <1>1, <1>3
<1> QED BY <1>2, <1>4, <1>5, <1>6

\* s in the order of its distances: what the queue is between two edits.
Ascending(s) ==
    \A i, j \in DOMAIN s :
        i < j => s[i].url # s[j].url /\ s[i].distance <= s[j].distance

\* Taking elements out of an ascending sequence leaves it ascending.
LEMMA FilteredFacts ==
    ASSUME NEW s \in Seq(Items), NEW P \in SUBSET DOMAIN s
    PROVE  /\ Filtered(s, P) \in Seq(Items)
           /\ \A n \in DOMAIN Filtered(s, P) : \E i \in P : Filtered(s, P)[n] = s[i]
           /\ Ascending(s) => Ascending(Filtered(s, P))
<1> DEFINE R == Coming(P)  F == Filtered(s, P)
<1>1. IsOrder(R, P) /\ \A i, j \in P : <<i, j>> \in R => i < j
  BY Orders
<1>2. F = Arranged(s, P, R)
  BY DEF Filtered, Coming
<1> HIDE DEF F, R
<1>3. /\ F \in Seq(Items)
      /\ \A n \in DOMAIN F : At(n, P, R) \in P /\ F[n] = s[At(n, P, R)]
      /\ \A m, n \in DOMAIN F : m < n => <<At(m, P, R), At(n, P, R)>> \in R
  BY <1>1, <1>2, ArrangedFacts
<1>4. ASSUME Ascending(s) PROVE Ascending(F)
  <2> SUFFICES ASSUME NEW m \in DOMAIN F, NEW n \in DOMAIN F, m < n
               PROVE  F[m].url # F[n].url /\ F[m].distance <= F[n].distance
    BY DEF Ascending
  <2>1. At(m, P, R) \in P /\ At(n, P, R) \in P /\ At(m, P, R) < At(n, P, R)
    BY <1>1, <1>3
  <2> QED BY <2>1, <1>3, <1>4 DEF Ascending
<1> QED BY <1>3, <1>4 DEF F

\* Sorting by distance makes a sequence of different URLs ascending.
LEMMA ByDistanceFacts ==
    ASSUME NEW s \in Seq(Items), NEW P \in SUBSET DOMAIN s,
           \A i, j \in P : i # j => s[i].url # s[j].url
    PROVE  /\ ByDistance(s, P) \in Seq(Items)
           /\ \A n \in DOMAIN ByDistance(s, P) : \E i \in P : ByDistance(s, P)[n] = s[i]
           /\ Ascending(ByDistance(s, P))
<1> DEFINE R == Nearer(s, P)  F == ByDistance(s, P)
<1>1. IsOrder(R, P) /\ \A i, j \in P : <<i, j>> \in R => s[i].distance <= s[j].distance
  BY Orders
<1>2. F = Arranged(s, P, R)
  BY DEF ByDistance, Nearer
<1> HIDE DEF F, R
<1>3. /\ F \in Seq(Items)
      /\ \A n \in DOMAIN F : At(n, P, R) \in P /\ F[n] = s[At(n, P, R)]
      /\ \A m, n \in DOMAIN F : m < n => <<At(m, P, R), At(n, P, R)>> \in R
  BY <1>1, <1>2, ArrangedFacts
<1>4. Ascending(F)
  <2> SUFFICES ASSUME NEW m \in DOMAIN F, NEW n \in DOMAIN F, m < n
               PROVE  F[m].url # F[n].url /\ F[m].distance <= F[n].distance
    BY DEF Ascending
  <2>1. /\ At(m, P, R) \in P /\ At(n, P, R) \in P
        /\ <<At(m, P, R), At(n, P, R)>> \in R
    BY <1>3
  <2>2. At(m, P, R) # At(n, P, R)
    BY <1>1, <2>1 DEF IsOrder
  <2> QED BY <2>1, <2>2, <1>1, <1>3
<1> QED BY <1>3, <1>4 DEF F

-----------------------------------------------------------------------------
(* setActiveWindow's edit, and the end of an item *)

\* The target window holds items of the list, each URL once, all of them queued.
LEMMA TargetFacts ==
    ASSUME NEW list \in Lists, list # << >>, NEW index \in Indices, NEW opts \in Options
    PROVE  LET w == Target(list, index, opts)
           IN  /\ w \in Seq(Items)
               /\ \A k \in DOMAIN w : w[k].status = "queued"
               /\ \A k, l \in DOMAIN w : k # l => w[k].url # w[l].url
<1> DEFINE n  == Len(list)
           at == Clamp(index, 0, n - 1)
           lo == Max({0, at - opts.behind})
           hi == Min({n - 1, at + opts.ahead})
           far(i) == IF i < at THEN at - i ELSE i - at
           w  == Target(list, index, opts)
<1>1. /\ list \in Seq(Urls) /\ n \in Nat /\ n >= 1 /\ DOMAIN list = 1..n
      /\ \A i, j \in 1..n : i # j => list[i] # list[j]
  BY ItemsAssumption DEF IsInjective
<1>2. index \in Int /\ opts.behind \in Nat /\ opts.ahead \in Nat
  BY CallsAssumption
<1>3. at \in 0..(n - 1)
  BY <1>1, <1>2 DEF Clamp
<1> HIDE DEF at, n
<1>4. lo \in Nat /\ lo <= at
  <2>1. \A x \in Int : Max({0, x}) = IF x > 0 THEN x ELSE 0
    BY DEF Max
  <2> QED BY <2>1, <1>2, <1>3, <1>1
<1>5. hi \in Int /\ at <= hi /\ hi <= n - 1
  <2>1. \A x, y \in Int : Min({x, y}) = IF x < y THEN x ELSE y
    BY DEF Min
  <2> QED BY <2>1, <1>2, <1>3, <1>1
<1> HIDE DEF lo, hi
<1>6. w = [k \in 1..(hi - lo + 1) |-> Item(list[(lo + k - 1) + 1], far(lo + k - 1))]
  BY DEF Target, n, at, lo, hi
<1> HIDE DEF w
<1>7. ASSUME NEW k \in 1..(hi - lo + 1)
      PROVE  /\ (lo + k - 1) + 1 \in 1..n /\ far(lo + k - 1) \in Nat
             /\ (lo + k - 1) + 1 = lo + k
  BY <1>1, <1>3, <1>4, <1>5
<1> HIDE DEF far
<1>8. \A k \in 1..(hi - lo + 1) : w[k] \in Items /\ w[k].status = "queued" /\ w[k].url = list[lo + k]
  BY <1>1, <1>6, <1>7 DEF Item, Items
<1>9. DOMAIN w = 1..(hi - lo + 1)
  BY <1>6
<1>10. w \in Seq(Items)
  <2>1. hi - lo + 1 \in Nat
    BY <1>3, <1>4, <1>5
  <2> QED BY <2>1, <1>6, <1>8, IsASeq
<1>11. ASSUME NEW k \in DOMAIN w, NEW l \in DOMAIN w, k # l PROVE w[k].url # w[l].url
  <2>1. lo + k \in 1..n /\ lo + l \in 1..n /\ k \in Int /\ l \in Int
    BY <1>7, <1>9
  <2>2. lo + k # lo + l
    BY <2>1, <1>4, <1>11
  <2> QED BY <2>1, <2>2, <1>1, <1>8, <1>9
<1> QED BY <1>8, <1>9, <1>10, <1>11 DEF w

\* Merged is what was queued, each item with its URL and status, and then the window.
LEMMA MergedFacts ==
    ASSUME items \in Seq(Items), NEW w \in Seq(Items)
    PROVE  /\ Merged(w) \in Seq(Items)
           /\ DOMAIN Merged(w) = 1..(Len(items) + Len(w))
           /\ \A k \in 1..Len(items) : /\ Merged(w)[k].url = items[k].url
                                       /\ Merged(w)[k].status = items[k].status
           /\ \A k \in 1..(Len(items) + Len(w)) :
                  k > Len(items) => Merged(w)[k] = w[k - Len(items)]
<1> DEFINE there(u) == CHOOSE i \in DOMAIN w : w[i].url = u
           old == [k \in DOMAIN items |->
                     IF items[k].url \in Urlset(w)
                     THEN [items[k] EXCEPT !.distance = w[there(items[k].url)].distance]
                     ELSE items[k]]
<1>1. DOMAIN items = 1..Len(items) /\ Len(items) \in Nat
      /\ \A k \in DOMAIN items : items[k] \in Items
  OBVIOUS
<1>2. \A u \in Urlset(w) : w[there(u)] \in Items
  <2> TAKE u \in Urlset(w)
  <2>1. \E i \in DOMAIN w : w[i].url = u
    BY DEF Urlset
  <2>2. there(u) \in DOMAIN w
    BY <2>1
  <2> HIDE DEF there
  <2> QED BY <2>2
<1>3. \A k \in DOMAIN items :
          old[k] \in Items /\ old[k].url = items[k].url /\ old[k].status = items[k].status
  <2> HIDE DEF there
  <2> QED BY <1>1, <1>2 DEF Items
<1>4. old \in Seq(Items) /\ Len(old) = Len(items)
  <2>1. old = [k \in 1..Len(items) |-> old[k]] /\ \A k \in 1..Len(items) : old[k] \in Items
    BY <1>1, <1>3
  <2> HIDE DEF old
  <2>2. old \in Seq(Items)
    BY <2>1, <1>1, IsASeq
  <2> QED BY <2>1, <2>2, <1>1, LenProperties
<1>5. Merged(w) = old \o w
  BY DEF Merged
<1> HIDE DEF old
<1>6. /\ old \o w \in Seq(Items) /\ Len(old \o w) = Len(old) + Len(w)
      /\ \A k \in 1..(Len(old) + Len(w)) :
            (old \o w)[k] = IF k <= Len(old) THEN old[k] ELSE w[k - Len(old)]
  BY <1>4, ConcatProperties
<1> QED BY <1>1, <1>3, <1>4, <1>5, <1>6

\* The edited queue is ascending; an item that stays keeps its mark, one that is new has none.
LEMMA EditedFacts ==
    ASSUME items \in Seq(Items), QueueSorted, NEW w \in Seq(Items),
           \A k \in DOMAIN w : w[k].status = "queued",
           \A k, l \in DOMAIN w : k # l => w[k].url # w[l].url
    PROVE  /\ Edited(w) \in Seq(Items)
           /\ Ascending(Edited(w))
           /\ \A n \in DOMAIN Edited(w) :
                 \/ \E k \in DOMAIN items : /\ Edited(w)[n].url = items[k].url
                                            /\ Edited(w)[n].status = items[k].status
                 \/ Edited(w)[n].url \notin Urlset(items) /\ Edited(w)[n].status = "queued"
<1> DEFINE s == Merged(w)  P == Wanted(w)  c == Len(items)
<1>1. /\ s \in Seq(Items) /\ DOMAIN s = 1..(c + Len(w)) /\ c \in Nat /\ Len(w) \in Nat
      /\ DOMAIN items = 1..c /\ DOMAIN w = 1..Len(w)
      /\ \A k \in 1..c : s[k].url = items[k].url /\ s[k].status = items[k].status
      /\ \A k \in 1..(c + Len(w)) : k > c => s[k] = w[k - c]
  <2>1. c \in Nat /\ Len(w) \in Nat /\ DOMAIN items = 1..c /\ DOMAIN w = 1..Len(w)
    BY LenProperties
  <2> QED
    BY <2>1, MergedFacts
<1>2. P \in SUBSET DOMAIN s
  BY <1>1 DEF Wanted
<1> HIDE DEF s
<1>3. \A k \in P : k > c => k - c \in DOMAIN w /\ s[k] = w[k - c] /\ s[k].url \notin Urlset(items)
  BY <1>1, <1>2 DEF Wanted
<1>4. \A k \in P : k <= c => k \in DOMAIN items /\ s[k].url = items[k].url
                             /\ s[k].status = items[k].status /\ s[k].url \in Urlset(items)
  BY <1>1, <1>2 DEF Urlset
<1>5. \A k \in P : k \in Nat
  BY <1>1, <1>2
<1> HIDE DEF P
<1>6. ASSUME NEW i \in P, NEW j \in P, i < j PROVE s[i].url # s[j].url
  <2>1. CASE j <= c
    <3>1. i \in DOMAIN items /\ j \in DOMAIN items
      BY <2>1, <1>1, <1>4, <1>5, <1>6
    <3> QED BY <3>1, <2>1, <1>1, <1>4, <1>5, <1>6 DEF QueueSorted
  <2>2. CASE i > c
    <3>1. i - c \in DOMAIN w /\ j - c \in DOMAIN w /\ i - c # j - c
          /\ s[i] = w[i - c] /\ s[j] = w[j - c]
      BY <2>2, <1>1, <1>3, <1>5, <1>6
    <3> QED BY <3>1
  <2>3. CASE i <= c /\ j > c
    BY <2>3, <1>3, <1>4
  <2> QED BY <2>1, <2>2, <2>3, <1>1, <1>5
<1>7. \A i, j \in P : i # j => s[i].url # s[j].url
  BY <1>5, <1>6
<1>8. /\ ByDistance(s, P) \in Seq(Items) /\ Ascending(ByDistance(s, P))
      /\ \A n \in DOMAIN ByDistance(s, P) : \E i \in P : ByDistance(s, P)[n] = s[i]
  BY <1>1, <1>2, <1>7, ByDistanceFacts
<1>9. Edited(w) = ByDistance(s, P)
  BY DEF Edited, s, P
<1>10. \A i \in P : \/ \E k \in DOMAIN items : s[i].url = items[k].url /\ s[i].status = items[k].status
                    \/ s[i].url \notin Urlset(items) /\ s[i].status = "queued"
  BY <1>1, <1>3, <1>4, <1>5
<1> QED BY <1>8, <1>9, <1>10

-----------------------------------------------------------------------------
(***************************************************************************)
(* The queue and the runner.  QueueSorted is kept by every edit by itself; *)
(* MarkedIsWorkedOn needs that the runner's item is in the queue while the *)
(* runner is its member (InQueue), for a new item must not be taken for    *)
(* the one the runner works on, and that a runner that is off is Off.      *)
(***************************************************************************)
RunnerFine(r) ==
    /\ r \in Runners
    /\ r.pc = "off" => r = Off
    /\ r.pc # "off" => r.url \in Urls
    /\ r.pc \in {"pausing", "segment"} => r.left >= 1

InQueue == runner.member => runner.url \in Urlset(items)

Entries == [Fetches -> {"none", "player", "prefetch"}]

QueueInv ==
    /\ items \in Seq(Items)
    /\ segmentCount \in 0..MaxCount
    /\ RunnerFine(runner)
    /\ InQueue
    /\ QueueSorted
    /\ MarkedIsWorkedOn

SessionInv ==
    /\ downloadingList \in Entries
    /\ prefetchUrls \subseteq Fetches
    /\ playing \in Fetches \cup {None}
    /\ aborted \subseteq {"player", "prefetch"}
    /\ calls \in 0..MaxCalls

FullInv == IInv /\ QueueInv /\ SessionInv

\* No drain() is a state the runner may be in.
LEMMA OffFine == RunnerFine(Off)
BY BoundsAssumption, CallsAssumption DEF RunnerFine, Off, Runners

\* What drain() takes up next is the first queued item, which is in the queue.
LEMMA NextTurnFine ==
    ASSUME NEW q \in Seq(Items), NEW list, NEW tagged
    PROVE  LET r == NextTurn(q, list, tagged)
           IN  /\ RunnerFine(r)
               /\ r.pc \in {"off", "waiting"}
               /\ r.member => r.url \in Urlset(q)
<1> DEFINE queued == {i \in DOMAIN q : q[i].status = "queued"}
           first  == CHOOSE i \in queued : \A j \in queued : i <= j
<1>1. DOMAIN q = 1..Len(q) /\ \A i \in DOMAIN q : q[i] \in Items
  OBVIOUS
<1>2. queued \in SUBSET Nat /\ queued \subseteq DOMAIN q
  BY <1>1
<1> HIDE DEF queued
<1>3. CASE queued = {}
  BY <1>3, OffFine DEF NextTurn, queued, Off
<1>4. CASE queued # {}
  <2>1. \E i \in queued : \A j \in queued : i <= j
    BY <1>2, <1>4, LeastExists
  <2>2. first \in queued
    BY <2>1
  <2> HIDE DEF first
  <2>3. q[first].url \in Urls /\ q[first].url \in Urlset(q)
    BY <1>1, <1>2, <2>2 DEF Items, Urlset
  <2>4. NextTurn(q, list, tagged) =
            [Off EXCEPT !.pc = "waiting", !.url = q[first].url, !.member = TRUE,
                        !.wait = IF Busy(list, tagged) THEN "polling" ELSE "clear"]
    BY <1>4 DEF NextTurn, queued, first
  <2> DEFINE r == NextTurn(q, list, tagged)
  <2>5. r = [pc |-> "waiting", url |-> q[first].url, member |-> TRUE,
             wait |-> IF Busy(list, tagged) THEN "polling" ELSE "clear", ticks |-> 0, left |-> 0]
    BY <2>4 DEF Off
  <2> HIDE DEF r
  <2>6. (IF Busy(list, tagged) THEN "polling" ELSE "clear") \in {"polling", "clear"}
    OBVIOUS
  <2>7. r \in Runners /\ r.pc = "waiting" /\ r.url = q[first].url
    BY <2>3, <2>5, <2>6, BoundsAssumption, CallsAssumption DEF Runners
  <2> QED BY <2>3, <2>7 DEF RunnerFine, r
<1> QED BY <1>3, <1>4

\* The end of an item takes it out of the queue and leaves no mark behind.
LEMMA EndItemQueue ==
    ASSUME QueueInv, NEW list, NEW tagged, EndItem(list, tagged)
    PROVE  QueueInv'
<1> DEFINE P == {i \in DOMAIN items : ~(runner.member /\ items[i].url = runner.url)}
           r == NextTurn(Ended(items), list, tagged)
<1>1. items \in Seq(Items) /\ Ascending(items) /\ P \in SUBSET DOMAIN items
  BY DEF QueueInv, QueueSorted, Ascending
<1>2. Ended(items) = Filtered(items, P)
  BY DEF Ended
<1>3. items' = Ended(items) /\ runner' = r /\ segmentCount' = segmentCount
  BY DEF EndItem
<1> HIDE DEF P, r
<1>4. /\ Ended(items) \in Seq(Items) /\ Ascending(Ended(items))
      /\ \A n \in DOMAIN Ended(items) : \E i \in P : Ended(items)[n] = items[i]
  BY <1>1, <1>2, FilteredFacts
<1>5. RunnerFine(r) /\ r.pc \in {"off", "waiting"} /\ (r.member => r.url \in Urlset(Ended(items)))
  BY <1>4, NextTurnFine DEF r
<1>6. \A n \in DOMAIN Ended(items) : Ended(items)[n].status # "downloading"
  <2> SUFFICES ASSUME NEW i \in P PROVE items[i].status # "downloading"
    BY <1>4
  <2> QED BY DEF P, QueueInv, MarkedIsWorkedOn
<1>7. items' \in Seq(Items) /\ Ascending(items') /\ RunnerFine(runner') /\ segmentCount' \in 0..MaxCount
  BY <1>3, <1>4, <1>5 DEF QueueInv
<1>8. InQueue'
  BY <1>3, <1>5 DEF InQueue
<1>9. MarkedIsWorkedOn'
  BY <1>3, <1>5, <1>6 DEF MarkedIsWorkedOn
<1>10. QueueSorted'
  BY <1>7 DEF QueueSorted, Ascending
<1> QED BY <1>7, <1>8, <1>9, <1>10 DEF QueueInv

\* A wait that ends without its answer: nothing in the queue is marked while drain() waits
\* before an item.
LEMMA GiveUpQueue ==
    ASSUME QueueInv, GiveUp
    PROVE  QueueInv'
<1>1. CASE runner.pc = "waiting"
  <2>1. runner' = Off /\ items' = items /\ segmentCount' = segmentCount
    BY <1>1 DEF GiveUp, Stop, queue
  <2>2. RunnerFine(runner')
    BY <2>1, OffFine
  <2>3. InQueue' /\ QueueSorted'
    BY <2>1 DEF InQueue, Off, QueueSorted, QueueInv
  <2>4. MarkedIsWorkedOn'
    BY <1>1, <2>1 DEF MarkedIsWorkedOn, QueueInv, Off
  <2> QED BY <2>1, <2>2, <2>3, <2>4 DEF QueueInv
<1>2. CASE runner.pc # "waiting"
  BY <1>2, EndItemQueue DEF GiveUp
<1> QED BY <1>1, <1>2

\* A runner that moves on within its item, which the queue keeps as it was.
LEMMA MovesOn ==
    ASSUME QueueInv, RunnerFine(runner'), UNCHANGED queue,
           runner.pc \notin {"off", "waiting"}, runner'.pc \notin {"off", "waiting"},
           runner'.url = runner.url, runner'.member = runner.member
    PROVE  QueueInv'
<1>1. items' = items /\ segmentCount' = segmentCount
  BY DEF queue
<1>2. InQueue' /\ QueueSorted'
  BY <1>1 DEF QueueInv, InQueue, QueueSorted
<1>3. MarkedIsWorkedOn'
  BY <1>1 DEF QueueInv, MarkedIsWorkedOn
<1> QED BY <1>1, <1>2, <1>3 DEF QueueInv

\* The fetch of an item begins with its mark, that of a segment finds it there.
LEMMA BeginQueue ==
    ASSUME QueueInv, WaitsThere, runner.wait # "none", runner.member, Begin
    PROVE  QueueInv'
<1>1. runner \in Runners /\ runner.pc \in {"waiting", "pausing"} /\ runner.url \in Urls
  BY DEF QueueInv, RunnerFine, WaitsThere
<1>2. CASE runner.pc = "waiting"
  <2>1. items' = [k \in DOMAIN items |->
            IF items[k].url = runner.url THEN [items[k] EXCEPT !.status = "downloading"]
            ELSE items[k]]
    BY <1>2 DEF Begin
  <2>2. DOMAIN items = 1..Len(items) /\ Len(items) \in Nat
        /\ \A k \in DOMAIN items : items[k] \in Items
    BY DEF QueueInv
  <2>3. DOMAIN items' = DOMAIN items
    BY <2>1
  <2>4. \A k \in DOMAIN items :
            /\ items'[k] \in Items /\ items'[k].url = items[k].url
            /\ items'[k].distance = items[k].distance
            /\ items'[k].status = IF items[k].url = runner.url THEN "downloading"
                                  ELSE items[k].status
    BY <2>1, <2>2 DEF Items
  <2>5. items' \in Seq(Items)
    <3>1. items' = [k \in 1..Len(items) |-> items'[k]]
      BY <2>1, <2>2
    <3>2. \A k \in 1..Len(items) : items'[k] \in Items
      BY <2>2, <2>4
    <3> QED BY <2>2, <3>1, <3>2, IsASeq
  <2>6. /\ runner' = [runner EXCEPT !.pc = IF runner.url \in Hls THEN "playlist" ELSE "media",
                                    !.wait = "none", !.ticks = 0, !.left = segmentCount]
        /\ segmentCount' = segmentCount
    BY <1>2 DEF Begin
  <2>7. /\ RunnerFine(runner') /\ runner'.url = runner.url /\ runner'.member
        /\ runner'.pc \notin {"off", "waiting"}
    <3> DEFINE pc == IF runner.url \in Hls THEN "playlist" ELSE "media"
    <3>1. pc \in {"playlist", "media"}
      OBVIOUS
    <3>2. 0 \in 0..MaxTicks /\ segmentCount \in 0..MaxCount
      BY BoundsAssumption DEF QueueInv
    <3>3. runner' = [runner EXCEPT !.pc = pc, !.wait = "none", !.ticks = 0, !.left = segmentCount]
      BY <2>6
    <3> HIDE DEF pc
    <3>4. runner' \in Runners /\ runner'.pc = pc /\ runner'.url = runner.url /\ runner'.member
      BY <1>1, <3>1, <3>2, <3>3 DEF Runners
    <3> QED BY <1>1, <3>1, <3>4 DEF RunnerFine
  <2>8. InQueue'
    BY <2>3, <2>4, <2>7 DEF InQueue, QueueInv, Urlset
  <2>9. QueueSorted'
    BY <2>3, <2>4 DEF QueueSorted, QueueInv
  <2>10. MarkedIsWorkedOn'
    <3>1. \A k \in DOMAIN items : items[k].status # "downloading"
      BY <1>2 DEF MarkedIsWorkedOn, QueueInv
    <3> QED BY <2>3, <2>4, <2>7, <3>1 DEF MarkedIsWorkedOn
  <2> QED BY <2>5, <2>6, <2>7, <2>8, <2>9, <2>10 DEF QueueInv
<1>3. CASE runner.pc = "pausing"
  <2>1. runner' = [runner EXCEPT !.pc = "segment", !.wait = "none", !.ticks = 0]
        /\ UNCHANGED queue
    BY <1>3 DEF Begin
  <2>2. RunnerFine(runner') /\ runner'.url = runner.url /\ runner'.member = runner.member
        /\ runner'.pc = "segment"
    <3>1. 0 \in 0..MaxTicks /\ runner.left \in 0..MaxCount /\ runner.left >= 1
      BY <1>1, <1>3, BoundsAssumption DEF QueueInv, RunnerFine, Runners
    <3>2. /\ runner' \in Runners /\ runner'.pc = "segment" /\ runner'.url = runner.url
          /\ runner'.member = runner.member /\ runner'.left = runner.left
      BY <1>1, <2>1, <3>1 DEF Runners
    <3> QED BY <1>1, <3>1, <3>2 DEF RunnerFine
  <2> QED BY <1>3, <2>1, <2>2, MovesOn
<1> QED BY <1>1, <1>2, <1>3

\* The next segment, or the end of the item.
LEMMA NextSegmentQueue ==
    ASSUME QueueInv, runner.pc \in {"registering", "segment"}, NEW left \in 0..MaxCount,
           NEW list, NEW tagged, NextSegment(left, list, tagged)
    PROVE  QueueInv'
<1>1. CASE left = 0 \/ ~runner.member
  BY <1>1, EndItemQueue DEF NextSegment
<1>2. CASE ~(left = 0 \/ ~runner.member)
  <2>1. /\ runner' = [runner EXCEPT !.pc = "pausing", !.left = left,
                         !.wait = IF Busy(list, tagged) THEN "polling" ELSE "clear"]
        /\ UNCHANGED queue
    BY <1>2 DEF NextSegment
  <2>2. RunnerFine(runner') /\ runner'.url = runner.url /\ runner'.member = runner.member
        /\ runner'.pc = "pausing"
    <3> DEFINE wait == IF Busy(list, tagged) THEN "polling" ELSE "clear"
    <3>1. wait \in {"none", "polling", "clear"}
      OBVIOUS
    <3>2. runner.ticks \in 0..MaxTicks /\ left >= 1 /\ runner \in Runners /\ runner.url \in Urls
      BY <1>2, CallsAssumption DEF QueueInv, RunnerFine, Runners
    <3>3. runner' = [runner EXCEPT !.pc = "pausing", !.left = left, !.wait = wait]
      BY <2>1
    <3> HIDE DEF wait
    <3>4. /\ runner' \in Runners /\ runner'.pc = "pausing" /\ runner'.url = runner.url
          /\ runner'.member = runner.member /\ runner'.left = left
      BY <3>1, <3>2, <3>3 DEF Runners
    <3> QED BY <3>2, <3>4 DEF RunnerFine
  <2> QED BY <2>1, <2>2, MovesOn
<1> QED BY <1>1, <1>2

\* An item the runner has in hand may leave the queue, or stay in it; the runner is where
\* it was.
LEMMA MemberFine ==
    ASSUME RunnerFine(runner), runner.pc # "off" \/ ~runner.member, NEW b \in BOOLEAN,
           runner.pc = "off" => b = FALSE, runner' = [runner EXCEPT !.member = b]
    PROVE  /\ RunnerFine(runner') /\ runner'.pc = runner.pc /\ runner'.url = runner.url
           /\ runner'.member = b
<1>1. /\ runner' \in Runners /\ runner'.pc = runner.pc /\ runner'.url = runner.url
      /\ runner'.member = b /\ runner'.left = runner.left
  BY DEF RunnerFine, Runners
<1>2. ASSUME runner.pc = "off" PROVE runner' = Off
  <2>1. runner = Off /\ b = FALSE
    BY <1>2 DEF RunnerFine
  <2> QED BY <2>1 DEF Off
<1> QED BY <1>1, <1>2 DEF RunnerFine

\* setActiveWindow: the edit leaves the queue ascending, each mark where it was.
LEMMA EditQueue ==
    ASSUME QueueInv, NEW list \in Lists, NEW index \in Indices, NEW opts \in Options,
           SetActiveWindow(list, index, opts)
    PROVE  QueueInv'
<1> DEFINE w == Target(list, index, opts)
<1>1. /\ w \in Seq(Items) /\ \A k \in DOMAIN w : w[k].status = "queued"
      /\ \A k, l \in DOMAIN w : k # l => w[k].url # w[l].url
  BY TargetFacts DEF SetActiveWindow
<1>2. items' = Edited(w) /\ segmentCount' = opts.segmentCount
  BY DEF SetActiveWindow
<1> HIDE DEF w
<1>3. items \in Seq(Items) /\ QueueSorted /\ RunnerFine(runner) /\ InQueue /\ MarkedIsWorkedOn
  BY DEF QueueInv
<1>4. /\ items' \in Seq(Items) /\ Ascending(items')
      /\ \A n \in DOMAIN items' :
            \/ \E k \in DOMAIN items : items'[n].url = items[k].url
                                       /\ items'[n].status = items[k].status
            \/ items'[n].url \notin Urlset(items) /\ items'[n].status = "queued"
  BY <1>1, <1>2, <1>3, EditedFacts
<1>5. QueueSorted' /\ segmentCount' \in 0..MaxCount
  BY <1>2, <1>4, CallsAssumption DEF QueueSorted, Ascending
<1>6. CASE runner.pc = "off"
  <2>1. runner' = NextTurn(items', downloadingList', prefetchUrls')
    BY <1>6 DEF SetActiveWindow
  <2>2. RunnerFine(runner') /\ runner'.pc \in {"off", "waiting"} /\ InQueue'
    BY <1>4, <2>1, NextTurnFine DEF InQueue
  <2>3. \A k \in DOMAIN items : items[k].status # "downloading"
    BY <1>3, <1>6 DEF MarkedIsWorkedOn
  <2>4. \A n \in DOMAIN items' : items'[n].status # "downloading"
    BY <1>4, <2>3
  <2>5. MarkedIsWorkedOn'
    BY <2>2, <2>4 DEF MarkedIsWorkedOn
  <2> QED BY <1>4, <1>5, <2>2, <2>5 DEF QueueInv
<1>7. CASE runner.pc # "off"
  <2> DEFINE b == runner.member /\ runner.url \in Urlset(items')
  <2>1. runner' = [runner EXCEPT !.member = b] /\ b \in BOOLEAN
    BY <1>7 DEF SetActiveWindow, Leave
  <2>2. /\ RunnerFine(runner') /\ runner'.pc = runner.pc /\ runner'.url = runner.url
        /\ runner'.member = b
    <3> HIDE DEF b
    <3> QED BY <1>3, <1>7, <2>1, MemberFine
  <2>3. InQueue'
    BY <2>2 DEF InQueue
  <2>4. MarkedIsWorkedOn'
    <3> SUFFICES ASSUME NEW n \in DOMAIN items'
                 PROVE  items'[n].status = "downloading" <=>
                            /\ runner'.pc \notin {"off", "waiting"}
                            /\ runner'.member
                            /\ runner'.url = items'[n].url
      BY DEF MarkedIsWorkedOn
    <3>1. items'[n].url \in Urlset(items')
      BY DEF Urlset
    <3>2. CASE \E k \in DOMAIN items : items'[n].url = items[k].url
                                       /\ items'[n].status = items[k].status
      <4>1. PICK k \in DOMAIN items : items'[n].url = items[k].url
                                      /\ items'[n].status = items[k].status
        BY <3>2
      <4>2. items[k].status = "downloading" <=>
              runner.pc \notin {"off", "waiting"} /\ runner.member /\ runner.url = items[k].url
        BY <1>3 DEF MarkedIsWorkedOn
      <4>3. runner.url = items[k].url => runner'.member = runner.member
        BY <2>2, <3>1, <4>1, <2>1, <1>3 DEF RunnerFine, Runners
      <4> QED BY <2>2, <4>1, <4>2, <4>3
    <3>3. CASE items'[n].url \notin Urlset(items) /\ items'[n].status = "queued"
      BY <1>3, <2>2, <3>3 DEF InQueue
    <3> QED BY <1>4, <3>2, <3>3
  <2> QED BY <1>4, <1>5, <2>2, <2>3, <2>4 DEF QueueInv
<1> QED BY <1>6, <1>7

\* setActiveWindow with an empty list: the queue is emptied.
LEMMA EmptyQueue ==
    ASSUME QueueInv, EmptyWindow
    PROVE  QueueInv'
<1>1. items' = << >> /\ segmentCount' = segmentCount /\ runner' = [runner EXCEPT !.member = FALSE]
  BY DEF EmptyWindow
<1>2. RunnerFine(runner') /\ runner'.member = FALSE
  <2> DEFINE b == FALSE
  <2>1. b \in BOOLEAN /\ b = FALSE /\ runner' = [runner EXCEPT !.member = b]
    BY <1>1
  <2>2. RunnerFine(runner) /\ (runner.pc # "off" \/ ~runner.member)
    BY DEF QueueInv, RunnerFine, Off
  <2> HIDE DEF b
  <2> QED BY <2>1, <2>2, MemberFine
<1>3. items' \in Seq(Items) /\ InQueue' /\ QueueSorted' /\ MarkedIsWorkedOn'
  BY <1>1, <1>2 DEF InQueue, QueueSorted, MarkedIsWorkedOn
<1> QED BY <1>1, <1>2, <1>3 DEF QueueInv

\* A step of the session, or of a timer, that leaves queue and runner alone, but for the
\* ticks.
LEMMA QueueAlone ==
    ASSUME QueueInv, UNCHANGED queue, RunnerFine(runner'), runner'.pc = runner.pc,
           runner'.url = runner.url, runner'.member = runner.member
    PROVE  QueueInv'
<1>1. items' = items /\ segmentCount' = segmentCount
  BY DEF queue
<1>2. InQueue' /\ QueueSorted' /\ MarkedIsWorkedOn'
  BY <1>1 DEF QueueInv, InQueue, QueueSorted, MarkedIsWorkedOn
<1> QED BY <1>1, <1>2 DEF QueueInv

-----------------------------------------------------------------------------
(* The session *)

Listing(list, tagged) == list \in Entries /\ tagged \subseteq Fetches

\* Cancelling fetches takes their entries and tags, and aborts whoever had them.
LEMMA CancelSession ==
    ASSUME SessionInv, NEW gone \in SUBSET Fetches, CancelTasks(gone), calls' \in 0..MaxCalls
    PROVE  SessionInv'
<1> DEFINE listed == {f \in gone : downloadingList[f] # "none"}
<1>1. /\ aborted' = aborted \cup {downloadingList[f] : f \in listed}
      /\ downloadingList' = [f \in Fetches |-> IF f \in listed THEN "none" ELSE downloadingList[f]]
      /\ prefetchUrls' = prefetchUrls \ listed /\ playing' = playing
  BY DEF CancelTasks
<1>2. \A f \in listed : downloadingList[f] \in {"player", "prefetch"}
  BY DEF SessionInv, Entries
<1> HIDE DEF listed
<1>3. aborted' \subseteq {"player", "prefetch"}
  BY <1>1, <1>2 DEF SessionInv
<1>4. downloadingList' \in Entries
  BY <1>1 DEF SessionInv, Entries
<1> QED BY <1>1, <1>3, <1>4 DEF SessionInv

\* A fetch that begins is listed as a prefetch.
LEMMA StartSession ==
    ASSUME NEW f \in Fetches, NEW tag \in BOOLEAN, NEW list, NEW tagged,
           Listing(list, tagged), StartFetch(f, tag, list, tagged)
    PROVE  Listing(downloadingList', prefetchUrls')
BY DEF Listing, StartFetch, Entries

\* The runner's own fetch is a fetch, and settles into a listing.
LEMMA SettlesSession ==
    ASSUME SessionInv
    PROVE  Listing(Listed, Tagged)
<1>1. Listed \in Entries
  BY DEF Listed, SessionInv, Entries
<1> QED BY <1>1 DEF Listing, Tagged, SessionInv

\* What the runner fetches next is one of Fetches.
LEMMA FetchesFine ==
    ASSUME NEW u \in Urls, NEW n \in 0..MaxCount
    PROVE  <<u, n>> \in Fetches /\ <<u, Variant>> \in Fetches
BY CallsAssumption DEF Fetches, Variant

\* The end of an item hands on the listing it is given.
LEMMA EndItemSession ==
    ASSUME NEW list, NEW tagged, Listing(list, tagged), EndItem(list, tagged)
    PROVE  Listing(downloadingList', prefetchUrls')
BY DEF EndItem

\* So does the next segment.
LEMMA NextSegmentSession ==
    ASSUME NEW left, NEW list, NEW tagged, Listing(list, tagged), NextSegment(left, list, tagged)
    PROVE  Listing(downloadingList', prefetchUrls')
BY EndItemSession DEF NextSegment

\* A wait that ends begins a fetch, or hands on the listing.
LEMMA AnsweredSession ==
    ASSUME QueueInv, SessionInv, WaitsThere, runner.wait # "none", NEW ok \in BOOLEAN, Answered(ok)
    PROVE  SessionInv'
<1>1. Listing(downloadingList, prefetchUrls)
  BY DEF SessionInv, Listing
<1>2. runner \in Runners /\ runner.url \in Urls /\ runner.left \in 0..MaxCount
      /\ 0 \in 0..MaxCount
  BY CallsAssumption DEF QueueInv, RunnerFine, Runners, WaitsThere
<1>3. CASE Begin
  <2>1. <<runner.url, 0>> \in Fetches /\ <<runner.url, runner.left>> \in Fetches
    BY <1>2, FetchesFine
  <2>2. (runner.url \in Hls) \in BOOLEAN
    OBVIOUS
  <2>3. Listing(downloadingList', prefetchUrls')
    BY <1>1, <1>3, <2>1, <2>2, StartSession DEF Begin
  <2> QED BY <2>3 DEF Answered, SessionInv, Listing
<1>4. CASE GiveUp
  <2>1. Listing(downloadingList', prefetchUrls')
    BY <1>1, <1>4, EndItemSession DEF GiveUp, Stop
  <2> QED BY <2>1 DEF Answered, SessionInv, Listing
<1> QED BY <1>3, <1>4 DEF Answered

-----------------------------------------------------------------------------
(* FullInv is an inductive invariant *)

\* The queue is empty at first, nobody fetches.
LEMMA InitFullInv == Init => FullInv
<1> SUFFICES ASSUME Init PROVE FullInv
  OBVIOUS
<1>1. QueueInv
  BY OffFine, CallsAssumption DEF Init, QueueInv, Off, InQueue, QueueSorted, MarkedIsWorkedOn
<1>2. SessionInv
  BY BoundsAssumption DEF Init, SessionInv, Entries
<1> QED BY <1>1, <1>2, InitIInv DEF FullInv

\* Every step of a fetch that settles.
LEMMA SettlingFull ==
    ASSUME FullInv, Settling,
           FetchFails \/ PlaylistFetched \/ SegmentFetched \/ MediaFetched
    PROVE  QueueInv' /\ SessionInv'
<1>1. QueueInv /\ SessionInv /\ Listing(Listed, Tagged)
  BY SettlesSession DEF FullInv
<1>2. /\ runner \in Runners /\ runner.pc \in {"playlist", "variant", "segment", "media"}
      /\ runner.url \in Urls /\ runner.left \in 0..MaxCount
      /\ runner.pc = "segment" => runner.left >= 1
  BY <1>1 DEF Settling, QueueInv, RunnerFine, Runners
<1>3. CASE FetchFails
  <2>1. QueueInv' /\ Listing(downloadingList', prefetchUrls')
    BY <1>1, <1>3, EndItemQueue, EndItemSession DEF FetchFails
  <2> QED BY <1>1, <1>3, <2>1 DEF FetchFails, SessionInv, Listing
<1>4. CASE MediaFetched
  <2>1. QueueInv' /\ Listing(downloadingList', prefetchUrls')
    BY <1>1, <1>4, EndItemQueue, EndItemSession DEF MediaFetched
  <2> QED BY <1>1, <1>4, <2>1 DEF MediaFetched, SessionInv, Listing
<1>5. CASE SegmentFetched
  <2>1. runner.pc = "segment" /\ runner.left - 1 \in 0..MaxCount
    BY <1>2, <1>5, CallsAssumption DEF SegmentFetched
  <2>2. QueueInv' /\ Listing(downloadingList', prefetchUrls')
    BY <1>1, <1>5, <2>1, NextSegmentQueue, NextSegmentSession DEF SegmentFetched
  <2> QED BY <1>1, <1>5, <2>2 DEF SegmentFetched, SessionInv, Listing
<1>6. CASE PlaylistFetched
  <2>1. PICK pc \in {"variant", "registering"} : runner' = [runner EXCEPT !.pc = pc]
    BY <1>6 DEF PlaylistFetched
  <2>2. /\ runner' \in Runners /\ runner'.pc = pc /\ runner'.url = runner.url
        /\ runner'.member = runner.member
    BY <1>2, <2>1 DEF Runners
  <2>3. RunnerFine(runner')
    BY <1>2, <2>2 DEF RunnerFine
  <2>4. QueueInv'
    BY <1>1, <1>2, <1>6, <2>2, <2>3, MovesOn DEF PlaylistFetched
  <2>5. <<runner.url, Variant>> \in Fetches
    BY <1>2, FetchesFine
  <2>6. Listing(downloadingList', prefetchUrls')
    BY <1>1, <1>6, <2>5, StartSession DEF PlaylistFetched
  <2> QED BY <1>1, <1>6, <2>4, <2>6 DEF PlaylistFetched, SessionInv, Listing
<1> QED BY <1>3, <1>4, <1>5, <1>6

\* The prefetch's own steps.
LEMMA RunnerFull ==
    ASSUME FullInv, RunnerStep
    PROVE  QueueInv' /\ SessionInv'
<1>1. QueueInv /\ SessionInv /\ WaitsThere
  BY DEF FullInv, IInv
<1>2. ASSUME NEW ok \in BOOLEAN, runner.wait # "none", Answered(ok)
      PROVE  QueueInv' /\ SessionInv'
  <2>1. QueueInv'
    BY <1>1, <1>2, BeginQueue, GiveUpQueue DEF Answered
  <2> QED BY <1>1, <1>2, <2>1, AnsweredSession
<1>3. CASE Resume
  BY <1>2, <1>3 DEF Resume
<1>4. CASE PollEnds
  <2>1. (~Busy(downloadingList, prefetchUrls)) \in BOOLEAN
    OBVIOUS
  <2> QED BY <1>2, <1>4, <2>1 DEF PollEnds
<1>5. CASE PollAgain
  <2>1. runner' = [runner EXCEPT !.ticks = @ + 1] /\ runner.ticks + 1 < MaxTicks
        /\ runner \in Runners /\ UNCHANGED <<queue, session, calls>>
    BY <1>1, <1>5 DEF PollAgain, QueueInv, RunnerFine
  <2>2. runner.ticks + 1 \in 0..MaxTicks
    BY <2>1, BoundsAssumption DEF Runners
  <2>3. /\ runner' \in Runners /\ runner'.pc = runner.pc /\ runner'.url = runner.url
        /\ runner'.member = runner.member /\ runner'.left = runner.left
    BY <2>1, <2>2 DEF Runners
  <2>4. runner.pc # "off"
    BY <1>1, <1>5 DEF PollAgain, WaitsThere
  <2>5. RunnerFine(runner')
    BY <1>1, <2>3, <2>4 DEF QueueInv, RunnerFine
  <2>6. QueueInv'
    BY <1>1, <2>1, <2>3, <2>5, QueueAlone
  <2> QED BY <1>1, <2>1, <2>6 DEF SessionInv, session
<1>6. CASE Registered
  <2>1. runner.pc = "registering" /\ runner.left \in 0..MaxCount
    BY <1>1, <1>6 DEF Registered, QueueInv, RunnerFine, Runners
  <2>2. PICK left \in 0..runner.left : NextSegment(left, downloadingList, prefetchUrls)
    BY <1>6 DEF Registered
  <2>3. left \in 0..MaxCount /\ Listing(downloadingList, prefetchUrls)
    BY <1>1, <2>1, CallsAssumption DEF SessionInv, Listing
  <2>4. QueueInv' /\ Listing(downloadingList', prefetchUrls')
    BY <1>1, <2>1, <2>2, <2>3, NextSegmentQueue, NextSegmentSession
  <2> QED BY <1>1, <1>6, <2>4 DEF Registered, SessionInv, Listing
<1>7. CASE FetchFails \/ PlaylistFetched \/ SegmentFetched \/ MediaFetched
  BY <1>7, SettlingFull DEF FetchFails, PlaylistFetched, SegmentFetched, MediaFetched
<1> QED BY <1>3, <1>4, <1>5, <1>6, <1>7 DEF RunnerStep

\* The application's and the player's steps.
LEMMA OthersFull ==
    ASSUME FullInv,
           \/ \E list \in Lists, index \in Indices, opts \in Options :
                  SetActiveWindow(list, index, opts)
           \/ EmptyWindow
           \/ \E f \in Fetches : PlayerFetches(f)
           \/ PlayerDone
           \/ CancelAllTask
           \/ UNCHANGED vars
    PROVE  QueueInv' /\ SessionInv'
<1>1. QueueInv /\ SessionInv /\ items \in Seq(Items)
  BY DEF FullInv, QueueInv
<1>2. \A u \in Urlset(items) : u \in Urls
  <2>1. \A i \in DOMAIN items : items[i] \in Items
    BY <1>1
  <2> QED BY <2>1 DEF Urlset, Items
<1>3. {<<u, 0>> : u \in Urlset(items)} \subseteq Fetches
  BY <1>2, CallsAssumption DEF Fetches, Variant
<1>4. calls < MaxCalls /\ calls' = calls + 1 => calls' \in 0..MaxCalls
  BY <1>1, BoundsAssumption DEF SessionInv
<1>5. ASSUME NEW list \in Lists, NEW index \in Indices, NEW opts \in Options,
             SetActiveWindow(list, index, opts)
      PROVE  QueueInv' /\ SessionInv'
  <2>1. {<<u, 0>> : u \in Urlset(items) \ Urlset(items')} \in SUBSET Fetches
    BY <1>3
  <2>2. SessionInv'
    BY <1>1, <1>4, <1>5, <2>1, CancelSession DEF SetActiveWindow
  <2> QED BY <1>1, <1>5, <2>2, EditQueue
<1>6. CASE EmptyWindow
  <2>1. SessionInv'
    BY <1>1, <1>3, <1>4, <1>6, CancelSession DEF EmptyWindow
  <2> QED BY <1>1, <1>6, <2>1, EmptyQueue
<1>7. ASSUME UNCHANGED queue, UNCHANGED runner PROVE QueueInv'
  BY <1>1, <1>7, QueueAlone DEF QueueInv
<1>8. ASSUME NEW f \in Fetches, PlayerFetches(f) PROVE QueueInv' /\ SessionInv'
  BY <1>1, <1>7, <1>8 DEF PlayerFetches, SessionInv, Entries
<1>9. CASE PlayerDone
  BY <1>1, <1>7, <1>9 DEF PlayerDone, SessionInv, Entries
<1>10. CASE CancelAllTask
  <2>1. SessionInv'
    BY <1>1, <1>4, <1>10 DEF CancelAllTask, SessionInv, Entries
  <2> QED BY <1>7, <1>10, <2>1 DEF CancelAllTask
<1>11. CASE UNCHANGED vars
  BY <1>1, <1>7, <1>11 DEF vars, session, SessionInv
<1> QED BY <1>5, <1>6, <1>8, <1>9, <1>10, <1>11

\* FullInv is inductive.
LEMMA NextFullInv == FullInv /\ [Next]_vars => FullInv'
<1> SUFFICES ASSUME FullInv, [Next]_vars PROVE FullInv'
  OBVIOUS
<1>1. IInv'
  BY NextIInv DEF FullInv
<1>2. QueueInv' /\ SessionInv'
  <2>1. CASE RunnerStep
    BY <2>1, RunnerFull
  <2>2. CASE ~RunnerStep
    BY <2>2, OthersFull DEF Next
  <2> QED BY <2>1, <2>2
<1> QED BY <1>1, <1>2 DEF FullInv

\* FullInv holds in every reachable state.
LEMMA FullInvariant == Spec => []FullInv
<1>1. Init => FullInv
  BY InitFullInv
<1>2. FullInv /\ [Next]_vars => FullInv'
  BY NextFullInv
<1> QED BY <1>1, <1>2, PTL DEF Spec

-----------------------------------------------------------------------------
(* The queue and the runner agree *)

\* The types of the queue, the runner's locals and the session's bookkeeping, whatever is
\* asked of the window, played and cancelled: in particular that the segments left to
\* fetch never fall below zero (prefetchHlsAsset's loop) nor the polls exceed their limit.
THEOREM TypeTheorem == Spec => []TypeOK
<1>1. FullInv => TypeOK
  BY DEF FullInv, QueueInv, SessionInv, RunnerFine, Entries, TypeOK
<1> QED BY <1>1, FullInvariant, PTL

\* The queue is in ascending order of distance and holds each URL once, after any edits of
\* the window and any items taken out between them (setActiveWindow, drain).
THEOREM SortedTheorem == Spec => []QueueSorted
<1>1. FullInv => QueueSorted
  BY DEF FullInv, QueueInv
<1> QED BY <1>1, FullInvariant, PTL

\* An item is marked downloading exactly while the runner works on it: no edit of the
\* window, no failure and no cancel leaves an item marked that nobody will finish, or
\* unmarked for a second fetch (setActiveWindow, drain).
THEOREM MarkedTheorem == Spec => []MarkedIsWorkedOn
<1>1. FullInv => MarkedIsWorkedOn
  BY DEF FullInv, QueueInv
<1> QED BY <1>1, FullInvariant, PTL
=============================================================================
