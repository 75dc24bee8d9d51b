------------------------- MODULE EvictionPolicyProofs -------------------------
(***************************************************************************)
(* Theorems about EvictionPolicy, for any assets, sizes, counts and limits *)
(* and any number of calls.                                                *)
(*                                                                         *)
(* The argument for GetKeepsItsEntry: a turn of the loop that runs before  *)
(* a caller's continuation is one the caller set off (OwnLoop), and that   *)
(* loop never takes the key that triggered it.                             *)
(*                                                                         *)
(* The argument for EndsFittingOrGivenUp: the running total of a run that  *)
(* nothing interfered with is what the entries sum up to, plus what it     *)
(* awaits to be unlinked (TotalInv).  The sum is taken as the number of    *)
(* pairs <<entry, i>> with i up to the entry's bytes (Cells), so that      *)
(* taking an entry out is taking a subset out.                             *)
(***************************************************************************)
EXTENDS EvictionPolicy, FiniteSetTheorems, FunctionTheorems, TLAPS

\* The caller's key is an asset; the callback that counts again has not counted yet.
Continuing ==
    /\ pending.step = "none" <=> pending = NoCall
    /\ pending.step # "none" => pending.key \in Keys
    /\ pending.step = "read" =>
          /\ loop.at # "select"
          /\ pending.key \in DOMAIN freq => freq[pending.key] < MaxFreq

OwnLoop == loop.at = "select" => pending = NoCall \/ loop.trigger = pending.key

IInv == TypeOK /\ Continuing /\ OwnLoop /\ GetKeepsItsEntry

-----------------------------------------------------------------------------
(* Maps of the registry *)

Sizes == PartialFns(Keys, 0 .. MaxBytes)
Counts == PartialFns(Keys, 0 .. MaxFreq)

\* A partial function is a function on a part of the keys.
LEMMA PartialFnsAre ==
  ASSUME NEW S, NEW T, NEW f
  PROVE  f \in PartialFns(S, T) <=> DOMAIN f \subseteq S /\ f \in [DOMAIN f -> T]
  BY DEF PartialFns

\* Taking keys out, or putting one in, leaves a map a map.
LEMMA RestrictMap ==
  ASSUME NEW T, NEW f \in PartialFns(Keys, T), NEW S
  PROVE  /\ Restrict(f, DOMAIN f \intersect S) \in PartialFns(Keys, T)
         /\ DOMAIN Restrict(f, DOMAIN f \intersect S) = DOMAIN f \intersect S
<1>1. DOMAIN f \subseteq Keys /\ f \in [DOMAIN f -> T]
  BY PartialFnsAre
<1> QED
  BY <1>1, PartialFnsAre DEF Restrict

\* Setting and deleting a key of the registry.
LEMMA SizesEdits ==
  ASSUME NEW f \in Sizes, NEW k
  PROVE  /\ Without(f, k) \in Sizes /\ DOMAIN Without(f, k) = DOMAIN f \ {k}
         /\ k \in Keys => \A v \in 0 .. MaxBytes :
                With(f, k, v) \in Sizes /\ DOMAIN With(f, k, v) = DOMAIN f \union {k}
<1>1. DOMAIN f \subseteq Keys /\ f \in [DOMAIN f -> 0 .. MaxBytes]
  BY PartialFnsAre DEF Sizes
<1>2. Without(f, k) \in Sizes /\ DOMAIN Without(f, k) = DOMAIN f \ {k}
  BY <1>1, PartialFnsAre DEF Without, Restrict, Sizes
<1>3. ASSUME k \in Keys, NEW v \in 0 .. MaxBytes
      PROVE  With(f, k, v) \in Sizes /\ DOMAIN With(f, k, v) = DOMAIN f \union {k}
  <2>1. With(f, k, v) \in [DOMAIN f \union {k} -> 0 .. MaxBytes]
    BY <1>1, <1>3 DEF With
  <2> QED
    BY <1>1, <1>3, <2>1, PartialFnsAre DEF Sizes
<1> QED
  BY <1>2, <1>3

\* Setting and deleting a key of the counts.
LEMMA CountsEdits ==
  ASSUME NEW f \in Counts, NEW k
  PROVE  /\ Without(f, k) \in Counts /\ DOMAIN Without(f, k) = DOMAIN f \ {k}
         /\ k \in Keys => \A v \in 0 .. MaxFreq :
                With(f, k, v) \in Counts /\ DOMAIN With(f, k, v) = DOMAIN f \union {k}
<1>1. DOMAIN f \subseteq Keys /\ f \in [DOMAIN f -> 0 .. MaxFreq]
  BY PartialFnsAre DEF Counts
<1>2. Without(f, k) \in Counts /\ DOMAIN Without(f, k) = DOMAIN f \ {k}
  BY <1>1, PartialFnsAre DEF Without, Restrict, Counts
<1>3. ASSUME k \in Keys, NEW v \in 0 .. MaxFreq
      PROVE  With(f, k, v) \in Counts /\ DOMAIN With(f, k, v) = DOMAIN f \union {k}
  <2>1. With(f, k, v) \in [DOMAIN f \union {k} -> 0 .. MaxFreq]
    BY <1>1, <1>3 DEF With
  <2> QED
    BY <1>1, <1>3, <2>1, PartialFnsAre DEF Counts
<1> QED
  BY <1>2, <1>3

\* The empty Map, of any type.
LEMMA EmptyIsMap ==
  ASSUME NEW T
  PROVE  Empty \in PartialFns(Keys, T) /\ DOMAIN Empty = {}
<1>1. DOMAIN Empty = {} /\ Empty \in [{} -> T]
  BY DEF Empty
<1> QED
  BY <1>1, PartialFnsAre

\* A loop that is over, and one that begins.
LEMMA NoLoopTyped ==
  /\ NoLoop \in Loops /\ NoLoop.at = "idle"
  /\ \A k \in Keys : /\ [NoLoop EXCEPT !.at = "select", !.trigger = k] \in Loops
                     /\ [NoLoop EXCEPT !.at = "select", !.trigger = k].at = "select"
                     /\ [NoLoop EXCEPT !.at = "select", !.trigger = k].trigger = k
  BY DEF NoLoop, Loops

\* The count of an access is in bounds where its caller says so.
LEMMA TouchedTyped ==
  ASSUME TypeOK, NEW k \in Keys, k \in DOMAIN freq => freq[k] < MaxFreq
  PROVE  Touched(k) \in Counts
<1>0. freq \in Counts /\ freq \in [DOMAIN freq -> 0 .. MaxFreq]
  BY PartialFnsAre DEF TypeOK, Counts
<1>1. freq \in Counts /\ \A j \in DOMAIN freq : freq[j] \in 0 .. MaxFreq
  BY <1>0
<1>2. (IF k \in DOMAIN freq THEN freq[k] + 1 ELSE 0) \in 0 .. MaxFreq
  BY <1>1, CapacityAssumption
<1> QED
  BY <1>1, <1>2, CountsEdits DEF Touched

-----------------------------------------------------------------------------
(* onEvict *)

\* What onEvict leaves to its caller: LFUPolicy moves a victim from the registry to the
\* unlinks, LFUSizePolicy begins a loop of this trigger unless it is in one.
LEMMA OnEvictDoes ==
  ASSUME TypeOK, NEW k \in Keys, NEW f \in Counts, OnEvict(k, f)
  PROVE  /\ cache' \in Sizes /\ freq' \in Counts /\ loop' \in Loops
         /\ isEvicting' = (loop'.at # "idle")
         /\ unlinking' \subseteq Keys
         /\ policy # "LFU" => UNCHANGED <<cache, unlinking>>
         /\ loop' = loop \/ loop'.trigger = k
<1>0. cache \in Sizes /\ freq \in Counts /\ loop \in Loops /\ isEvicting = (loop.at # "idle")
      /\ unlinking \subseteq Keys
  BY DEF TypeOK, Sizes, Counts
<1>1. CASE policy = "LFUSize"
  <2>1. BeginLoop(k) /\ freq' = f /\ UNCHANGED <<cache, unlinking>>
    BY <1>1 DEF OnEvict
  <2>2. CASE isEvicting
    BY <1>0, <2>1, <2>2 DEF BeginLoop, mutex
  <2>3. CASE ~isEvicting
    <3>1. isEvicting' = TRUE /\ loop' = [NoLoop EXCEPT !.at = "select", !.trigger = k]
      BY <2>1, <2>3 DEF BeginLoop
    <3> QED
      BY <1>0, <2>1, <3>1, NoLoopTyped
  <2> QED
    BY <2>2, <2>3
<1>2. CASE policy = "LFU"
  <2>1. EvictByCount(f) /\ UNCHANGED <<mutex, loop>>
    BY <1>2 DEF OnEvict
  <2>2. CASE freq' = f /\ UNCHANGED <<cache, unlinking>>
    BY <1>0, <2>1, <2>2 DEF mutex
  <2>3. CASE \E v \in DOMAIN cache :
                /\ cache' = Without(cache, v)
                /\ freq' = Without(Restrict(f, DOMAIN f \intersect DOMAIN cache), v)
                /\ unlinking' = unlinking \union {v}
    <3>1. PICK v \in DOMAIN cache :
                /\ cache' = Without(cache, v)
                /\ freq' = Without(Restrict(f, DOMAIN f \intersect DOMAIN cache), v)
                /\ unlinking' = unlinking \union {v}
      BY <2>3
    <3>2. v \in Keys
      BY <1>0, PartialFnsAre DEF Sizes
    <3>3. cache' \in Sizes /\ DOMAIN cache' = DOMAIN cache \ {v}
      BY <1>0, <3>1, SizesEdits
    <3>4. Restrict(f, DOMAIN f \intersect DOMAIN cache) \in Counts
      BY RestrictMap DEF Counts
    <3>5. freq' \in Counts
      BY <3>1, <3>4, CountsEdits
    <3> QED
      BY <1>0, <1>2, <2>1, <3>1, <3>2, <3>3, <3>5 DEF mutex
  <2>4. ASSUME NEW v \in LeastUsed(Restrict(f, DOMAIN f \intersect DOMAIN cache), {})
        PROVE  v \in DOMAIN cache
    <3>1. \A g : LeastUsed(g, {}) \subseteq DOMAIN g
      BY DEF LeastUsed
    <3>2. DOMAIN Restrict(f, DOMAIN f \intersect DOMAIN cache) = DOMAIN f \intersect DOMAIN cache
      BY DEF Restrict
    <3> QED
      BY <2>4, <3>1, <3>2
  <2> QED
    BY <2>1, <2>2, <2>3, <2>4 DEF EvictByCount
<1>3. CASE policy = "Free"
  BY <1>0, <1>3 DEF OnEvict, mutex
<1> QED
  BY <1>1, <1>2, <1>3 DEF OnEvict

-----------------------------------------------------------------------------
(* The loop *)

\* A candidate is a tracked key or an entry, and never the trigger.
LEMMA CandidateIs ==
  ASSUME TypeOK, NEW k \in Keys, Candidate(k)
  PROVE  loop.at = "select" /\ k # loop.trigger
  BY DEF Candidate, Candidates, LeastUsed

\* The loop ends.
LEMMA EndRunTyped ==
  ASSUME TypeOK, EndRun
  PROVE  loop' \in Loops /\ loop'.at = "idle" /\ isEvicting' = (loop'.at # "idle")
         /\ held' \in Sizes
  BY NoLoopTyped, EmptyIsMap DEF EndRun, Sizes

\* Every turn of the loop of LFUSizePolicy keeps IInv.
LEMMA LoopInv ==
  ASSUME IInv, EndLoop \/ \E k \in Keys : SkipStale(k) \/ SkipBusy(k) \/ Evict(k)
  PROVE  IInv'
<1> USE DEF IInv
<1>0. /\ cache \in Sizes /\ freq \in Counts /\ held \in Sizes /\ loop \in Loops
      /\ isEvicting = (loop.at # "idle") /\ loop.at = "select"
  BY CandidateIs DEF TypeOK, Sizes, Counts, EndLoop, SkipStale, SkipBusy, Evict
<1>1. pending.step # "read" /\ UNCHANGED <<pending, ops, policy, busy, asks>>
  BY <1>0 DEF Continuing, EndLoop, SkipStale, SkipBusy, Evict, registry, disk
<1>2. CASE EndLoop
  <2>1. UNCHANGED <<cache, freq, unlinking>>
    BY <1>2 DEF EndLoop, registry, disk
  <2>2. loop' \in Loops /\ loop'.at = "idle" /\ isEvicting' = (loop'.at # "idle") /\ held' \in Sizes
    BY <1>2, EndRunTyped DEF EndLoop
  <2>3. TypeOK'
    BY <1>1, <2>1, <2>2 DEF TypeOK, Sizes
  <2> QED
    BY <1>1, <2>1, <2>2, <2>3 DEF Continuing, OwnLoop, GetKeepsItsEntry
<1>3. ASSUME NEW k \in Keys, SkipStale(k) \/ SkipBusy(k)
      PROVE  IInv'
  <2>1. UNCHANGED <<cache, unlinking, held, isEvicting>> /\ freq' \in Counts
    <3>1. Without(freq, k) \in Counts
      BY <1>0, RestrictMap, CountsEdits DEF Counts
    <3>2. freq' = freq \/ freq' = Without(freq, k)
      BY <1>3 DEF SkipStale, SkipBusy, registry
    <3> QED
      BY <1>0, <1>3, <3>1, <3>2 DEF SkipStale, SkipBusy, registry, disk, mutex
  <2>2. loop' \in Loops /\ loop'.at = loop.at /\ loop'.trigger = loop.trigger
    <3>1. loop.count \in Nat /\ Turn \in Nat
      BY <1>0 DEF Loops, Turn
    <3>2. loop.skipped \union {k} \in SUBSET Keys
      BY <1>0 DEF Loops
    <3>3. CASE SkipStale(k)
      BY <1>0, <3>1, <3>3 DEF SkipStale, Loops
    <3>4. CASE SkipBusy(k)
      BY <1>0, <3>1, <3>2, <3>4 DEF SkipBusy, Loops
    <3> QED
      BY <1>3, <3>3, <3>4
  <2>3. TypeOK'
    BY <1>1, <2>1, <2>2 DEF TypeOK, Counts
  <2> QED
    BY <1>1, <2>1, <2>2, <2>3 DEF Continuing, OwnLoop, GetKeepsItsEntry
<1>4. ASSUME NEW k \in Keys, Evict(k)
      PROVE  IInv'
  <2>1. freq' \in Counts /\ UNCHANGED isEvicting /\ unlinking' = unlinking \union {k}
    BY <1>0, <1>4, CountsEdits DEF Evict, mutex
  <2>2. loop' \in Loops /\ loop'.at = "unlink"
    <3>1. Turn \in Nat
      BY <1>0 DEF Loops, Turn
    <3>2. Map[k] \in Nat
      <4>1. Map \in Sizes /\ k \in DOMAIN Map
        BY <1>0, <1>4 DEF Evict, Map
      <4>2. Map \in [DOMAIN Map -> 0 .. MaxBytes]
        BY <4>1, PartialFnsAre DEF Sizes
      <4> QED
        BY <4>1, <4>2, CapacityAssumption
    <3> QED
      BY <1>0, <1>4, <3>1, <3>2 DEF Evict, Loops
  <2>3. /\ cache' \in Sizes /\ held' \in Sizes
        /\ DOMAIN cache' = DOMAIN cache \/ DOMAIN cache' = DOMAIN cache \ {k}
    <3>1. /\ Without(cache, k) \in Sizes /\ DOMAIN Without(cache, k) = DOMAIN cache \ {k}
          /\ Without(held, k) \in Sizes
      BY <1>0, SizesEdits
    <3>2. \/ cache' = Without(cache, k) /\ held' = held
          \/ held' = Without(held, k) /\ cache' = cache
      BY <1>4 DEF Evict
    <3> QED
      BY <1>0, <3>1, <3>2
  <2>4. k # loop.trigger
    BY <1>4, CandidateIs DEF Evict
  <2>5. TypeOK'
    BY <1>0, <1>1, <2>1, <2>2, <2>3 DEF TypeOK, Sizes, Counts
  <2>6. Continuing' /\ OwnLoop'
    BY <1>1, <2>1, <2>2, <2>3 DEF Continuing, OwnLoop
  <2>7. GetKeepsItsEntry'
    <3>1. pending # NoCall => loop.trigger = pending.key
      BY <1>0 DEF OwnLoop
    <3>2. NoCall.had = FALSE
      BY DEF NoCall
    <3> QED
      BY <1>1, <2>3, <2>4, <3>1, <3>2 DEF GetKeepsItsEntry
  <2> QED
    BY <2>5, <2>6, <2>7
<1> QED
  BY <1>2, <1>3, <1>4

-----------------------------------------------------------------------------
(* The environment *)

\* Between callbacks no call is under way.
LEMMA IdleHas ==
  ASSUME Idle
  PROVE  /\ pending = NoCall /\ pending.step = "none" /\ pending.had = FALSE
         /\ loop.at # "select"
  BY DEF Idle, NoCall

\* Unlinks and changes of what is in use keep IInv.
LEMMA FilesInv ==
  ASSUME IInv, \E k \in Keys : Unlinked(k) \/ UnlinkRejects(k) \/ Hold(k)
  PROVE  IInv'
<1>0. /\ Idle /\ UNCHANGED <<policy, cache, freq, asks, pending>> /\ loop \in Loops
      /\ isEvicting = (loop.at # "idle") /\ ops' \in 0 .. MaxOps
  BY BoundsAssumption DEF IInv, TypeOK, Unlinked, UnlinkRejects, Hold, Call, registry
<1>1. pending.step = "none" /\ pending = NoCall /\ loop.at # "select"
  BY <1>0, IdleHas
<1>2. busy' \subseteq Keys /\ unlinking' \subseteq Keys
  BY DEF IInv, TypeOK, Unlinked, UnlinkRejects, Hold
<1>3. loop' \in Loops /\ isEvicting' = (loop'.at # "idle") /\ held' \in Sizes
  <2>1. held \in Sizes
    BY DEF IInv, TypeOK, Sizes
  <2>2. CASE UNCHANGED <<loop, isEvicting, held>>
    BY <1>0, <2>1, <2>2
  <2>3. CASE EndRun
    BY <2>3, EndRunTyped DEF IInv
  <2>4. CASE /\ loop' = [loop EXCEPT !.at = "select", !.victim = None, !.bytes = 0]
             /\ loop.at = "unlink" /\ UNCHANGED <<isEvicting, held>>
    BY <1>0, <2>1, <2>4 DEF Loops
  <2> QED
    BY <2>2, <2>3, <2>4 DEF Unlinked, UnlinkRejects, Hold, mutex
<1>6. TypeOK'
  BY <1>0, <1>2, <1>3 DEF IInv, TypeOK, Sizes
<1>7. Continuing' /\ OwnLoop' /\ GetKeepsItsEntry'
  BY <1>0, <1>1 DEF IInv, Continuing, OwnLoop, GetKeepsItsEntry
<1> QED
  BY <1>6, <1>7 DEF IInv

-----------------------------------------------------------------------------
(* The callers *)

Asked == SUBSET (Keys \X Lookers \X Stages)

\* A call of k with the counts f: what every onEvict keeps.
LEMMA GetKeeps ==
  ASSUME IInv, NEW k \in Keys, NEW f \in Counts, OnEvict(k, f), ops' \in 0 .. MaxOps,
         loop.at # "select", asks' \in Asked, UNCHANGED <<policy, busy, held>>,
         NEW step \in Steps \ {"none", "read"}, NEW had \in BOOLEAN,
         pending' = [key |-> k, step |-> step, had |-> had],
         had => policy = "LFU" \/ k \in DOMAIN cache
  PROVE  IInv'
<1>1. /\ cache' \in Sizes /\ freq' \in Counts /\ loop' \in Loops
      /\ isEvicting' = (loop'.at # "idle")
      /\ unlinking' \subseteq Keys
      /\ policy # "LFU" => UNCHANGED <<cache, unlinking>>
      /\ loop' = loop \/ loop'.trigger = k
  BY OnEvictDoes DEF IInv
<1>2. pending' \in Calls /\ pending'.key = k /\ pending'.step = step /\ pending'.had = had
  BY DEF Calls
<1>3. TypeOK'
  BY <1>1, <1>2 DEF IInv, TypeOK, Sizes, Counts, Asked
<1>4. Continuing'
  BY <1>2 DEF Continuing, NoCall
<1>6. OwnLoop' /\ GetKeepsItsEntry'
  BY <1>1, <1>2 DEF OwnLoop, GetKeepsItsEntry
<1> QED
  BY <1>3, <1>4, <1>6 DEF IInv

\* A call up to its hand-over to the policy keeps IInv.
LEMMA GetInv ==
  ASSUME IInv, NEW k \in Keys, \/ Read(k) \/ Ingest(k) \/ IngestSegment(k) \/ GoOn(k)
                               \/ \E who \in Lookers : LookUp(k, who)
  PROVE  IInv'
<1>0. PICK step \in Steps \ {"none", "read"} : Get(k, step)
  BY DEF Read, Ingest, IngestSegment, GoOn, LookUp, Steps, Lookers
<1>1. Idle /\ ops' \in 0 .. MaxOps
  BY BoundsAssumption DEF Read, Ingest, IngestSegment, GoOn, LookUp, Call, IInv, TypeOK
<1>2. asks' \in Asked
  BY DEF Read, Ingest, IngestSegment, GoOn, LookUp, IInv, TypeOK, Asked
<1>3. /\ OnEvict(k, Touched(k)) /\ (k \in DOMAIN freq => freq[k] < MaxFreq)
      /\ pending' = [key |-> k, step |-> step, had |-> k \in DOMAIN cache]
      /\ UNCHANGED <<policy, busy, held>>
  BY <1>0 DEF Get
<1>4. Touched(k) \in Counts
  BY <1>3, TouchedTyped DEF IInv
<1>5. loop.at # "select" /\ (k \in DOMAIN cache) \in BOOLEAN
  BY <1>1, IdleHas
<1> QED
  BY <1>1, <1>2, <1>3, <1>4, <1>5, GetKeeps

\* An edit of the registry marks a waiting loop as interfered with, and moves it nowhere.
LEMMA InterfereTyped ==
  ASSUME TypeOK, Interfere
  PROVE  loop' \in Loops /\ loop'.at = loop.at /\ loop'.trigger = loop.trigger
<1>1. loop \in Loops
  BY DEF TypeOK
<1>2. loop' = [loop EXCEPT !.alone = (loop.at = "idle")] /\ (loop.at = "idle") \in BOOLEAN
  BY DEF Interfere
<1> QED
  BY <1>1, <1>2 DEF Loops

\* An edit between callbacks, or at the end of one, keeps IInv if it leaves no call behind.
LEMMA CallEnds ==
  ASSUME TypeOK, pending' = NoCall, cache' \in Sizes, freq' \in Counts, asks' \in Asked,
         loop' \in Loops, loop'.at = loop.at, UNCHANGED <<policy, busy, isEvicting, held>>,
         ops' \in 0 .. MaxOps, unlinking' \subseteq Keys
  PROVE  IInv'
<1>1. pending' \in Calls /\ pending'.step = "none" /\ pending'.had = FALSE
  BY DEF NoCall, Calls, Steps
<1>2. TypeOK'
  BY <1>1 DEF TypeOK, Sizes, Counts, Asked
<1>3. Continuing' /\ OwnLoop' /\ GetKeepsItsEntry'
  BY <1>1 DEF Continuing, OwnLoop, GetKeepsItsEntry
<1> QED
  BY <1>2, <1>3 DEF IInv

\* A look-up that was answered is done, or at another of its stages.
LEMMA AnsweredTyped ==
  ASSUME TypeOK, NEW k \in Keys, NEW who \in Lookers, NEW about, NEW outcome \in Stages,
         Answered(k, who, about, outcome)
  PROVE  asks' \in Asked
<1>1. asks \in Asked
  BY DEF TypeOK, Asked
<1>2. <<k, who, outcome>> \in Keys \X Lookers \X Stages
  OBVIOUS
<1>3. asks' \subseteq asks \union {<<k, who, outcome>>}
  <2>1. asks' = (asks \ {<<k, who, about>>})
                   \union (IF who = "removal" THEN {<<k, who, outcome>>} ELSE {})
    BY DEF Answered
  <2> QED
    BY <2>1, Zenon
<1> QED
  BY <1>1, <1>2, <1>3 DEF Asked

\* The answers of the file system to a look-up, and a new entry set by the pre-cache.
LEMMA AnswerInv ==
  ASSUME IInv, NEW k \in Keys,
         \/ Signal(k)
         \/ \E who \in Lookers : Kept(k, who) \/ Missing(k, who) \/ Found(k, who)
  PROVE  IInv'
<1>0. /\ cache \in Sizes /\ freq \in Counts /\ asks \in Asked /\ loop \in Loops
      /\ unlinking \subseteq Keys /\ ops \in 0 .. MaxOps /\ Idle
      /\ 0 \in 0 .. MaxBytes
  <2>1. /\ cache \in Sizes /\ freq \in Counts /\ asks \in Asked /\ loop \in Loops
        /\ unlinking \subseteq Keys /\ ops \in 0 .. MaxOps
    BY DEF IInv, TypeOK, Sizes, Counts, Asked
  <2>2. Idle
    BY DEF Signal, Kept, Missing, Found, Call
  <2> QED
    BY <2>1, <2>2, CapacityAssumption
<1>1. pending = NoCall /\ loop.at # "select"
  BY <1>0, IdleHas
<1>2. /\ With(cache, k, 0) \in Sizes /\ DOMAIN With(cache, k, 0) = DOMAIN cache \union {k}
      /\ Without(cache, k) \in Sizes /\ Without(freq, k) \in Counts
  <2>1. /\ With(cache, k, 0) \in Sizes /\ DOMAIN With(cache, k, 0) = DOMAIN cache \union {k}
        /\ Without(cache, k) \in Sizes
    BY <1>0, SizesEdits
  <2>2. Without(freq, k) \in Counts
    BY <1>0, CountsEdits
  <2> QED
    BY <2>1, <2>2
<1>3. CASE Signal(k)
  <2>1. /\ cache' = With(cache, k, 0) /\ Interfere /\ ops' \in 0 .. MaxOps
        /\ UNCHANGED <<policy, freq, busy, unlinking, asks, isEvicting, held, pending>>
    BY <1>3, BoundsAssumption DEF Signal, Call, disk, mutex, IInv, TypeOK
  <2> QED
    BY <1>0, <1>1, <1>2, <2>1, InterfereTyped, CallEnds DEF IInv
<1>4. ASSUME NEW who \in Lookers, Kept(k, who) PROVE IInv'
  <2>1. asks' \in Asked
    BY <1>4, AnsweredTyped DEF Kept, IInv, Stages
  <2>2. UNCHANGED <<policy, cache, freq, busy, unlinking, isEvicting, loop, held, pending, ops>>
    BY <1>4 DEF Kept, registry, mutex
  <2> QED
    BY <1>0, <1>1, <2>1, <2>2, CallEnds DEF IInv
<1>5. ASSUME NEW who \in Lookers, Missing(k, who) PROVE IInv'
  <2>1. asks' \in Asked
    BY <1>5, AnsweredTyped DEF Missing, IInv, Stages
  <2>2. /\ cache' = Without(cache, k) /\ freq' = Without(freq, k) /\ Interfere
        /\ UNCHANGED <<policy, busy, unlinking, isEvicting, held, pending, ops>>
    BY <1>5 DEF Missing, Drop, mutex
  <2> QED
    BY <1>0, <1>1, <1>2, <2>1, <2>2, InterfereTyped, CallEnds DEF IInv
<1>6. ASSUME NEW who \in Lookers, Found(k, who) PROVE IInv'
  <2>1. asks' \in Asked
    BY <1>6, AnsweredTyped DEF Found, IInv, Stages
  <2>2. /\ cache' = With(cache, k, 0) /\ Interfere /\ (k \in DOMAIN freq => freq[k] < MaxFreq)
        /\ pending' = [key |-> k, step |-> "read", had |-> TRUE]
        /\ UNCHANGED <<policy, freq, busy, unlinking, isEvicting, held, ops>>
    BY <1>6 DEF Found, mutex
  <2>3. loop' \in Loops /\ loop'.at = loop.at
    BY <2>2, InterfereTyped DEF IInv
  <2>4. pending' \in Calls /\ pending'.key = k /\ pending'.step = "read"
    BY <2>2 DEF Calls, Steps
  <2>5. TypeOK'
    BY <1>0, <1>2, <2>1, <2>2, <2>3, <2>4 DEF IInv, TypeOK, Sizes, Asked
  <2>6. Continuing'
    BY <1>1, <2>2, <2>3, <2>4 DEF Continuing, NoCall
  <2>7. OwnLoop' /\ GetKeepsItsEntry'
    BY <1>1, <1>2, <2>2, <2>3, <2>4 DEF OwnLoop, GetKeepsItsEntry
  <2> QED
    BY <2>5, <2>6, <2>7 DEF IInv
<1> QED
  BY <1>3, <1>4, <1>5, <1>6

\* Setting the bytes of a registered entry leaves it registered.
LEMMA EntrySet ==
  ASSUME NEW f \in Sizes, NEW k \in DOMAIN f, NEW b \in 0 .. MaxBytes
  PROVE  [f EXCEPT ![k] = b] \in Sizes
<1>1. DOMAIN f \subseteq Keys /\ f \in [DOMAIN f -> 0 .. MaxBytes]
  BY PartialFnsAre DEF Sizes
<1>2. [f EXCEPT ![k] = b] \in [DOMAIN f -> 0 .. MaxBytes]
  BY <1>1
<1> QED
  BY <1>1, <1>2, PartialFnsAre DEF Sizes

\* The rest of a call after the policy returned keeps IInv.
LEMMA ContinueInv ==
  ASSUME IInv, Return \/ ReadAgain \/ Put \/ PutNew \/ AppendSegment \/ Ask \/ FinishRemove
  PROVE  IInv'
<1> DEFINE k == pending.key
<1>0. /\ cache \in Sizes /\ freq \in Counts /\ loop \in Loops /\ unlinking \subseteq Keys
      /\ asks \in Asked /\ ops \in 0 .. MaxOps /\ pending \in Calls /\ pending.had \in BOOLEAN
  BY DEF IInv, TypeOK, Sizes, Counts, Calls, Asked
<1>00. loop.at # "select" /\ pending.step # "none"
  BY DEF Return, ReadAgain, Put, PutNew, AppendSegment, Ask, FinishRemove, Called, Lookers
<1>01. k \in Keys
  BY <1>00 DEF IInv, Continuing
<1>1. CASE Return
  <2>1. UNCHANGED <<policy, cache, freq, loop, unlinking, busy, asks, isEvicting, held, ops>>
        /\ pending' = NoCall
    BY <1>1 DEF Return, registry, disk, mutex
  <2> QED
    BY <1>0, <2>1, CallEnds DEF IInv
<1>2. CASE ReadAgain
  <2>1. Touched(k) \in Counts
    BY <1>01, <1>2, TouchedTyped DEF IInv, Continuing, ReadAgain, Called
  <2>2. pending' = [key |-> k, step |-> "return", had |-> pending.had]
    BY <1>0, <1>2 DEF ReadAgain, Calls
  <2>3. OnEvict(k, Touched(k)) /\ UNCHANGED <<policy, busy, asks, held, ops>>
    BY <1>2 DEF ReadAgain
  <2>4. pending.had => policy = "LFU" \/ k \in DOMAIN cache
    BY DEF IInv, GetKeepsItsEntry
  <2> QED
    BY <1>0, <1>00, <1>01, <2>1, <2>2, <2>3, <2>4, GetKeeps DEF Steps
<1>3. CASE Put
  <2>1. CASE k \in DOMAIN cache
    <3>1. PICK b \in 0 .. MaxBytes : cache' = [cache EXCEPT ![k] = b]
      BY <1>3, <2>1 DEF Put
    <3>2. cache' \in Sizes
      BY <1>0, <2>1, <3>1, EntrySet
    <3>3. loop' \in Loops /\ loop'.at = loop.at /\ pending' = NoCall
          /\ UNCHANGED <<freq, unlinking, isEvicting, policy, busy, asks, held, ops>>
      BY <1>3, <2>1, InterfereTyped DEF IInv, Put, mutex
    <3> QED
      BY <1>0, <3>2, <3>3, CallEnds DEF IInv
  <2>2. CASE k \notin DOMAIN cache
    <3>1. (IF policy = "Free" THEN freq ELSE With(freq, k, 0)) \in Counts
      <4>1. 0 \in 0 .. MaxFreq
        BY CapacityAssumption
      <4>2. With(freq, k, 0) \in Counts
        BY <1>0, <1>01, <4>1, CountsEdits
      <4> QED
        BY <1>0, <4>2
    <3>2. OnEvict(k, IF policy = "Free" THEN freq ELSE With(freq, k, 0))
          /\ UNCHANGED <<policy, busy, asks, held, ops>>
      BY <1>3, <2>2 DEF Put
    <3>3. pending' = [key |-> k, step |-> "set", had |-> pending.had]
      BY <1>0, <1>3, <2>2 DEF Put, Calls
    <3>4. pending.had => policy = "LFU" \/ k \in DOMAIN cache
      BY DEF IInv, GetKeepsItsEntry
    <3> QED
      BY <1>0, <1>00, <1>01, <3>1, <3>2, <3>3, <3>4, GetKeeps DEF Steps
  <2> QED
    BY <2>1, <2>2
<1>4. CASE PutNew
  <2>1. PICK b \in 0 .. MaxBytes : cache' = With(cache, k, b)
    BY <1>4 DEF PutNew
  <2>2. cache' \in Sizes
    BY <1>0, <1>01, <2>1, SizesEdits
  <2>3. loop' \in Loops /\ loop'.at = loop.at /\ pending' = NoCall
        /\ UNCHANGED <<freq, unlinking, isEvicting, policy, busy, asks, held, ops>>
    BY <1>4, InterfereTyped DEF IInv, PutNew, mutex, disk
  <2> QED
    BY <1>0, <2>2, <2>3, CallEnds DEF IInv
<1>5. CASE AppendSegment
  <2>1. /\ pending' = NoCall
        /\ UNCHANGED <<freq, unlinking, isEvicting, policy, busy, asks, held, ops>>
    BY <1>5 DEF AppendSegment, disk, mutex
  <2>2. cache' \in Sizes /\ loop' \in Loops /\ loop'.at = loop.at
    <3>1. CASE k \in DOMAIN cache
      <4>1. PICK b \in cache[k] .. MaxBytes : cache' = [cache EXCEPT ![k] = b]
        BY <1>5, <3>1 DEF AppendSegment
      <4>2. cache[k] \in 0 .. MaxBytes
        <5>1. cache \in [DOMAIN cache -> 0 .. MaxBytes]
          BY <1>0, PartialFnsAre DEF Sizes
        <5> QED
          BY <3>1, <5>1
      <4>3. b \in 0 .. MaxBytes
        BY <4>2, CapacityAssumption
      <4> QED
        BY <1>0, <1>5, <3>1, <4>1, <4>3, EntrySet, InterfereTyped DEF IInv, AppendSegment
    <3>2. CASE k \notin DOMAIN cache
      BY <1>0, <1>5, <3>2 DEF AppendSegment
    <3> QED
      BY <3>1, <3>2
  <2> QED
    BY <1>0, <2>1, <2>2, CallEnds DEF IInv
<1>6. CASE Ask
  <2>1. /\ pending' = NoCall
        /\ UNCHANGED <<policy, cache, freq, unlinking, isEvicting, busy, loop, held, ops>>
    BY <1>6 DEF Ask, registry, mutex
  <2>2. asks' \in Asked
    BY <1>0, <1>01, <1>6 DEF Ask, Asked, Stages
  <2> QED
    BY <1>0, <2>1, <2>2, CallEnds DEF IInv
<1>7. CASE FinishRemove
  <2>1. cache' \in Sizes /\ freq' \in Counts
    BY <1>0, <1>7, SizesEdits, CountsEdits DEF FinishRemove, Drop
  <2>2. unlinking' \subseteq Keys
    BY <1>0, <1>01, <1>7 DEF FinishRemove
  <2>3. loop' \in Loops /\ loop'.at = loop.at /\ pending' = NoCall
        /\ UNCHANGED <<isEvicting, policy, busy, asks, held, ops>>
    BY <1>7, InterfereTyped DEF IInv, FinishRemove, Drop, mutex
  <2> QED
    BY <1>0, <2>1, <2>2, <2>3, CallEnds DEF IInv
<1> QED
  BY <1>1, <1>2, <1>3, <1>4, <1>5, <1>6, <1>7

\* load and clear put another Map in place.
LEMMA ReplaceTyped ==
  ASSUME TypeOK, Replace
  PROVE  loop' \in Loops /\ loop'.at = loop.at /\ held' \in Sizes
<1>1. loop \in Loops /\ cache \in Sizes /\ held \in Sizes
  BY DEF TypeOK, Sizes
<1> QED
  BY <1>1 DEF Replace, Loops

\* load and clear keep IInv.
LEMMA ReplaceInv ==
  ASSUME IInv, Clear \/ Load
  PROVE  IInv'
<1>0. /\ Idle /\ ops' \in 0 .. MaxOps /\ Replace
      /\ UNCHANGED <<policy, busy, unlinking, asks, isEvicting, pending>>
  BY BoundsAssumption DEF IInv, TypeOK, Clear, Load, Call, disk, mutex
<1>1. loop' \in Loops /\ loop'.at = loop.at /\ held' \in Sizes
  BY <1>0, ReplaceTyped DEF IInv
<1>2. pending.step = "none" /\ pending.had = FALSE /\ loop.at # "select"
  BY <1>0, IdleHas
<1>3. cache' \in Sizes /\ freq' \in Counts
  <2>1. CASE Clear
    BY <2>1, EmptyIsMap DEF Clear, Sizes, Counts
  <2>2. CASE Load
    <3>0. /\ DOMAIN cache \subseteq Keys /\ cache \in [DOMAIN cache -> 0 .. MaxBytes]
          /\ DOMAIN freq \subseteq Keys /\ freq \in [DOMAIN freq -> 0 .. MaxFreq]
          /\ freq \in Counts
      BY PartialFnsAre DEF IInv, TypeOK, Counts
    <3>1. PICK saved \in SUBSET Keys, n \in 0 .. MaxFreq :
            /\ cache' = [k \in saved \union DOMAIN cache |->
                          IF k \in DOMAIN cache THEN cache[k] ELSE MaxBytes]
            /\ freq' = IF policy = "Free" THEN freq
                       ELSE [k \in saved \union DOMAIN freq |->
                              IF k \in DOMAIN freq
                              THEN IF k \in saved THEN Larger(freq[k], n) ELSE freq[k]
                              ELSE n]
      BY <2>2 DEF Load
    <3>2. cache' \in Sizes /\ DOMAIN cache' = saved \union DOMAIN cache
      <4>1. cache' \in [saved \union DOMAIN cache -> 0 .. MaxBytes]
        BY <3>0, <3>1, CapacityAssumption
      <4> QED
        BY <3>0, <4>1, PartialFnsAre DEF Sizes
    <3>3. freq' \in Counts
      <4>1. CASE policy = "Free"
        BY <3>0, <3>1, <4>1
      <4>2. CASE policy # "Free"
        <5>1. \A k \in DOMAIN freq : freq[k] \in 0 .. MaxFreq /\ Larger(freq[k], n) \in 0 .. MaxFreq
          BY <3>0 DEF Larger
        <5>2. freq' \in [saved \union DOMAIN freq -> 0 .. MaxFreq]
          BY <3>1, <4>2, <5>1
        <5> QED
          BY <3>0, <5>2, PartialFnsAre DEF Counts
      <4> QED
        BY <4>1, <4>2
    <3> QED
      BY <3>2, <3>3
  <2> QED
    BY <2>1, <2>2
<1>4. TypeOK'
  BY <1>0, <1>1, <1>3 DEF IInv, TypeOK, Sizes, Counts
<1>5. Continuing' /\ OwnLoop' /\ GetKeepsItsEntry'
  BY <1>0, <1>1, <1>2 DEF IInv, Continuing, OwnLoop, GetKeepsItsEntry
<1> QED
  BY <1>4, <1>5 DEF IInv

-----------------------------------------------------------------------------
(* The theorems *)

\* A session starts with what load found.
LEMMA InitInv == Init => IInv
<1> SUFFICES ASSUME Init PROVE IInv
  OBVIOUS
<1>1. cache \in Sizes /\ DOMAIN cache \subseteq Keys
  <2>1. cache \in PartialFns(Keys, 1 .. MaxBytes)
    BY DEF Init
  <2>2. DOMAIN cache \subseteq Keys /\ cache \in [DOMAIN cache -> 1 .. MaxBytes]
    BY <2>1, PartialFnsAre
  <2>3. cache \in [DOMAIN cache -> 0 .. MaxBytes]
    BY <2>2
  <2> QED
    BY <2>2, <2>3, PartialFnsAre DEF Sizes
<1>2. freq \in Counts
  <2>1. CASE policy = "Free"
    BY <2>1, EmptyIsMap DEF Init, Counts
  <2>2. CASE policy # "Free"
    <3>1. freq \in [DOMAIN cache -> 0 .. MaxFreq]
      BY <2>2 DEF Init
    <3>2. DOMAIN freq \subseteq Keys /\ freq \in [DOMAIN freq -> 0 .. MaxFreq]
      BY <1>1, <3>1
    <3> QED
      BY <3>2, PartialFnsAre DEF Counts
  <2> QED
    BY <2>1, <2>2
<1>3. held \in Sizes
  BY EmptyIsMap DEF Init, Sizes
<1>4. pending = NoCall /\ pending.step = "none" /\ pending.had = FALSE /\ pending \in Calls
  BY DEF Init, NoCall, Calls, Steps
<1>5. loop = NoLoop /\ loop \in Loops /\ loop.at = "idle" /\ isEvicting = FALSE
  BY NoLoopTyped DEF Init
<1>6. TypeOK
  <2>1. /\ policy \in Policies /\ busy = {} /\ unlinking = {} /\ asks = {} /\ ops \in 0 .. MaxOps
    BY BoundsAssumption DEF Init
  <2> QED
    BY <1>1, <1>2, <1>3, <1>4, <1>5, <2>1 DEF TypeOK, Sizes, Counts
<1>7. Continuing /\ OwnLoop /\ GetKeepsItsEntry
  BY <1>4, <1>5 DEF Continuing, OwnLoop, GetKeepsItsEntry
<1> QED
  BY <1>6, <1>7 DEF IInv

\* IInv is inductive.
LEMMA NextInv == IInv /\ [Next]_vars => IInv'
<1> SUFFICES ASSUME IInv, [Next]_vars PROVE IInv'
  OBVIOUS
<1>1. CASE UNCHANGED vars
  <2>1. UNCHANGED <<policy, cache, freq, busy, unlinking, asks, isEvicting, loop, held,
                    pending, ops>>
    BY <1>1 DEF vars, registry, disk, mutex
  <2>2. TypeOK'
    BY <2>1 DEF IInv, TypeOK
  <2> QED
    BY <2>1, <2>2 DEF IInv, Continuing, OwnLoop, GetKeepsItsEntry
<1> QED
  BY <1>1, LoopInv, FilesInv, GetInv, AnswerInv, ContinueInv, ReplaceInv DEF Next

\* Types hold, and the mutex of LFUSizePolicy is taken exactly while its loop runs.
THEOREM TypeTheorem == Spec => []TypeOK
  BY InitInv, NextInv, PTL DEF Spec, IInv

\* MemoryCacheProvider.get never evicts what it looks up, except under LFUPolicy.
THEOREM KeepsTheorem == Spec => []GetKeepsItsEntry
  BY InitInv, NextInv, PTL DEF Spec, IInv

-----------------------------------------------------------------------------
(***************************************************************************)
(* The bytes that the entries sum up to.  A sum is a fold, which is a      *)
(* recursive function on the subsets of the domain.  Cells names the bytes *)
(* one by one, so that the sum is a number of elements: that such a        *)
(* function exists, that it is the only one, and how an entry changes it,  *)
(* then follow from the facts about finite sets.                           *)
(***************************************************************************)
Cells(f, S) == {c \in S \X (1 .. MaxBytes) : c[2] <= f[c[1]]}

\* The cells of finitely many entries are finitely many.
LEMMA CellsFinite ==
  ASSUME NEW f, NEW S, IsFiniteSet(S)
  PROVE  IsFiniteSet(Cells(f, S)) /\ Cardinality(Cells(f, S)) \in Nat
<1>1. IsFiniteSet(1 .. MaxBytes)
  BY FS_Interval, CapacityAssumption
<1>2. IsFiniteSet(S \X (1 .. MaxBytes))
  BY <1>1, FS_Product
<1>3. Cells(f, S) \in SUBSET (S \X (1 .. MaxBytes))
  BY DEF Cells
<1>4. IsFiniteSet(Cells(f, S))
  BY <1>2, <1>3, FS_Subset
<1> QED
  BY <1>4, FS_CardinalityType

\* An entry has as many cells as it has bytes.
LEMMA CellsOfOne ==
  ASSUME NEW f, NEW k, f[k] \in 0 .. MaxBytes
  PROVE  Cardinality(Cells(f, {k})) = f[k]
<1> DEFINE cell == [n \in 1 .. f[k] |-> <<k, n>>]
<1>1. f[k] \in Nat
  BY CapacityAssumption
<1>2. cell \in [1 .. f[k] -> Cells(f, {k})]
  BY <1>1, CapacityAssumption DEF Cells
<1>3. \A m, n \in 1 .. f[k] : cell[m] = cell[n] => m = n
  OBVIOUS
<1>4. \A c \in Cells(f, {k}) : \E n \in 1 .. f[k] : cell[n] = c
  <2> SUFFICES ASSUME NEW c \in Cells(f, {k}) PROVE \E n \in 1 .. f[k] : cell[n] = c
    OBVIOUS
  <2>1. c[1] = k /\ c[2] \in 1 .. f[k] /\ c = <<c[1], c[2]>>
    BY <1>1 DEF Cells
  <2>2. cell[c[2]] = c
    BY <2>1
  <2> QED
    BY <2>1, <2>2
<1> HIDE DEF cell
<1>5. cell \in Bijection(1 .. f[k], Cells(f, {k}))
  BY <1>2, <1>3, <1>4, Fun_IsBij
<1>6. ExistsBijection(1 .. f[k], Cells(f, {k}))
  BY <1>5 DEF ExistsBijection
<1> QED
  BY <1>1, <1>6, FS_CountingElements

\* Taking an entry out takes its bytes out.
LEMMA CellsWithout ==
  ASSUME NEW f, NEW S, IsFiniteSet(S), NEW k \in S, f[k] \in 0 .. MaxBytes
  PROVE  Cardinality(Cells(f, S)) = f[k] + Cardinality(Cells(f, S \ {k}))
<1> DEFINE A == Cells(f, {k})  B == Cells(f, S \ {k})
<1>1. IsFiniteSet(S \ {k}) /\ IsFiniteSet({k})
  BY FS_RemoveElement, FS_Singleton
<1>2. IsFiniteSet(A) /\ IsFiniteSet(B) /\ Cardinality(B) \in Nat /\ Cardinality(A) = f[k]
  BY <1>1, CellsFinite, CellsOfOne
<1>3. Cells(f, S) = A \union B /\ A \intersect B = {}
  BY DEF Cells
<1>4. Cardinality(A \intersect B) = 0
  BY <1>3, FS_EmptySet
<1> HIDE DEF A, B
<1>5. Cardinality(A \union B) = Cardinality(A) + Cardinality(B) - Cardinality(A \intersect B)
  BY <1>2, FS_Union
<1>6. f[k] \in Nat
  BY CapacityAssumption
<1> QED
  BY <1>2, <1>3, <1>4, <1>5, <1>6 DEF B

Pick(s) == CHOOSE x \in s : TRUE

\* The functions that the fold may be.
Adds(f, D, g) ==
  g = [s \in SUBSET D |-> IF s = {} THEN 0 ELSE f[Pick(s)] + g[s \ {Pick(s)}]]

\* Counting the cells is one of them ...
LEMMA CountAdds ==
  ASSUME NEW f, NEW D, IsFiniteSet(D), \A k \in D : f[k] \in 0 .. MaxBytes
  PROVE  Adds(f, D, [s \in SUBSET D |-> Cardinality(Cells(f, s))])
<1> DEFINE g == [s \in SUBSET D |-> Cardinality(Cells(f, s))]
<1> SUFFICES ASSUME NEW s \in SUBSET D
             PROVE  Cardinality(Cells(f, s)) =
                       IF s = {} THEN 0 ELSE f[Pick(s)] + g[s \ {Pick(s)}]
  BY DEF Adds
<1>1. CASE s = {}
  <2>1. Cells(f, s) = {}
    BY <1>1 DEF Cells
  <2> QED
    BY <1>1, <2>1, FS_EmptySet
<1>2. CASE s # {}
  <2>1. Pick(s) \in s
    BY <1>2 DEF Pick
  <2>2. IsFiniteSet(s) /\ f[Pick(s)] \in 0 .. MaxBytes
    BY <2>1, FS_Subset
  <2>3. Cardinality(Cells(f, s)) = f[Pick(s)] + Cardinality(Cells(f, s \ {Pick(s)}))
    BY <2>1, <2>2, CellsWithout
  <2>4. s \ {Pick(s)} \in SUBSET D
    OBVIOUS
  <2> QED
    BY <1>2, <2>3, <2>4
<1> QED
  BY <1>1, <1>2

\* ... and all of them count the cells, for there is no least set on which one does not.
LEMMA AddsCount ==
  ASSUME NEW f, NEW D, IsFiniteSet(D), \A k \in D : f[k] \in 0 .. MaxBytes,
         NEW g, Adds(f, D, g), NEW s \in SUBSET D
  PROVE  g[s] = Cardinality(Cells(f, s))
<1> DEFINE Bad == {t \in SUBSET D : g[t] # Cardinality(Cells(f, t))}
<1> SUFFICES ASSUME Bad # {} PROVE FALSE
  OBVIOUS
<1>1. IsWellFoundedOn(StrictSubsetOrdering(D), FiniteSubsetsOf(D))
  BY FS_StrictSubsetOrderingWellFounded
<1>2. Bad \in SUBSET FiniteSubsetsOf(D)
  BY FS_Subset DEF FiniteSubsetsOf
<1> HIDE DEF Bad
<1>3. \E t \in Bad : \A u \in Bad : <<u, t>> \notin StrictSubsetOrdering(D)
  BY <1>1, <1>2, WFMin, Zenon
<1>4. PICK t \in Bad : \A u \in Bad : <<u, t>> \notin StrictSubsetOrdering(D)
  BY <1>3
<1>5. t \in SUBSET D /\ g[t] # Cardinality(Cells(f, t))
  BY DEF Bad
<1>6. \A u \in SUBSET D : g[u] = IF u = {} THEN 0 ELSE f[Pick(u)] + g[u \ {Pick(u)}]
  BY DEF Adds
<1>7. CASE t = {}
  <2>1. Cells(f, t) = {}
    BY <1>7 DEF Cells
  <2> QED
    BY <1>5, <1>6, <1>7, <2>1, FS_EmptySet
<1>8. CASE t # {}
  <2> DEFINE u == t \ {Pick(t)}
  <2>1. Pick(t) \in t /\ u \in SUBSET D
    BY <1>5, <1>8 DEF Pick
  <2>2. <<u, t>> \in StrictSubsetOrdering(D)
    BY <1>5, <2>1 DEF StrictSubsetOrdering
  <2>3. g[u] = Cardinality(Cells(f, u))
    BY <1>4, <2>1, <2>2 DEF Bad
  <2>4. IsFiniteSet(t) /\ f[Pick(t)] \in 0 .. MaxBytes
    BY <1>5, <2>1, FS_Subset
  <2>5. Cardinality(Cells(f, t)) = f[Pick(t)] + Cardinality(Cells(f, u))
    BY <2>1, <2>4, CellsWithout
  <2> QED
    BY <1>5, <1>6, <1>8, <2>3, <2>5
<1> QED
  BY <1>7, <1>8

\* SumFunction counts the cells.
LEMMA SumCounts ==
  ASSUME NEW f, IsFiniteSet(DOMAIN f), \A k \in DOMAIN f : f[k] \in 0 .. MaxBytes
  PROVE  SumFunction(f) = Cardinality(Cells(f, DOMAIN f))
<1> DEFINE D == DOMAIN f
           h == CHOOSE g : Adds(f, D, g)
<1>1. SumFunction(f) = h[D]
  BY DEF SumFunction, SumFunctionOnSet, FoldFunctionOnSet, MapThenFoldSet, Adds, Pick
<1>2. \E g : Adds(f, D, g)
  BY CountAdds
<1>3. Adds(f, D, h)
  BY <1>2
<1> HIDE DEF h
<1>4. h[D] = Cardinality(Cells(f, D))
  BY <1>3, AddsCount
<1> QED
  BY <1>1, <1>4

\* What the registry sums up to is a natural number, and less an entry it is less by it.
LEMMA SumWithout ==
  ASSUME NEW f \in Sizes, IsFiniteSet(Keys)
  PROVE  /\ SumFunction(f) \in Nat
         /\ \A k \in DOMAIN f : SumFunction(f) = SumFunction(Without(f, k)) + f[k]
<1>1. DOMAIN f \in SUBSET Keys /\ \A k \in DOMAIN f : f[k] \in 0 .. MaxBytes
  <2>1. DOMAIN f \subseteq Keys /\ f \in [DOMAIN f -> 0 .. MaxBytes]
    BY PartialFnsAre DEF Sizes
  <2> QED
    BY <2>1
<1>2. IsFiniteSet(DOMAIN f)
  BY <1>1, FS_Subset
<1>3. SumFunction(f) = Cardinality(Cells(f, DOMAIN f)) /\ SumFunction(f) \in Nat
  BY <1>1, <1>2, SumCounts, CellsFinite
<1>4. ASSUME NEW k \in DOMAIN f
      PROVE  SumFunction(f) = SumFunction(Without(f, k)) + f[k]
  <2> DEFINE w == Without(f, k)
  <2>1. DOMAIN w = DOMAIN f \ {k} /\ \A j \in DOMAIN w : w[j] = f[j]
    BY DEF Without, Restrict
  <2>2. IsFiniteSet(DOMAIN w) /\ \A j \in DOMAIN w : w[j] \in 0 .. MaxBytes
    BY <1>1, <1>2, <2>1, FS_RemoveElement
  <2>3. Cells(w, DOMAIN w) = Cells(f, DOMAIN w)
    BY <2>1 DEF Cells
  <2> HIDE DEF w
  <2>4. SumFunction(w) = Cardinality(Cells(f, DOMAIN f \ {k}))
    BY <2>1, <2>2, <2>3, SumCounts
  <2>5. Cardinality(Cells(f, DOMAIN f)) = f[k] + Cardinality(Cells(f, DOMAIN f \ {k}))
    BY <1>1, <1>2, <1>4, CellsWithout
  <2>6. Cardinality(Cells(f, DOMAIN f \ {k})) \in Nat /\ f[k] \in Nat
    BY <1>1, <1>2, <1>4, FS_RemoveElement, CellsFinite, CapacityAssumption
  <2> QED
    BY <1>3, <2>4, <2>5, <2>6 DEF w
<1> QED
  BY <1>3, <1>4

-----------------------------------------------------------------------------
(***************************************************************************)
(* What a run of the loop ends with.  While nothing has interfered, the    *)
(* running total is what the registered entries sum up to, the victim      *)
(* whose unlink is awaited included; and the trigger is still tracked, so  *)
(* that findLFUKey falls back to the oldest entry.                         *)
(***************************************************************************)
Awaited == IF loop.at = "unlink" THEN loop.bytes ELSE 0

TotalInv ==
  /\ loop.at # "idle" => policy = "LFUSize"
  /\ loop.at # "idle" /\ loop.alone => loop.trigger \in DOMAIN freq
  /\ loop.at # "idle" /\ loop.own /\ loop.alone => totalSize = SumFunction(cache) + Awaited

\* A step that leaves the loop and its Map alone and forgets no count.
LEMMA LoopAlone ==
  ASSUME TotalInv, UNCHANGED <<policy, cache, totalSize, loop>>, DOMAIN freq \subseteq DOMAIN freq'
  PROVE  TotalInv'
  BY DEF TotalInv, Awaited

\* An edit that interferes: from then on the loop is not alone.
LEMMA LoopInterfered ==
  ASSUME IInv, TotalInv, Interfere, UNCHANGED policy
  PROVE  TotalInv'
<1>1. loop \in Loops
  BY DEF IInv, TypeOK
<1>2. loop'.at = loop.at /\ (loop.at # "idle" => loop'.alone = FALSE)
  BY <1>1 DEF Interfere, Loops
<1> QED
  BY <1>2 DEF TotalInv

\* onEvict begins a run with the sum of the entries and a trigger just tracked, or leaves
\* the run in progress as it is.
LEMMA OnEvictTotal ==
  ASSUME IInv, TotalInv, IsFiniteSet(Keys), NEW k, NEW f, OnEvict(k, f), UNCHANGED policy,
         policy = "LFUSize" => DOMAIN freq \union {k} \subseteq DOMAIN f
  PROVE  TotalInv'
<1>0. isEvicting = (loop.at # "idle") /\ cache \in Sizes
  BY DEF IInv, TypeOK, Sizes
<1>1. CASE policy = "LFUSize" /\ isEvicting
  BY <1>1, LoopAlone DEF OnEvict, BeginLoop, mutex
<1>2. CASE policy = "LFUSize" /\ ~isEvicting
  <2>1. /\ loop' = [NoLoop EXCEPT !.at = "select", !.trigger = k]
        /\ totalSize' = SumFunction(cache) /\ cache' = cache /\ freq' = f
    BY <1>2 DEF OnEvict, BeginLoop
  <2>2. loop'.at = "select" /\ loop'.trigger = k
    BY <2>1 DEF NoLoop
  <2>3. SumFunction(cache) \in Nat
    BY <1>0, SumWithout
  <2>4. k \in DOMAIN freq' /\ totalSize' = SumFunction(cache') + 0 /\ Awaited' = 0
    BY <1>2, <2>1, <2>2, <2>3 DEF Awaited
  <2> QED
    BY <1>2, <2>2, <2>4 DEF TotalInv
<1>3. CASE policy # "LFUSize"
  <2>1. loop' = loop /\ loop.at = "idle"
    BY <1>3 DEF OnEvict, TotalInv
  <2> QED
    BY <2>1 DEF TotalInv
<1> QED
  BY <1>1, <1>2, <1>3

\* The turns of the loop: an eviction moves bytes from the sum to what is awaited.
LEMMA TurnTotal ==
  ASSUME IInv, TotalInv, IsFiniteSet(Keys), NEW k \in Keys, SkipStale(k) \/ SkipBusy(k) \/ Evict(k)
  PROVE  TotalInv' /\ loop'.at # "idle"
<1>0. /\ loop \in Loops /\ cache \in Sizes /\ loop.at = "select" /\ k # loop.trigger
      /\ freq \in Counts /\ DOMAIN Without(freq, k) = DOMAIN freq \ {k}
  BY CandidateIs, CountsEdits DEF IInv, TypeOK, Sizes, Counts, SkipStale, SkipBusy, Evict
<1>1. CASE SkipStale(k)
  <2>1. /\ UNCHANGED <<policy, cache, totalSize>> /\ freq' = Without(freq, k)
        /\ loop' = [loop EXCEPT !.count = Turn]
    BY <1>1 DEF SkipStale, mutex
  <2>2. /\ loop'.at = "select" /\ loop'.own = loop.own /\ loop'.alone = loop.alone
        /\ loop'.trigger = loop.trigger
    BY <1>0, <2>1 DEF Loops
  <2> QED
    BY <1>0, <2>1, <2>2 DEF TotalInv, Awaited
<1>2. CASE SkipBusy(k)
  <2>1. /\ UNCHANGED <<policy, cache, totalSize, freq>>
        /\ loop' = [loop EXCEPT !.count = Turn, !.skipped = @ \union {k}]
    BY <1>2 DEF SkipBusy, mutex, registry
  <2>2. /\ loop'.at = "select" /\ loop'.own = loop.own /\ loop'.alone = loop.alone
        /\ loop'.trigger = loop.trigger
    BY <1>0, <2>1 DEF Loops
  <2> QED
    BY <1>0, <2>1, <2>2 DEF TotalInv, Awaited
<1>3. CASE Evict(k)
  <2>1. /\ UNCHANGED <<policy, totalSize>> /\ freq' = Without(freq, k) /\ k \in DOMAIN Map
        /\ loop.own => cache' = Without(cache, k)
        /\ loop' = [loop EXCEPT !.at = "unlink", !.victim = k, !.bytes = Map[k], !.count = Turn]
    BY <1>3 DEF Evict, mutex
  <2>2. /\ loop'.at = "unlink" /\ loop'.own = loop.own /\ loop'.alone = loop.alone
        /\ loop'.trigger = loop.trigger /\ loop'.bytes = Map[k]
    BY <1>0, <2>1 DEF Loops
  <2>3. ASSUME loop.own, loop.alone PROVE totalSize' = SumFunction(cache') + Awaited'
    <3>1. Map = cache
      BY <2>3 DEF Map
    <3>2. SumFunction(cache) = SumFunction(cache') + cache[k] /\ SumFunction(cache) \in Nat
      BY <1>0, <2>1, <2>3, <3>1, SumWithout
    <3>3. totalSize = SumFunction(cache) + 0
      BY <1>0, <2>3 DEF TotalInv, Awaited
    <3> QED
      BY <2>1, <2>2, <3>1, <3>2, <3>3 DEF Awaited
  <2> QED
    BY <1>0, <2>1, <2>2, <2>3 DEF TotalInv
<1> QED
  BY <1>1, <1>2, <1>3

\* The unlink that the loop awaits takes the victim's bytes off the running total.
LEMMA UnlinkTotal ==
  ASSUME IInv, TotalInv, IsFiniteSet(Keys), NEW k \in Keys, Unlinked(k) \/ UnlinkRejects(k)
  PROVE  TotalInv'
<1>0. loop \in Loops /\ cache \in Sizes /\ UNCHANGED <<policy, cache, freq>>
  BY DEF IInv, TypeOK, Sizes, Unlinked, UnlinkRejects, registry
<1>1. CASE UNCHANGED <<loop, totalSize>>
  BY <1>0, <1>1, LoopAlone
<1>2. CASE EndRun
  BY <1>2 DEF EndRun, NoLoop, TotalInv
<1>3. CASE /\ loop.at = "unlink" /\ totalSize' = totalSize - loop.bytes
           /\ loop' = [loop EXCEPT !.at = "select", !.victim = None, !.bytes = 0]
  <2>1. /\ loop'.at = "select" /\ loop'.own = loop.own /\ loop'.alone = loop.alone
        /\ loop'.trigger = loop.trigger /\ loop.bytes \in Nat
    BY <1>0, <1>3 DEF Loops
  <2>2. SumFunction(cache) \in Nat
    BY <1>0, SumWithout
  <2>3. ASSUME loop.own, loop.alone PROVE totalSize' = SumFunction(cache') + Awaited'
    BY <1>0, <1>3, <2>1, <2>2, <2>3 DEF TotalInv, Awaited
  <2> QED
    BY <1>0, <1>3, <2>1, <2>3 DEF TotalInv
<1> QED
  BY <1>1, <1>2, <1>3 DEF Unlinked, UnlinkRejects, mutex

\* Nothing runs at first.
LEMMA InitTotal == Init => TotalInv
  BY DEF Init, NoLoop, TotalInv

\* TotalInv is inductive beside IInv.
LEMMA NextTotal == IsFiniteSet(Keys) => (IInv /\ TotalInv /\ [Next]_vars => TotalInv')
<1> SUFFICES ASSUME IsFiniteSet(Keys), IInv, TotalInv, [Next]_vars PROVE TotalInv'
  OBVIOUS
<1>1. ASSUME NEW k \in Keys, SkipStale(k) \/ SkipBusy(k) \/ Evict(k) PROVE TotalInv'
  BY <1>1, TurnTotal
<1>2. ASSUME NEW k \in Keys, Unlinked(k) \/ UnlinkRejects(k) PROVE TotalInv'
  BY <1>2, UnlinkTotal
<1>3. ASSUME NEW k \in Keys, Hold(k) PROVE TotalInv'
  BY <1>3, LoopAlone DEF Hold, registry, mutex
<1>4. \A k : policy = "LFUSize" => /\ DOMAIN Touched(k) = DOMAIN freq \union {k}
                                   /\ DOMAIN With(freq, k, 0) = DOMAIN freq \union {k}
  BY DEF Touched, With
<1>5. ASSUME NEW k \in Keys, \/ Read(k) \/ Ingest(k) \/ IngestSegment(k) \/ GoOn(k)
                             \/ \E who \in Lookers : LookUp(k, who)
      PROVE  TotalInv'
  <2>1. OnEvict(k, Touched(k)) /\ UNCHANGED policy
    BY <1>5 DEF Read, Ingest, IngestSegment, GoOn, LookUp, Get
  <2> QED
    BY <1>4, <2>1, OnEvictTotal
<1>6. ASSUME NEW k \in Keys, Signal(k) \/ \E who \in Lookers : Missing(k, who) \/ Found(k, who)
      PROVE  TotalInv'
  BY <1>6, LoopInterfered DEF Signal, Missing, Found, Drop
<1>61. ASSUME NEW k \in Keys, NEW who \in Lookers, Kept(k, who) PROVE TotalInv'
  BY <1>61, LoopAlone DEF Kept, registry, mutex
<1>7. CASE EndLoop
  BY <1>7 DEF EndLoop, EndRun, NoLoop, TotalInv
<1>8. CASE Return \/ Ask \/ UNCHANGED vars
  BY <1>8, LoopAlone DEF Return, Ask, vars, registry, mutex
<1>9. CASE ReadAgain
  BY <1>4, <1>9, OnEvictTotal DEF ReadAgain
<1>10. CASE Put
  <2>1. CASE pending.key \in DOMAIN cache
    BY <1>10, <2>1, LoopInterfered DEF Put
  <2>2. CASE pending.key \notin DOMAIN cache
    <3> DEFINE f == IF policy = "Free" THEN freq ELSE With(freq, pending.key, 0)
    <3>1. OnEvict(pending.key, f) /\ UNCHANGED policy
      BY <1>10, <2>2 DEF Put
    <3>2. policy = "LFUSize" => DOMAIN freq \union {pending.key} \subseteq DOMAIN f
      BY <1>4
    <3> HIDE DEF f
    <3> QED
      BY <3>1, <3>2, OnEvictTotal
  <2> QED
    BY <2>1, <2>2
<1>11. CASE PutNew \/ FinishRemove
  BY <1>11, LoopInterfered DEF PutNew, FinishRemove, Drop
<1>13. CASE AppendSegment
  <2>1. CASE pending.key \in DOMAIN cache
    BY <1>13, <2>1, LoopInterfered DEF AppendSegment
  <2>2. CASE pending.key \notin DOMAIN cache
    BY <1>13, <2>2, LoopAlone DEF AppendSegment, mutex
  <2> QED
    BY <2>1, <2>2
<1>12. CASE Clear \/ Load
  <2>1. loop.at # "select" /\ Replace /\ UNCHANGED policy
    BY <1>12 DEF Clear, Load, Call, Idle
  <2>2. loop \in Loops
    BY DEF IInv, TypeOK
  <2>3. loop'.at = loop.at /\ (loop.at = "unlink" => loop'.alone = FALSE)
    BY <2>1, <2>2 DEF Replace, Loops
  <2>4. loop.at \in {"idle", "unlink"}
    BY <2>1, <2>2 DEF Loops
  <2> QED
    BY <2>1, <2>3, <2>4 DEF TotalInv
<1> QED
  BY <1>1, <1>2, <1>3, <1>5, <1>6, <1>61, <1>7, <1>8, <1>9, <1>10, <1>11, <1>12, <1>13 DEF Next

\* Only the end of the loop leaves "select" for "idle".
LEMMA OnlyEndLoop ==
  ASSUME IInv, TotalInv, IsFiniteSet(Keys), Next, loop.at = "select", loop'.at = "idle"
  PROVE  EndLoop
<1>1. ASSUME NEW k \in Keys, SkipStale(k) \/ SkipBusy(k) \/ Evict(k) PROVE FALSE
  BY <1>1, TurnTotal
<1>2. ASSUME NEW k \in Keys, \/ Unlinked(k) \/ UnlinkRejects(k) \/ Hold(k) \/ Read(k) \/ Ingest(k)
                             \/ IngestSegment(k) \/ Signal(k) \/ GoOn(k)
      PROVE FALSE
  BY <1>2 DEF Unlinked, UnlinkRejects, Hold, Read, Ingest, IngestSegment, Signal, GoOn, Call, Idle
<1>4. ASSUME NEW k \in Keys, NEW who \in Lookers,
             LookUp(k, who) \/ Kept(k, who) \/ Missing(k, who) \/ Found(k, who)
      PROVE FALSE
  BY <1>4 DEF LookUp, Kept, Missing, Found, Call, Idle
<1>3. ASSUME \/ Return \/ ReadAgain \/ Put \/ PutNew \/ AppendSegment \/ Ask \/ FinishRemove
             \/ Clear \/ Load
      PROVE FALSE
  BY <1>3 DEF Return, ReadAgain, Put, PutNew, AppendSegment, Ask, FinishRemove, Clear, Load,
              Called, Call, Idle
<1> QED
  BY <1>1, <1>2, <1>3, <1>4 DEF Next

\* With a key tracked, no candidate is left only when every entry was skipped or triggered.
LEMMA NoCandidateLeft ==
  ASSUME NEW map, NEW f, NEW excluded, DOMAIN f # {}, Candidates(map, f, excluded) = {}
  PROVE  DOMAIN map \subseteq excluded
  BY DEF Candidates

\* What the loop ends with, when nothing interfered with it.
LEMMA EndLoopFits ==
  ASSUME IInv, TotalInv, IsFiniteSet(Keys), EndLoop, loop.own, loop.alone
  PROVE  \/ SumFunction(cache) <= Capacity
         \/ Cardinality(DOMAIN cache) <= MinEntries
         \/ loop.count >= MaxCandidates
         \/ DOMAIN cache \subseteq loop.skipped \union {loop.trigger}
<1>1. /\ loop.at = "select" /\ Map = cache /\ loop.trigger \in DOMAIN freq
      /\ cache \in Sizes /\ loop.count \in Nat
  BY DEF IInv, TypeOK, Sizes, Loops, EndLoop, Map, TotalInv
<1>2. CASE Fits
  <2>1. SumFunction(cache) \in Nat
    BY <1>1, SumWithout
  <2>2. totalSize = SumFunction(cache) + 0
    BY <1>1 DEF TotalInv, Awaited
  <2> QED
    BY <1>2, <2>1, <2>2 DEF Fits
<1>3. CASE GivesUp
  <2>1. Cardinality(DOMAIN cache) <= MinEntries \/ loop.count + 1 > MaxCandidates
    BY <1>1, <1>3 DEF GivesUp, Turn
  <2> QED
    BY <1>1, <2>1, LimitsAssumption
<1>4. CASE NoCandidate
  BY <1>1, <1>4, NoCandidateLeft DEF NoCandidate
<1> QED
  BY <1>2, <1>3, <1>4 DEF EndLoop

\* A run of LFUSizePolicy's loop that nothing interfered with frees the mutex only under
\* capacity by what the entries sum up to, or for one of the code's reasons to give up.
THEOREM EndsTheorem == IsFiniteSet(Keys) => (Spec => EndsFittingOrGivenUp)
<1> SUFFICES ASSUME IsFiniteSet(Keys) PROVE Spec => EndsFittingOrGivenUp
  OBVIOUS
<1> DEFINE Ends == loop.at = "select" /\ loop'.at = "idle" /\ loop.own /\ loop.alone =>
                     \/ SumFunction(cache) <= Capacity
                     \/ Cardinality(DOMAIN cache) <= MinEntries
                     \/ loop.count >= MaxCandidates
                     \/ DOMAIN cache \subseteq loop.skipped \union {loop.trigger}
<1>1. IInv /\ TotalInv /\ [Next]_vars => Ends
  <2> SUFFICES ASSUME IInv, TotalInv, [Next]_vars, loop.at = "select", loop'.at = "idle",
                      loop.own, loop.alone
               PROVE  Ends
    OBVIOUS
  <2>1. Next
    BY DEF vars
  <2> QED
    BY <2>1, OnlyEndLoop, EndLoopFits
<1>2. IInv /\ TotalInv /\ [Next]_vars => TotalInv'
  BY NextTotal
<1> HIDE DEF Ends
<1>3. Spec => [][Ends]_vars
  BY <1>1, <1>2, InitInv, NextInv, InitTotal, PTL DEF Spec
<1> QED
  BY <1>3 DEF Ends, EndsFittingOrGivenUp
=============================================================================
