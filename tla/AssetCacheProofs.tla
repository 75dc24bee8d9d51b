-------------------------- MODULE AssetCacheProofs --------------------------
(***************************************************************************)
(* Theorems about AssetCache, for any assets, segments, number of requests *)
(* and of operations.                                                      *)
(*                                                                         *)
(* The argument for VerifiedOnDisk: nobody is at work on the path of a     *)
(* handler that is alone (Exclusive), so the temp it verifies is its own   *)
(* or gone (OwnTemp), the body it authorises is the one it received        *)
(* (AuthorisedIsSound), and what the rename then leaves at the final path  *)
(* belongs to a handler that is over and can change it no more             *)
(* (LandedIsDone).  A handler that is not alone may rename the temp of     *)
(* another, but only of one that is not alone either.                      *)
(***************************************************************************)
EXTENDS AssetCache, FiniteSetTheorems, TLAPS

HoldsBody == {"reading", "writing", "verifying", "clearing", "moving"}

\* A handler at work has a path, and one that looks for it on disk has a segment's; one
\* past its fetch has received something.
HasFile ==
    \A j \in Jobs :
        /\ InFlight(j) => File(j) \in Files
        /\ jobs[j].phase \in {"lookup", "streaming"} => File(j) \in Segs
        /\ jobs[j].phase \in HoldsBody => jobs[j].body \in Bodies

TypeInv == TypeOK /\ HasFile

-----------------------------------------------------------------------------
(* Types *)

\* None and Old are neither files nor jobs, and a file is a playlist or a segment.
LEMMA NamesApart ==
    /\ None \notin Files /\ None \notin Jobs
    /\ Old \notin Jobs /\ Old # None
    /\ \A f \in Files : f \notin Keys <=> f \in Segs
  BY NamesAssumption DEF Files

\* sendRaw and the return after it keep the records well-typed.
LEMMA LeavingTyped ==
  ASSUME TypeInv, NEW j \in Jobs, NEW body \in Bodies \cup {"none"}, AnswerLeaving(j, body)
  PROVE  /\ jobs' \in [Jobs -> JobStates]
         /\ HasFile'
<1>1. jobs \in [Jobs -> JobStates]
  BY DEF TypeInv, TypeOK
<1> DEFINE answered == [NoJob EXCEPT !.phase = "done", !.body = body,
                                     !.sent = jobs[j].sent + 1,
                                     !.alone = jobs[j].alone]
<1>2. answered \in JobStates /\ answered.phase = "done"
  <2>1. NoJob \in JobStates
    BY DEF NoJob, JobStates, Phases
  <2>2. jobs[j].sent + 1 \in Nat /\ jobs[j].alone \in BOOLEAN
    BY <1>1 DEF JobStates
  <2> QED
    BY <2>1, <2>2 DEF JobStates, Phases
<1>3. jobs' = [jobs EXCEPT ![j] = answered]
  BY DEF AnswerLeaving
<1> HIDE DEF answered
<1>4. jobs' \in [Jobs -> JobStates] /\ jobs'[j].phase = "done"
  BY <1>1, <1>2, <1>3
<1> QED
  BY <1>1, <1>3, <1>4 DEF TypeInv, HasFile, HoldsBody, InFlight, File

LEMMA AnswerTyped ==
  ASSUME TypeInv, NEW j \in Jobs, Answer(j)
  PROVE  /\ jobs' \in [Jobs -> JobStates]
         /\ HasFile'
  BY LeavingTyped DEF Answer

\* So does going on to the next await.
LEMMA GotoTyped ==
  ASSUME TypeInv, NEW j \in Jobs, InFlight(j), NEW p \in Phases, Goto(j, p),
         p \in {"lookup", "streaming"} => File(j) \in Segs,
         p \in HoldsBody => jobs[j].phase \in HoldsBody
  PROVE  /\ jobs' \in [Jobs -> JobStates]
         /\ HasFile'
<1> DEFINE next == [jobs[j] EXCEPT !.phase = p]
<1>1. jobs \in [Jobs -> JobStates] /\ jobs[j] \in JobStates
  BY DEF TypeInv, TypeOK
<1>2. jobs' = [jobs EXCEPT ![j] = next]
  BY <1>1 DEF Goto
<1>3. /\ next \in JobStates /\ next.phase = p
      /\ next.file = jobs[j].file /\ next.body = jobs[j].body
  BY <1>1 DEF JobStates
<1> HIDE DEF next
<1>4. jobs' \in [Jobs -> JobStates]
  BY <1>1, <1>2, <1>3
<1>5. HasFile'
  BY <1>1, <1>2, <1>3 DEF TypeInv, HasFile, InFlight, File
<1> QED
  BY <1>4, <1>5

\* Generations and refcounts stay naturals: the release is clamped at 0.
LEMMA CountersTyped ==
  ASSUME TypeInv, NEW k
  PROVE  /\ Acquire(k) => downloading' \in [Keys -> Nat]
         /\ Release(k) => downloading' \in [Keys -> Nat]
         /\ Bump(k) => generation' \in [Keys -> Nat]
<1>0. downloading \in [Keys -> Nat] /\ generation \in [Keys -> Nat]
  BY DEF TypeInv, TypeOK
<1>1. CASE k \in Keys
  <2>1. downloading[k] \in Nat /\ generation[k] \in Nat
    BY <1>0, <1>1
  <2>2. downloading[k] + 1 \in Nat /\ generation[k] + 1 \in Nat
        /\ (downloading[k] # 0 => downloading[k] - 1 \in Nat)
    BY <2>1
  <2> QED
    BY <1>0, <1>1, <2>1, <2>2 DEF Acquire, Release, Bump
<1>2. CASE k \notin Keys
  BY <1>0, <1>2 DEF Acquire, Release, Bump
<1> QED
  BY <1>1, <1>2

\* Registering a playlist or a segment yields an entry.
LEMMA EntryTyped ==
  /\ Missing \in Entries /\ Media \in Entries /\ FreshHls \in Entries
  /\ \A e \in Entries : WithPlaylist(e) \in Entries
  /\ \A e \in Entries, s \in Segs : WithSegment(e, s) \in Entries
<1>1. Missing \in Entries /\ Media \in Entries /\ FreshHls \in Entries
  BY DEF Missing, Media, FreshHls, Entries
<1>2. ASSUME NEW e \in Entries PROVE WithPlaylist(e) \in Entries
  BY <1>1, <1>2 DEF WithPlaylist
<1>3. ASSUME NEW e \in Entries, NEW s \in Segs PROVE WithSegment(e, s) \in Entries
  <2>1. e.segs \cup {s} \in SUBSET Segs /\ e.bytes + 1 \in Nat
    BY DEF Entries
  <2>2. [e EXCEPT !.segs = e.segs \cup {s}, !.bytes = e.bytes + 1] \in Entries
    BY <2>1 DEF Entries
  <2> QED
    BY <2>2 DEF WithSegment
<1> QED
  BY <1>1, <1>2, <1>3

\* A handler that begins, and what that changes of the others.
LEMMA BeginFields ==
  ASSUME TypeInv, NEW j \in Jobs, NEW r \in JobStates, Begin(j, r)
  PROVE  /\ jobs' \in [Jobs -> JobStates]
         /\ jobs'[j].phase = r.phase /\ jobs'[j].file = r.file
         /\ jobs'[j].key = r.key /\ jobs'[j].body = r.body
         /\ jobs'[j].alone = \A o \in Jobs : ~AtWorkOn(o, r.file)
         /\ \A i \in Jobs \ {j} :
               /\ jobs'[i].phase = jobs[i].phase /\ jobs'[i].file = jobs[i].file
               /\ jobs'[i].key = jobs[i].key /\ jobs'[i].body = jobs[i].body
               /\ jobs'[i].alone = (jobs[i].alone /\ ~AtWorkOn(i, r.file))
<1>1. jobs \in [Jobs -> JobStates]
  BY DEF TypeInv, TypeOK
<1>2. jobs'[j] = [r EXCEPT !.alone = \A o \in Jobs : ~AtWorkOn(o, r.file)]
  BY DEF Begin
<1>3. \A i \in Jobs \ {j} :
          jobs'[i] = [jobs[i] EXCEPT !.alone = jobs[i].alone /\ ~AtWorkOn(i, r.file)]
  BY <1>1 DEF Begin, JobStates
<1>4. jobs' = [i \in Jobs |-> jobs'[i]]
  BY DEF Begin
<1>5. ASSUME NEW e \in JobStates, NEW b \in BOOLEAN
      PROVE  /\ [e EXCEPT !.alone = b] \in JobStates
             /\ [e EXCEPT !.alone = b].phase = e.phase
             /\ [e EXCEPT !.alone = b].file = e.file
             /\ [e EXCEPT !.alone = b].key = e.key
             /\ [e EXCEPT !.alone = b].body = e.body
             /\ [e EXCEPT !.alone = b].alone = b
  BY DEF JobStates
<1>6. \A i \in Jobs : jobs[i] \in JobStates /\ jobs[i].alone \in BOOLEAN
  BY <1>1 DEF JobStates
<1>7. ASSUME NEW i \in Jobs \ {j}
      PROVE  /\ jobs'[i] \in JobStates
             /\ jobs'[i].phase = jobs[i].phase /\ jobs'[i].file = jobs[i].file
             /\ jobs'[i].key = jobs[i].key /\ jobs'[i].body = jobs[i].body
             /\ jobs'[i].alone = (jobs[i].alone /\ ~AtWorkOn(i, r.file))
  <2> DEFINE b == jobs[i].alone /\ ~AtWorkOn(i, r.file)
  <2>1. jobs'[i] = [jobs[i] EXCEPT !.alone = b] /\ jobs[i] \in JobStates /\ b \in BOOLEAN
    BY <1>3, <1>6
  <2> HIDE DEF b
  <2>2. /\ jobs'[i] \in JobStates
        /\ jobs'[i].phase = jobs[i].phase /\ jobs'[i].file = jobs[i].file /\ jobs'[i].key = jobs[i].key
        /\ jobs'[i].body = jobs[i].body /\ jobs'[i].alone = b
    BY <1>5, <2>1
  <2> QED
    BY <2>2 DEF b
<1>8. /\ jobs'[j] \in JobStates
      /\ jobs'[j].phase = r.phase /\ jobs'[j].file = r.file
      /\ jobs'[j].key = r.key /\ jobs'[j].body = r.body
      /\ jobs'[j].alone = \A o \in Jobs : ~AtWorkOn(o, r.file)
  BY <1>2, <1>5
<1> QED
  BY <1>4, <1>7, <1>8

LEMMA BeginTyped ==
  ASSUME TypeInv, NEW j \in Jobs, NEW r \in JobStates, Begin(j, r),
         r.file \in Files, r.phase = "lookup" => r.file \in Segs,
         r.phase \in {"lookup", "fetching"}
  PROVE  /\ jobs' \in [Jobs -> JobStates]
         /\ HasFile'
<1>1. r.phase \notin HoldsBody /\ r.phase # "streaming"
  BY DEF HoldsBody
<1>2. jobs' \in [Jobs -> JobStates]
  BY BeginFields
<1>3. /\ jobs'[j].phase = r.phase /\ jobs'[j].file = r.file
      /\ \A i \in Jobs \ {j} :
            /\ jobs'[i].phase = jobs[i].phase /\ jobs'[i].file = jobs[i].file
            /\ jobs'[i].body = jobs[i].body
  BY BeginFields
<1>4. HasFile'
  BY <1>1, <1>3 DEF TypeInv, HasFile, InFlight, File
<1> QED
  BY <1>2, <1>4

\* A new request keeps the type invariant.
LEMMA RequestTyped ==
  ASSUME TypeInv,
         \/ \E j \in Jobs, k \in Keys : RequestPlaylist(j, k)
         \/ \E j \in Jobs, s \in Segs : RequestSegment(j, s)
  PROVE  TypeInv'
<1>1. ASSUME NEW j \in Jobs, NEW k \in Keys, RequestPlaylist(j, k)
      PROVE  TypeInv'
  <2> DEFINE r == [NoJob EXCEPT !.phase = "fetching", !.file = k, !.key = k,
                                !.gen = generation[k]]
  <2>1. r \in JobStates /\ r.phase = "fetching" /\ r.file = k
    BY DEF NoJob, JobStates, Phases, Files, TypeInv, TypeOK
  <2>2. Begin(j, r)
    BY <1>1 DEF RequestPlaylist
  <2> HIDE DEF r
  <2>3. jobs' \in [Jobs -> JobStates] /\ HasFile'
    BY <2>1, <2>2, BeginTyped DEF Files
  <2> QED
    BY <1>1, <2>3 DEF RequestPlaylist, TypeInv, TypeOK, guard, upkeep
<1>2. ASSUME NEW j \in Jobs, NEW s \in Segs, RequestSegment(j, s)
      PROVE  TypeInv'
  <2> DEFINE r == [NoJob EXCEPT !.phase = "lookup", !.file = s, !.key = lastOwner]
  <2>1. r \in JobStates /\ r.phase = "lookup" /\ r.file = s
    BY DEF NoJob, JobStates, Phases, Files, TypeInv, TypeOK
  <2>2. Begin(j, r)
    BY <1>2 DEF RequestSegment
  <2> HIDE DEF r
  <2>3. jobs' \in [Jobs -> JobStates] /\ HasFile'
    BY <2>1, <2>2, BeginTyped DEF Files
  <2> QED
    BY <1>2, <2>3 DEF RequestSegment, TypeInv, TypeOK, guard, upkeep
<1> QED
  BY <1>1, <1>2

\* So does every step of a request handler.
LEMMA JobStepTyped ==
  ASSUME TypeInv, NEW j \in Jobs, JobStep(j)
  PROVE  TypeInv'
<1>1. ~At(j, "idle") /\ ~At(j, "done")
  BY DEF JobStep, LookupHit, Streamed, OwnerMissing, FetchSegment, FetchFails, FetchDone,
         ReadTemp, ReadFails, WriteEnds, WriteFails, Fallback, Discard, StatFails,
         Authorise, ClearFinal, Move, MoveFails, NotOnDisk, At
<1>2. InFlight(j) /\ File(j) \in Files
  BY <1>1 DEF TypeInv, HasFile, InFlight, At
<1>3. CASE LookupHit(j)
  <2>1. "streaming" \in Phases /\ "streaming" \notin HoldsBody
    BY DEF Phases, HoldsBody
  <2>2. jobs' \in [Jobs -> JobStates] /\ HasFile'
    BY <1>2, <1>3, <2>1, GotoTyped DEF LookupHit, At, TypeInv, HasFile
  <2> QED
    BY <1>2, <1>3, <2>2 DEF LookupHit, TypeInv, TypeOK, guard, upkeep
<1>4. CASE Streamed(j)
  <2>2. jobs' \in [Jobs -> JobStates] /\ HasFile'
    BY <1>4, AnswerTyped DEF Streamed
  <2>3. registry' \in [Keys -> Entries]
    <3>1. ASSUME NEW k \in Keys PROVE registry[k] \in Entries
      BY DEF TypeInv, TypeOK
    <3>2. File(j) \in Segs
      BY <1>4 DEF Streamed, At, TypeInv, HasFile
    <3> QED
      BY <1>4, <3>1, <3>2, EntryTyped DEF Streamed
  <2> QED
    BY <1>2, <1>4, <2>2, <2>3 DEF Streamed, TypeInv, TypeOK, guard, upkeep
<1>5. CASE OwnerMissing(j)
  <2>2. jobs' \in [Jobs -> JobStates] /\ HasFile'
    BY <1>5, AnswerTyped DEF OwnerMissing
  <2> QED
    BY <1>2, <1>5, <2>2 DEF OwnerMissing, TypeInv, TypeOK, guard, upkeep
<1>6. CASE FetchSegment(j)
  <2>2. jobs' \in [Jobs -> JobStates] /\ HasFile'
    <3>1. jobs \in [Jobs -> JobStates] /\ registry[Key(j)] \in Entries
          /\ generation[Key(j)] \in Nat
      BY <1>6 DEF FetchSegment, TypeInv, TypeOK
    <3> DEFINE next == [jobs[j] EXCEPT !.phase = "fetching", !.held = registry[Key(j)].kind,
                                       !.gen = generation[Key(j)]]
    <3>2. jobs' = [jobs EXCEPT ![j] = next]
      BY <1>6, <3>1 DEF FetchSegment
    <3>3. next \in JobStates /\ next.phase = "fetching" /\ next.file = jobs[j].file
      <4>1. registry[Key(j)].kind \in {"none", "media", "hls"} /\ "fetching" \in Phases
        BY <3>1 DEF Entries, Phases
      <4> QED
        BY <3>1, <4>1 DEF JobStates
    <3> HIDE DEF next
    <3> QED
      BY <1>2, <3>1, <3>2, <3>3 DEF TypeInv, HasFile, HoldsBody, InFlight, File
  <2>3. downloading' \in [Keys -> Nat]
    BY <1>6, CountersTyped DEF FetchSegment
  <2>4. temp' \in [Files -> Jobs \cup {None}]
    BY <1>6 DEF FetchSegment, TypeInv, TypeOK
  <2> QED
    BY <1>2, <1>6, <2>2, <2>3, <2>4 DEF FetchSegment, TypeInv, TypeOK, guard, upkeep
<1>7. CASE FetchFails(j)
  <2>1. "fallback" \in Phases /\ "fallback" \notin HoldsBody
    BY DEF Phases, HoldsBody
  <2>2. jobs' \in [Jobs -> JobStates] /\ HasFile'
    BY <1>2, <1>7, <2>1, AnswerTyped, GotoTyped DEF FetchFails
  <2>3. downloading' \in [Keys -> Nat]
    BY <1>7, CountersTyped DEF FetchFails, TypeInv, TypeOK
  <2> QED
    BY <1>2, <1>7, <2>2, <2>3 DEF FetchFails, TypeInv, TypeOK, guard, upkeep
<1>8. CASE FetchDone(j)
  <2>2. jobs' \in [Jobs -> JobStates] /\ HasFile'
    <3>1. jobs \in [Jobs -> JobStates]
      BY DEF TypeInv, TypeOK
    <3>2. PICK body \in Bodies : jobs' = [jobs EXCEPT
              ![j].body = body,
              ![j].phase = IF IsPlaylist(j) THEN "writing" ELSE "reading"]
      BY <1>8 DEF FetchDone, Bodies
    <3> DEFINE next == [jobs[j] EXCEPT
              !.body = body, !.phase = IF IsPlaylist(j) THEN "writing" ELSE "reading"]
    <3>3. jobs' = [jobs EXCEPT ![j] = next]
      BY <3>1, <3>2
    <3>4. /\ next \in JobStates /\ next.file = jobs[j].file
          /\ next.phase \in HoldsBody /\ next.body \in Bodies
          /\ next.phase \notin {"lookup", "streaming"}
      BY <3>1 DEF JobStates, Phases, HoldsBody
    <3> HIDE DEF next
    <3> QED
      BY <1>2, <3>1, <3>3, <3>4 DEF TypeInv, HasFile, InFlight, File
  <2>3. temp' \in [Files -> Jobs \cup {None}]
    BY <1>8 DEF FetchDone, TypeInv, TypeOK
  <2> QED
    BY <1>2, <1>8, <2>2, <2>3 DEF FetchDone, TypeInv, TypeOK, guard, upkeep
<1>9. CASE ReadTemp(j)
  <2>1. "verifying" \in Phases /\ jobs[j].phase \in HoldsBody
    BY <1>9 DEF Phases, HoldsBody, At, ReadTemp
  <2>2. jobs' \in [Jobs -> JobStates] /\ HasFile'
    BY <1>2, <1>9, <2>1, GotoTyped DEF ReadTemp
  <2> QED
    BY <1>2, <1>9, <2>2 DEF ReadTemp, TypeInv, TypeOK, guard, upkeep
<1>10. CASE ReadFails(j)
  <2>2. jobs' \in [Jobs -> JobStates] /\ HasFile'
    BY <1>10, AnswerTyped DEF ReadFails
  <2> QED
    BY <1>2, <1>10, <2>2 DEF ReadFails, TypeInv, TypeOK, guard, upkeep
<1>11. CASE WriteEnds(j)
  <2>1. "verifying" \in Phases /\ jobs[j].phase \in HoldsBody
    BY <1>11 DEF Phases, HoldsBody, At, WriteEnds
  <2>2. jobs' \in [Jobs -> JobStates] /\ HasFile'
    BY <1>2, <1>11, <2>1, GotoTyped DEF WriteEnds
  <2> QED
    BY <1>2, <1>11, <2>2 DEF WriteEnds, TypeInv, TypeOK, guard, upkeep
<1>12. CASE WriteFails(j)
  <2>2. jobs' \in [Jobs -> JobStates] /\ HasFile'
    BY <1>12, AnswerTyped DEF WriteFails
  <2>3. temp' \in [Files -> Jobs \cup {None}]
    BY <1>12 DEF WriteFails, TypeInv, TypeOK
  <2> QED
    BY <1>2, <1>12, <2>2, <2>3 DEF WriteFails, TypeInv, TypeOK, guard, upkeep
<1>13. CASE Fallback(j)
  <2>2. jobs' \in [Jobs -> JobStates] /\ HasFile'
    BY <1>13, AnswerTyped DEF Fallback
  <2> QED
    BY <1>2, <1>13, <2>2 DEF Fallback, TypeInv, TypeOK, guard, upkeep
<1>14. CASE Discard(j)
  <2>1. "fallback" \in Phases /\ "fallback" \notin HoldsBody
    BY DEF Phases, HoldsBody
  <2>2. jobs' \in [Jobs -> JobStates] /\ HasFile'
    BY <1>2, <1>14, <2>1, AnswerTyped, GotoTyped DEF Discard
  <2>3. downloading' \in [Keys -> Nat]
    BY <1>14, CountersTyped DEF Discard, TypeInv, TypeOK
  <2>4. temp' \in [Files -> Jobs \cup {None}]
    BY <1>14 DEF Discard, TypeInv, TypeOK
  <2> QED
    BY <1>2, <1>14, <2>2, <2>3, <2>4 DEF Discard, TypeInv, TypeOK, guard, upkeep
<1>15. CASE StatFails(j)
  <2>2. jobs' \in [Jobs -> JobStates] /\ HasFile'
    BY <1>15, AnswerTyped DEF StatFails
  <2>3. downloading' \in [Keys -> Nat]
    BY <1>15, CountersTyped DEF StatFails
  <2> QED
    BY <1>2, <1>15, <2>2, <2>3 DEF StatFails, TypeInv, TypeOK, guard, upkeep
<1>16. CASE Authorise(j)
  <2>1. "clearing" \in Phases /\ jobs[j].phase \in HoldsBody
    BY <1>16 DEF Phases, HoldsBody, At, Authorise
  <2>2. jobs' \in [Jobs -> JobStates] /\ HasFile'
    BY <1>2, <1>16, <2>1, GotoTyped DEF Authorise
  <2> QED
    BY <1>2, <1>16, <2>2 DEF Authorise, TypeInv, TypeOK, guard, upkeep
<1>17. CASE ClearFinal(j)
  <2>1. "moving" \in Phases /\ jobs[j].phase \in HoldsBody
    BY <1>17 DEF Phases, HoldsBody, At, ClearFinal
  <2>2. jobs' \in [Jobs -> JobStates] /\ HasFile'
    BY <1>2, <1>17, <2>1, GotoTyped DEF ClearFinal
  <2>3. disk' \in [Files -> Jobs \cup {Old, None}]
    BY <1>17 DEF ClearFinal, TypeInv, TypeOK
  <2> QED
    BY <1>2, <1>17, <2>2, <2>3 DEF ClearFinal, TypeInv, TypeOK, guard, upkeep
<1>18. CASE Move(j)
  <2>2. jobs' \in [Jobs -> JobStates] /\ HasFile'
    <3>1. jobs[j].body \in Bodies
      BY <1>18 DEF Move, At, TypeInv, HasFile, HoldsBody
    <3> QED
      BY <1>18, <3>1, LeavingTyped DEF Move
  <2>3. downloading' \in [Keys -> Nat]
    BY <1>18, CountersTyped DEF Move
  <2>4. /\ disk' \in [Files -> Jobs \cup {Old, None}]
        /\ temp' \in [Files -> Jobs \cup {None}]
    BY <1>2, <1>18 DEF Move, TypeInv, TypeOK
  <2>5. registry' \in [Keys -> Entries]
    <3>1. ASSUME NEW k \in Keys PROVE registry[k] \in Entries
      BY DEF TypeInv, TypeOK
    <3>2. registry \in [Keys -> Entries]
      BY DEF TypeInv, TypeOK
    <3>3. ~IsPlaylist(j) => File(j) \in Segs
      BY <1>2 DEF IsPlaylist, Files
    <3>4. Key(j) \in Keys =>
            /\ WithPlaylist(registry[Key(j)]) \in Entries
            /\ File(j) \in Segs => WithSegment(registry[Key(j)], File(j)) \in Entries
      BY <3>1, EntryTyped
    <3> QED
      BY <1>18, <3>2, <3>3, <3>4, EntryTyped DEF Move
  <2> QED
    BY <1>2, <1>18, <2>2, <2>3, <2>4, <2>5 DEF Move, TypeInv, TypeOK, guard, upkeep
<1>19. CASE MoveFails(j)
  <2>2. jobs' \in [Jobs -> JobStates] /\ HasFile'
    BY <1>19, AnswerTyped DEF MoveFails
  <2>3. downloading' \in [Keys -> Nat]
    BY <1>19, CountersTyped DEF MoveFails
  <2> QED
    BY <1>2, <1>19, <2>2, <2>3 DEF MoveFails, TypeInv, TypeOK, guard, upkeep
<1> QED
  BY <1>3, <1>4, <1>5, <1>6, <1>7, <1>8, <1>9, <1>10, <1>11, <1>12,
     <1>13, <1>14, <1>15, <1>16, <1>17, <1>18, <1>19 DEF JobStep

\* A session starts well-typed.
LEMMA InitTyped == Init => TypeInv
<1> SUFFICES ASSUME Init PROVE TypeInv
  OBVIOUS
<1>1. NoJob \in JobStates /\ NoJob.phase = "idle"
  BY DEF NoJob, JobStates, Phases
<1>2. jobs \in [Jobs -> JobStates] /\ HasFile
  BY <1>1 DEF Init, HasFile, HoldsBody, InFlight
<1>3. registry \in [Keys -> Entries]
  BY EntryTyped DEF Init
<1>4. disk \in [Files -> Jobs \cup {Old, None}] /\ temp \in [Files -> Jobs \cup {None}]
  BY DEF Init
<1>5. ops \in 0..MaxOps
  BY OpsAssumption DEF Init
<1>6. looking \in [Callers -> [Keys -> Stages]]
  BY DEF Init, Stages
<1> QED
  BY <1>2, <1>3, <1>4, <1>5, <1>6 DEF Init, TypeInv, TypeOK

\* The next stage of a look-up is a stage.
LEMMA LookingTyped ==
  ASSUME TypeInv, NEW c \in Callers, NEW k \in Keys, NEW stage \in Stages,
         AwaitNext(c, k, stage)
  PROVE  looking' \in [Callers -> [Keys -> Stages]]
<1>1. looking \in [Callers -> [Keys -> Stages]]
  BY DEF TypeInv, TypeOK
<1>2. looking' = [looking EXCEPT ![c] = [looking[c] EXCEPT ![k] = stage]]
  BY DEF AwaitNext
<1>3. [looking[c] EXCEPT ![k] = stage] \in [Keys -> Stages]
  BY <1>1
<1> QED
  BY <1>1, <1>2, <1>3

\* The steps of a look-up keep the type invariant.
LEMMA LookupTyped ==
  ASSUME TypeInv, NEW c \in Callers, NEW k \in Keys,
         BeginLookup(c, k) \/ LookupAwaits(c, k) \/ LookupEnds(c, k)
  PROVE  /\ UNCHANGED <<jobs, downloading, lastOwner, evicting, wiping>>
         /\ looking' \in [Callers -> [Keys -> Stages]]
         /\ registry' \in [Keys -> Entries]
         /\ temp' \in [Files -> Jobs \cup {None}]
         /\ disk' \in [Files -> Jobs \cup {Old, None}]
         /\ doomed' \subseteq Files
         /\ ops' \in 0..MaxOps
<1>1. TypeOK /\ registry[k] \in Entries
  BY DEF TypeInv, TypeOK
<1>2. \A stage \in {"none", "entry", "final", "temp", "unlink", "kept", "found", "missed"} :
          stage \in Stages
  BY DEF Stages
<1>3. CASE BeginLookup(c, k)
  <2>1. looking' \in [Callers -> [Keys -> Stages]]
    BY <1>2, <1>3, LookingTyped DEF BeginLookup
  <2>2. ops' \in 0..MaxOps
    BY <1>1, <1>3, OpsAssumption DEF BeginLookup, Operate, TypeOK
  <2> QED
    BY <1>1, <1>3, <2>1, <2>2 DEF BeginLookup, TypeOK
<1>4. CASE LookupAwaits(c, k)
  <2>1. looking' \in [Callers -> [Keys -> Stages]]
    <3>1. PICK stage \in Stages : AwaitNext(c, k, stage)
      BY <1>2, <1>4 DEF LookupAwaits, EntryStat, FinalStat, TempStat, UnlinkTemp
    <3> QED
      BY <3>1, LookingTyped
  <2>2. temp' \in [Files -> Jobs \cup {None}]
    BY <1>1, <1>4 DEF LookupAwaits, EntryStat, FinalStat, TempStat, UnlinkTemp, TypeOK
  <2> QED
    BY <1>1, <1>4, <2>1, <2>2 DEF LookupAwaits, TypeOK, guard
<1>5. CASE LookupEnds(c, k)
  <2>1. looking' \in [Callers -> [Keys -> Stages]]
    BY <1>2, <1>5, LookingTyped DEF LookupEnds
  <2> DEFINE entry == CASE looking[c][k] = "kept"   -> registry[k]
                        [] looking[c][k] = "found"  -> Media
                        [] looking[c][k] = "missed" -> Missing
  <2>2. entry \in Entries
    BY <1>1, <1>5, EntryTyped DEF LookupEnds
  <2>3. IF c = "removal"
        THEN /\ registry' = [registry EXCEPT ![k] = Missing]
             /\ doomed' = doomed \cup EvictedFiles(k, entry)
        ELSE registry' = [registry EXCEPT ![k] = entry] /\ UNCHANGED doomed
    BY <1>5 DEF LookupEnds
  <2>4. EvictedFiles(k, entry) \subseteq Files
    BY <2>2 DEF EvictedFiles, Entries, Files
  <2> HIDE DEF entry
  <2>5. registry' \in [Keys -> Entries] /\ doomed' \subseteq Files
    BY <1>1, <2>2, <2>3, <2>4, EntryTyped DEF TypeOK
  <2> QED
    BY <1>1, <1>5, <2>1, <2>5 DEF LookupEnds, TypeOK, guard
<1> QED
  BY <1>3, <1>4, <1>5

\* Evictions, removals, wipes and look-ups.
OtherStep ==
    \/ Upkeep \/ Clear
    \/ \E c \in Callers, k \in Keys : LookUp(c, k)
    \/ \E k \in Keys : Remove(k) \/ Evict(k)

\* They touch no handler.
LEMMA OtherStepJobs == OtherStep => UNCHANGED jobs
  BY DEF OtherStep, Upkeep, Clear, LookUp, BeginLookup, Remove, Evict, LookupAwaits,
         LookupEnds, UnlinkEvicted, UnlinkMissing, UnlinkDoomed, Wipe

\* They keep the type invariant.
LEMMA OtherStepTyped ==
  ASSUME TypeInv, OtherStep
  PROVE  TypeInv'
<1>1. TypeOK /\ HasFile
  BY DEF TypeInv
<1>2. HasFile'
  BY <1>1, OtherStepJobs DEF HasFile, InFlight, File
<1>3. ASSUME Operate PROVE ops' \in 0..MaxOps
  BY <1>1, <1>3, OpsAssumption DEF Operate, TypeOK
<1>4. ASSUME NEW c \in Callers, NEW k \in Keys, LookupAwaits(c, k) \/ LookupEnds(c, k)
      PROVE  TypeOK'
  <2>1. UNCHANGED generation
    BY <1>4 DEF LookupAwaits, LookupEnds, guard
  <2> QED
    BY <1>1, <1>4, <2>1, LookupTyped DEF TypeOK
<1>5. ASSUME NEW c \in Callers, NEW k \in Keys, LookUp(c, k) PROVE TypeOK'
  BY <1>1, <1>5, LookupTyped DEF LookUp, TypeOK
<1>6. ASSUME NEW k \in Keys, Remove(k) PROVE TypeOK'
  <2>1. "removal" \in Callers
    BY DEF Callers
  <2> QED
    BY <1>1, <1>6, <2>1, LookupTyped, CountersTyped DEF Remove, TypeOK
<1>7. ASSUME NEW f \in Files, UnlinkEvicted(f) \/ UnlinkMissing(f) \/ UnlinkDoomed(f)
      PROVE  TypeOK'
  BY <1>1, <1>7 DEF UnlinkEvicted, UnlinkMissing, UnlinkDoomed, TypeOK, guard
<1>8. CASE Wipe
  BY <1>1, <1>2, <1>8 DEF Wipe, TypeInv, TypeOK, guard
<1>9. ASSUME NEW k \in Keys, Evict(k) PROVE TypeOK'
  <2>1. EvictedFiles(k, registry[k]) \subseteq Files
    BY <1>1 DEF EvictedFiles, Files, TypeOK, Entries
  <2> QED
    BY <1>1, <1>3, <1>9, <2>1, EntryTyped, CountersTyped DEF Evict, TypeInv, TypeOK
<1>10. CASE Clear
  BY <1>1, <1>2, <1>3, <1>10, EntryTyped DEF Clear, TypeInv, TypeOK
<1> QED
  BY <1>2, <1>4, <1>5, <1>6, <1>7, <1>8, <1>9, <1>10 DEF OtherStep, Upkeep, TypeInv

\* TypeInv is inductive.
LEMMA NextTyped == TypeInv /\ [Next]_vars => TypeInv'
<1> SUFFICES ASSUME TypeInv, [Next]_vars PROVE TypeInv'
  OBVIOUS
<1>1. CASE UNCHANGED vars
  BY <1>1 DEF vars, guard, upkeep, TypeInv, TypeOK, HasFile, InFlight, File
<1>2. CASE Next
  BY <1>2, RequestTyped, JobStepTyped, OtherStepTyped DEF Next, OtherStep
<1> QED
  BY <1>1, <1>2

\* Every reachable state is well-typed: no handler reaches for a path, an entry or a
\* counter that is not there, whatever is evicted, removed or wiped around it.
THEOREM TypeCorrect == Spec => []TypeOK
<1>1. Spec => []TypeInv
  BY InitTyped, NextTyped, PTL DEF Spec
<1>2. TypeInv => TypeOK
  BY DEF TypeInv
<1> QED
  BY <1>1, <1>2, PTL

-----------------------------------------------------------------------------
(* Bytes *)

Counted(e) ==
    /\ IsFiniteSet(e.segs)
    /\ e.kind = "hls" => e.bytes = 1 + Cardinality(e.segs)

BytesInv == \A k \in Keys : Counted(registry[k])

\* Registering counts a path once: the playlist, and each segment under it.
LEMMA EntryCounted ==
  /\ Counted(Missing) /\ Counted(Media) /\ Counted(FreshHls)
  /\ \A e \in Entries : Counted(e) => Counted(WithPlaylist(e))
  /\ \A e \in Entries, f \in Files : Counted(e) => Counted(WithSegment(e, f))
<1>1. Counted(Missing) /\ Counted(Media) /\ Counted(FreshHls)
  BY FS_EmptySet DEF Counted, Missing, Media, FreshHls
<1>2. ASSUME NEW e \in Entries, Counted(e) PROVE Counted(WithPlaylist(e))
  BY <1>1, <1>2 DEF WithPlaylist
<1>3. ASSUME NEW e \in Entries, NEW f \in Files, Counted(e) PROVE Counted(WithSegment(e, f))
  <2>1. CASE e.kind # "hls" \/ f \in e.segs
    BY <1>3, <2>1 DEF WithSegment
  <2>2. CASE e.kind = "hls" /\ f \notin e.segs
    <3> DEFINE more == [e EXCEPT !.segs = e.segs \cup {f}, !.bytes = e.bytes + 1]
    <3>1. WithSegment(e, f) = more
      BY <2>2 DEF WithSegment
    <3>2. more.segs = e.segs \cup {f} /\ more.bytes = e.bytes + 1
      BY DEF Entries
    <3>3. /\ IsFiniteSet(e.segs \cup {f})
          /\ Cardinality(e.segs \cup {f}) = Cardinality(e.segs) + 1
      BY <1>3, <2>2, FS_AddElement DEF Counted
    <3>4. e.bytes = 1 + Cardinality(e.segs) /\ Cardinality(e.segs) \in Nat
      BY <1>3, <2>2, FS_CardinalityType DEF Counted
    <3> HIDE DEF more
    <3> QED
      BY <3>1, <3>2, <3>3, <3>4 DEF Counted
  <2> QED
    BY <2>1, <2>2
<1> QED
  BY <1>1, <1>2, <1>3

\* What a step may make of an entry.
Successors(e) ==
    {e, Missing, Media, WithPlaylist(e)} \cup {WithSegment(e, f) : f \in Files}

\* Every step leaves an entry, drops it, replaces it or registers one file under it.
LEMMA RegistrySteps ==
  ASSUME TypeInv, [Next]_vars, NEW k \in Keys
  PROVE  registry'[k] \in Successors(registry[k])
<1>1. registry \in [Keys -> Entries]
  BY DEF TypeInv, TypeOK
<1>2. CASE UNCHANGED registry
  BY <1>2 DEF Successors
<1>3. ASSUME NEW j \in Jobs, Streamed(j) PROVE registry'[k] \in Successors(registry[k])
  <2>1. File(j) \in Files
    BY <1>3 DEF Streamed, At, TypeInv, HasFile, InFlight
  <2> QED
    BY <1>3, <2>1 DEF Streamed, Successors
<1>4. ASSUME NEW j \in Jobs, Move(j) PROVE registry'[k] \in Successors(registry[k])
  <2>1. File(j) \in Files
    BY <1>4 DEF Move, At, TypeInv, HasFile, InFlight
  <2>2. registry'[k] \in {registry[k], WithPlaylist(registry[k]), Media,
                        WithSegment(registry[k], File(j))}
    BY <1>1, <1>4 DEF Move
  <2> QED
    BY <2>1, <2>2 DEF Successors
<1>5. ASSUME NEW q \in Keys, Evict(q) \/ \E c \in Callers : LookupEnds(c, q)
      PROVE  registry'[k] \in Successors(registry[k])
  <2>1. registry'[k] \in {registry[k], Missing, Media}
    BY <1>1, <1>5 DEF Evict, LookupEnds
  <2> QED
    BY <2>1 DEF Successors
<1>6. CASE Clear
  BY <1>6 DEF Clear, Successors
<1>7. \/ UNCHANGED registry
      \/ \E j \in Jobs : Streamed(j) \/ Move(j)
      \/ \E q \in Keys : Evict(q) \/ \E c \in Callers : LookupEnds(c, q)
      \/ Clear
  BY DEF Next, vars, Upkeep, JobStep, RequestPlaylist, RequestSegment, LookupHit,
         OwnerMissing, FetchSegment, FetchFails, FetchDone, ReadTemp, ReadFails, WriteEnds,
         WriteFails, Fallback, Discard, StatFails, Authorise, ClearFinal, MoveFails,
         LookUp, BeginLookup, Remove, LookupAwaits, Wipe, UnlinkEvicted, UnlinkMissing,
         UnlinkDoomed
<1> QED
  BY <1>2, <1>3, <1>4, <1>5, <1>6, <1>7

\* The bytes that drive eviction are right for any interleaving of hits, promotes,
\* re-ingests, removals and evictions.
THEOREM BytesTheorem == Spec => []BytesCounted
<1>1. Init => BytesInv
  BY EntryCounted DEF Init, BytesInv
<1>2. TypeInv /\ BytesInv /\ [Next]_vars => BytesInv'
  <2> SUFFICES ASSUME TypeInv, BytesInv, [Next]_vars, NEW k \in Keys
               PROVE  Counted(registry'[k])
    BY DEF BytesInv, Counted
  <2>1. registry'[k] \in Successors(registry[k])
    BY RegistrySteps
  <2>2. registry[k] \in Entries /\ Counted(registry[k])
    BY DEF TypeInv, TypeOK, BytesInv
  <2> QED
    BY <2>1, <2>2, EntryCounted DEF Successors
<1>3. BytesInv => BytesCounted
  BY DEF BytesInv, BytesCounted, Counted
<1> QED
  BY <1>1, <1>2, <1>3, InitTyped, NextTyped, PTL DEF Spec

-----------------------------------------------------------------------------
(* What the final paths hold.  The parts are said of the handlers' records.   *)

Working(r) == r.phase \notin {"idle", "done"}

Holding(r) ==
    \/ r.phase \in {"reading", "writing", "verifying", "clearing", "moving"}
    \/ r.phase = "fetching" /\ r.file \notin Keys

Authorised(r) == r.phase \in {"clearing", "moving"}

Sound(r, f) == r.body # "none" /\ (f \in Segs => r.body = "good")

\* Nobody is at work beside a handler that is alone, and nobody has been beside one that
\* has not begun.
Exclusive ==
    \A i \in Jobs :
        /\ jobs[i].phase = "idle" => jobs[i].alone
        /\ Working(jobs[i]) /\ jobs[i].alone =>
              \A j \in Jobs : Working(jobs[j]) /\ jobs[j].file = jobs[i].file => i = j

\* The temp a handler works on is its own or gone; a foreign one was opened beside it.
OwnTemp ==
    \A j \in Jobs : Holding(jobs[j]) =>
        \/ temp[jobs[j].file] \in {j, None}
        \/ ~jobs[j].alone /\ ~jobs[temp[jobs[j].file]].alone

AuthorisedIsSound ==
    \A j \in Jobs : Authorised(jobs[j]) /\ jobs[j].alone => Sound(jobs[j], jobs[j].file)

LandedIsDone ==
    \A f \in Files : disk[f] \in Jobs /\ jobs[disk[f]].alone =>
        jobs[disk[f]].phase = "done" /\ Sound(jobs[disk[f]], f)

DiskInv == Exclusive /\ OwnTemp /\ AuthorisedIsSound /\ LandedIsDone

\* A handler at work has a path.
LEMMA WorkingFile ==
  ASSUME TypeInv, NEW j \in Jobs, Working(jobs[j])
  PROVE  jobs[j].file \in Files
  BY DEF TypeInv, HasFile, InFlight, Working, File

\* Only a handler at work holds a temp or has a promote authorised.
LEMMA WorkingKinds ==
  ASSUME NEW r
  PROVE  (Holding(r) \/ Authorised(r)) => Working(r)
  BY DEF Holding, Authorised, Working

\* A step of handler j, after which its record is r, keeps to its own path: what it may do
\* to the temp and the final file there, given what it becomes.
RunsTo(j, f, r) ==
    /\ Working(jobs[j])
    /\ f = jobs[j].file
    /\ jobs' = [jobs EXCEPT ![j] = r]
    /\ r.phase # "idle"
    /\ r.alone = jobs[j].alone
    /\ Working(r) => r.file = f
    /\ \A g \in Files : g # f => temp'[g] = temp[g] /\ disk'[g] = disk[g]
    /\ temp'[f] \in {temp[f], j, None}
    /\ Holding(r) => Holding(jobs[j]) \/ temp'[f] \in {j, None}
    /\ Authorised(r) /\ r.alone => Sound(r, f)
    /\ \/ disk'[f] \in {disk[f], None}
       \/ disk'[f] = j /\ (r.alone => r.phase = "done" /\ Sound(r, f))
       \/ disk'[f] \in Jobs \ {j} /\ ~jobs[disk'[f]].alone

\* The other handlers see nothing of such a step, or are not alone.
LEMMA RunStep ==
  ASSUME TypeInv, DiskInv, NEW j \in Jobs, NEW f, NEW r, RunsTo(j, f, r)
  PROVE  DiskInv'
<1>0. /\ Working(jobs[j]) /\ f = jobs[j].file
      /\ jobs' = [jobs EXCEPT ![j] = r]
      /\ r.phase # "idle" /\ r.alone = jobs[j].alone
      /\ Working(r) => r.file = f
      /\ \A g \in Files : g # f => temp'[g] = temp[g] /\ disk'[g] = disk[g]
      /\ temp'[f] \in {temp[f], j, None}
      /\ Holding(r) => Holding(jobs[j]) \/ temp'[f] \in {j, None}
      /\ Authorised(r) /\ r.alone => Sound(r, f)
      /\ \/ disk'[f] \in {disk[f], None}
         \/ disk'[f] = j /\ (r.alone => r.phase = "done" /\ Sound(r, f))
         \/ disk'[f] \in Jobs \ {j} /\ ~jobs[disk'[f]].alone
  BY DEF RunsTo
<1>1. jobs'[j] = r /\ \A i \in Jobs : i # j => jobs'[i] = jobs[i]
  BY <1>0 DEF TypeInv, TypeOK
<1>2. \A i \in Jobs : jobs'[i].alone = jobs[i].alone
  BY <1>0, <1>1
<1>3. \A i \in Jobs : i # j /\ Working(jobs[i]) /\ jobs[i].file = f =>
          ~jobs[i].alone /\ ~jobs[j].alone
  BY <1>0 DEF DiskInv, Exclusive
<1>4. Exclusive'
  BY <1>0, <1>1, <1>3 DEF DiskInv, Exclusive
<1>5. OwnTemp'
  <2> SUFFICES ASSUME NEW i \in Jobs, Holding(jobs'[i]), temp'[jobs'[i].file] \notin {i, None}
               PROVE  ~jobs'[i].alone /\ ~jobs'[temp'[jobs'[i].file]].alone
    BY <1>0 DEF OwnTemp
  <2>0. temp \in [Files -> Jobs \cup {None}] /\ f \in Files
    BY <1>0, WorkingFile DEF TypeInv, TypeOK
  <2>1. CASE i = j
    <3>1. jobs'[i].file = f /\ Holding(jobs[j]) /\ temp'[f] = temp[f]
      BY <1>0, <1>1, <2>1, WorkingKinds
    <3>2. ~jobs[j].alone /\ ~jobs[temp[f]].alone /\ temp[f] \in Jobs
      BY <1>0, <2>0, <2>1, <3>1 DEF DiskInv, OwnTemp
    <3> QED
      BY <1>0, <1>2, <2>1, <3>1, <3>2
  <2>2. CASE i # j
    <3>1. Holding(jobs[i]) /\ jobs'[i] = jobs[i]
      BY <1>0, <1>1, <2>2
    <3>2. jobs[i].file \in Files
      BY <1>0, <3>1, WorkingKinds, WorkingFile
    <3>3. CASE jobs[i].file # f
      <4>1. ~jobs[i].alone /\ ~jobs[temp[jobs[i].file]].alone /\ temp[jobs[i].file] \in Jobs
        BY <1>0, <2>0, <3>1, <3>2, <3>3 DEF DiskInv, OwnTemp
      <4> QED
        BY <1>0, <1>2, <3>1, <3>2, <3>3, <4>1
    <3>4. CASE jobs[i].file = f
      <4>1. ~jobs[i].alone /\ ~jobs[j].alone
        BY <1>0, <1>3, <2>2, <3>1, <3>4, WorkingKinds
      <4>2. CASE temp'[f] = temp[f]
        <5>1. ~jobs[temp[f]].alone /\ temp[f] \in Jobs
          BY <1>0, <2>0, <3>1, <3>4, <4>2 DEF DiskInv, OwnTemp
        <5> QED
          BY <1>0, <1>2, <3>1, <3>4, <4>1, <4>2, <5>1
      <4>3. CASE temp'[f] = j
        BY <1>0, <1>2, <3>1, <3>4, <4>1, <4>3
      <4> QED
        BY <1>0, <3>1, <3>4, <4>2, <4>3
    <3> QED
      BY <1>0, <3>3, <3>4
  <2> QED
    BY <1>0, <2>1, <2>2
<1>6. AuthorisedIsSound'
  <2> SUFFICES ASSUME NEW i \in Jobs, Authorised(jobs'[i]), jobs'[i].alone
               PROVE  Sound(jobs'[i], jobs'[i].file)
    BY <1>0 DEF AuthorisedIsSound
  <2>1. CASE i = j
    BY <1>0, <1>1, <2>1, WorkingKinds
  <2>2. CASE i # j
    BY <1>0, <1>1, <2>2 DEF DiskInv, AuthorisedIsSound
  <2> QED
    BY <1>0, <2>1, <2>2
<1>7. LandedIsDone'
  <2> SUFFICES ASSUME NEW g \in Files, disk'[g] \in Jobs, jobs'[disk'[g]].alone
               PROVE  jobs'[disk'[g]].phase = "done" /\ Sound(jobs'[disk'[g]], g)
    BY <1>0 DEF LandedIsDone
  <2>1. CASE disk'[g] = disk[g]
    <3>1. jobs[disk[g]].phase = "done" /\ Sound(jobs[disk[g]], g)
      BY <1>0, <1>2, <2>1 DEF DiskInv, LandedIsDone
    <3>2. disk[g] # j
      BY <1>0, <3>1 DEF Working
    <3> QED
      BY <1>0, <1>1, <2>1, <3>1, <3>2
  <2>2. CASE disk'[g] # disk[g]
    <3>1. g = f /\ disk'[g] = j /\ (r.alone => r.phase = "done" /\ Sound(r, f))
      BY <1>0, <1>2, <2>2, NamesApart
    <3> QED
      BY <1>0, <1>1, <3>1
  <2> QED
    BY <1>0, <2>1, <2>2
<1> QED
  BY <1>0, <1>4, <1>5, <1>6, <1>7 DEF DiskInv

\* A handler that answers holds nothing any more.
LEMMA AnswerStep ==
  ASSUME TypeInv, DiskInv, NEW j \in Jobs, Working(jobs[j]), Answer(j), UNCHANGED disk,
         \A g \in Files : g # jobs[j].file => temp'[g] = temp[g],
         temp'[jobs[j].file] \in {temp[jobs[j].file], None}
  PROVE  DiskInv'
<1> DEFINE r == [NoJob EXCEPT !.phase = "done", !.body = "none",
                              !.sent = jobs[j].sent + 1, !.alone = jobs[j].alone]
<1>1. jobs' = [jobs EXCEPT ![j] = r]
  BY DEF Answer, AnswerLeaving
<1>2. r.phase = "done" /\ r.alone = jobs[j].alone
  BY DEF NoJob
<1> HIDE DEF r
<1>3. ~Working(r) /\ ~Holding(r) /\ ~Authorised(r)
  BY <1>2 DEF Working, Holding, Authorised
<1>4. RunsTo(j, jobs[j].file, r)
  BY <1>1, <1>2, <1>3 DEF RunsTo
<1> QED
  BY <1>4, RunStep

\* A handler that goes on keeps its path and its body.
LEMMA GotoStep ==
  ASSUME TypeInv, DiskInv, NEW j \in Jobs, Working(jobs[j]), NEW p, Goto(j, p), p # "idle",
         \A g \in Files : g # jobs[j].file => temp'[g] = temp[g] /\ disk'[g] = disk[g],
         temp'[jobs[j].file] \in {temp[jobs[j].file], None},
         disk'[jobs[j].file] \in {disk[jobs[j].file], None},
         p \in {"streaming", "fallback"} \/ Holding(jobs[j]),
         p \in {"clearing", "moving"} /\ jobs[j].alone => Sound(jobs[j], jobs[j].file)
  PROVE  DiskInv'
<1> DEFINE r == [jobs[j] EXCEPT !.phase = p]
<1>1. jobs[j] \in JobStates
  BY DEF TypeInv, TypeOK
<1>2. jobs' = [jobs EXCEPT ![j] = r]
  BY <1>1 DEF Goto
<1>3. r.phase = p /\ r.file = jobs[j].file /\ r.body = jobs[j].body /\ r.alone = jobs[j].alone
  BY <1>1 DEF JobStates
<1> HIDE DEF r
<1>4. Holding(r) => Holding(jobs[j])
  BY <1>3 DEF Holding
<1>5. Authorised(r) /\ r.alone => Sound(r, jobs[j].file)
  BY <1>3 DEF Authorised, Sound
<1>6. r.phase # "idle" /\ (Working(r) => r.file = jobs[j].file)
  BY <1>3
<1>7. RunsTo(j, jobs[j].file, r)
  BY <1>2, <1>3, <1>4, <1>5, <1>6 DEF RunsTo
<1> QED
  BY <1>7, RunStep

\* Every step of a handler keeps DiskInv.
LEMMA JobStepDisk ==
  ASSUME TypeInv, DiskInv, NEW j \in Jobs, JobStep(j)
  PROVE  DiskInv'
<1>0. ~At(j, "idle") /\ ~At(j, "done")
  BY DEF JobStep, LookupHit, Streamed, OwnerMissing, FetchSegment, FetchFails, FetchDone,
         ReadTemp, ReadFails, WriteEnds, WriteFails, Fallback, Discard, StatFails,
         Authorise, ClearFinal, Move, MoveFails, NotOnDisk, At
<1>1. Working(jobs[j]) /\ jobs[j].file \in Files
  BY <1>0, WorkingFile DEF Working, At
<1>2. /\ jobs \in [Jobs -> JobStates] /\ jobs[j] \in JobStates
      /\ disk \in [Files -> Jobs \cup {Old, None}]
      /\ temp \in [Files -> Jobs \cup {None}]
  BY DEF TypeInv, TypeOK
<1>3. CASE Streamed(j)
  BY <1>1, <1>3, AnswerStep DEF Streamed
<1>4. CASE OwnerMissing(j)
  BY <1>1, <1>4, AnswerStep DEF OwnerMissing
<1>5. CASE ReadFails(j)
  BY <1>1, <1>5, AnswerStep DEF ReadFails
<1>6. CASE WriteFails(j)
  <2>1. /\ \A g \in Files : g # jobs[j].file => temp'[g] = temp[g]
        /\ temp'[jobs[j].file] \in {temp[jobs[j].file], None}
    BY <1>1, <1>2, <1>6 DEF WriteFails, File
  <2> QED
    BY <1>1, <1>6, <2>1, AnswerStep DEF WriteFails
<1>7. CASE Fallback(j)
  BY <1>1, <1>7, AnswerStep DEF Fallback
<1>8. CASE StatFails(j)
  BY <1>1, <1>8, AnswerStep DEF StatFails
<1>9. CASE MoveFails(j)
  BY <1>1, <1>9, AnswerStep DEF MoveFails
<1>10. CASE LookupHit(j)
  BY <1>1, <1>10, GotoStep DEF LookupHit
<1>11. CASE FetchSegment(j)
  <2> DEFINE r == [jobs[j] EXCEPT !.phase = "fetching", !.held = registry[Key(j)].kind,
                                  !.gen = generation[Key(j)]]
  <2>1. jobs' = [jobs EXCEPT ![j] = r]
    BY <1>2, <1>11 DEF FetchSegment
  <2>2. r.phase = "fetching" /\ r.file = jobs[j].file /\ r.alone = jobs[j].alone
    BY <1>2 DEF JobStates
  <2>3. temp'[jobs[j].file] = j /\ \A g \in Files : g # jobs[j].file => temp'[g] = temp[g]
    BY <1>1, <1>2, <1>11 DEF FetchSegment, File
  <2>4. UNCHANGED disk
    BY <1>11 DEF FetchSegment
  <2> HIDE DEF r
  <2>5. ~Authorised(r) /\ r.phase # "idle"
    BY <2>2 DEF Authorised
  <2>6. RunsTo(j, jobs[j].file, r)
    BY <1>1, <2>1, <2>2, <2>3, <2>4, <2>5 DEF RunsTo
  <2> QED
    BY <2>6, RunStep
<1>12. CASE FetchFails(j)
  BY <1>1, <1>12, AnswerStep, GotoStep DEF FetchFails
<1>13. CASE FetchDone(j)
  <2>1. PICK body \in Bodies : jobs' = [jobs EXCEPT
            ![j].body = body,
            ![j].phase = IF IsPlaylist(j) THEN "writing" ELSE "reading"]
    BY <1>13 DEF FetchDone, Bodies
  <2> DEFINE r == [jobs[j] EXCEPT
            !.body = body, !.phase = IF IsPlaylist(j) THEN "writing" ELSE "reading"]
  <2>2. jobs' = [jobs EXCEPT ![j] = r]
    BY <1>2, <2>1
  <2>3. /\ r.phase = IF IsPlaylist(j) THEN "writing" ELSE "reading"
        /\ r.file = jobs[j].file /\ r.alone = jobs[j].alone
    BY <1>2 DEF JobStates
  <2>4. UNCHANGED disk /\ jobs[j].phase = "fetching"
    BY <1>13 DEF FetchDone, At
  <2>5. /\ temp'[jobs[j].file] = IF IsPlaylist(j) THEN j ELSE temp[jobs[j].file]
        /\ \A g \in Files : g # jobs[j].file => temp'[g] = temp[g]
    BY <1>1, <1>2, <1>13 DEF FetchDone, File
  <2> HIDE DEF r
  <2>6. ~IsPlaylist(j) => Holding(jobs[j])
    BY <2>4 DEF Holding, IsPlaylist, File
  <2>7. ~Authorised(r) /\ r.phase # "idle"
    BY <2>3 DEF Authorised
  <2>8. Holding(r) => Holding(jobs[j]) \/ temp'[jobs[j].file] \in {j, None}
    BY <2>5, <2>6
  <2>9. temp'[jobs[j].file] \in {temp[jobs[j].file], j, None}
    BY <2>5
  <2>10. RunsTo(j, jobs[j].file, r)
    BY <1>1, <2>2, <2>3, <2>4, <2>5, <2>7, <2>8, <2>9 DEF RunsTo
  <2> QED
    BY <2>10, RunStep
<1>14. CASE ReadTemp(j)
  <2>1. Holding(jobs[j])
    BY <1>14 DEF ReadTemp, At, Holding
  <2> QED
    BY <1>1, <1>14, <2>1, GotoStep DEF ReadTemp
<1>15. CASE WriteEnds(j)
  <2>1. Holding(jobs[j])
    BY <1>15 DEF WriteEnds, At, Holding
  <2> QED
    BY <1>1, <1>15, <2>1, GotoStep DEF WriteEnds
<1>16. CASE Discard(j)
  <2>1. /\ \A g \in Files : g # jobs[j].file => temp'[g] = temp[g]
        /\ temp'[jobs[j].file] = None
    BY <1>1, <1>2, <1>16 DEF Discard, File
  <2> QED
    BY <1>1, <1>16, <2>1, AnswerStep, GotoStep DEF Discard
<1>17. CASE Authorise(j)
  <2>1. Holding(jobs[j])
    BY <1>17 DEF Authorise, At, Holding
  <2>2. jobs[j].body # "none"
    BY <1>17 DEF Authorise, At, TypeInv, HasFile, HoldsBody, Bodies
  <2>3. ASSUME jobs[j].alone PROVE Sound(jobs[j], jobs[j].file)
    <3>1. temp[jobs[j].file] = j
      BY <1>17, <2>1, <2>3 DEF Authorise, File, DiskInv, OwnTemp
    <3>2. jobs[j].file \in Segs => jobs[j].body = "good"
      BY <1>1, <1>17, <3>1, NamesApart DEF Authorise, MayFit, IsPlaylist, File
    <3> QED
      BY <2>2, <3>2 DEF Sound
  <2> QED
    BY <1>1, <1>17, <2>1, <2>3, GotoStep DEF Authorise
<1>18. CASE ClearFinal(j)
  <2>1. Holding(jobs[j]) /\ Authorised(jobs[j])
    BY <1>18 DEF ClearFinal, At, Holding, Authorised
  <2>2. jobs[j].alone => Sound(jobs[j], jobs[j].file)
    BY <2>1 DEF DiskInv, AuthorisedIsSound
  <2>3. /\ disk'[jobs[j].file] = None
        /\ \A g \in Files : g # jobs[j].file => disk'[g] = disk[g]
    BY <1>1, <1>2, <1>18 DEF ClearFinal, File
  <2> QED
    BY <1>1, <1>18, <2>1, <2>2, <2>3, GotoStep DEF ClearFinal
<1>19. CASE Move(j)
  <2> DEFINE r == [NoJob EXCEPT !.phase = "done", !.body = jobs[j].body,
                                !.sent = jobs[j].sent + 1, !.alone = jobs[j].alone]
  <2>1. jobs' = [jobs EXCEPT ![j] = r]
    BY <1>19 DEF Move, AnswerLeaving
  <2>2. r.phase = "done" /\ r.body = jobs[j].body /\ r.alone = jobs[j].alone
    BY DEF NoJob
  <2> HIDE DEF r
  <2>3. Holding(jobs[j]) /\ Authorised(jobs[j])
    BY <1>19 DEF Move, At, Holding, Authorised
  <2>4. jobs[j].alone => Sound(r, jobs[j].file)
    BY <2>2, <2>3 DEF Sound, DiskInv, AuthorisedIsSound
  <2>5. /\ disk'[jobs[j].file] = temp[jobs[j].file] /\ temp'[jobs[j].file] = None
        /\ \A g \in Files : g # jobs[j].file => temp'[g] = temp[g] /\ disk'[g] = disk[g]
    BY <1>1, <1>2, <1>19 DEF Move, File
  <2>6. \/ temp[jobs[j].file] = j
        \/ temp[jobs[j].file] \in Jobs \ {j} /\ ~jobs[temp[jobs[j].file]].alone
    BY <1>1, <1>2, <1>19, <2>3 DEF Move, File, DiskInv, OwnTemp
  <2>7. ~Working(r) /\ ~Holding(r) /\ ~Authorised(r)
    BY <2>2 DEF Working, Holding, Authorised
  <2> QED
    <3>1. \/ disk'[jobs[j].file] = j /\ (r.alone => r.phase = "done" /\ Sound(r, jobs[j].file))
          \/ disk'[jobs[j].file] \in Jobs \ {j} /\ ~jobs[disk'[jobs[j].file]].alone
      BY <2>2, <2>4, <2>5, <2>6
    <3>2. RunsTo(j, jobs[j].file, r)
      BY <1>1, <2>1, <2>2, <2>5, <2>7, <3>1 DEF RunsTo
    <3> QED
      BY <3>2, RunStep
<1> QED
  BY <1>3, <1>4, <1>5, <1>6, <1>7, <1>8, <1>9, <1>10, <1>11, <1>12,
     <1>13, <1>14, <1>15, <1>16, <1>17, <1>18, <1>19 DEF JobStep

\* A handler that begins beside another is not alone, nor is the other any more.
LEMMA BeginDisk ==
  ASSUME TypeInv, DiskInv, NEW j \in Jobs, jobs[j].phase = "idle",
         NEW r \in JobStates, Begin(j, r), Working(r), ~Holding(r), ~Authorised(r),
         UNCHANGED <<disk, temp>>
  PROVE  DiskInv'
<1>1. /\ jobs'[j].phase = r.phase /\ jobs'[j].file = r.file
      /\ jobs'[j].alone = \A o \in Jobs : ~AtWorkOn(o, r.file)
  BY BeginFields
<1>2. \A i \in Jobs \ {j} :
          /\ jobs'[i].phase = jobs[i].phase /\ jobs'[i].file = jobs[i].file
          /\ jobs'[i].body = jobs[i].body
          /\ jobs'[i].alone = (jobs[i].alone /\ ~AtWorkOn(i, r.file))
  BY BeginFields
<1>3. \A i \in Jobs : AtWorkOn(i, r.file) <=> Working(jobs[i]) /\ jobs[i].file = r.file
  BY DEF AtWorkOn, InFlight, File, Working
<1>4. jobs[j].alone
  BY DEF DiskInv, Exclusive
<1>5. Exclusive'
  <2>1. ASSUME NEW i \in Jobs, jobs'[i].phase = "idle" PROVE jobs'[i].alone
    <3>1. i # j
      BY <1>1, <2>1 DEF Working
    <3>2. jobs[i].phase = "idle" /\ jobs'[i].alone = (jobs[i].alone /\ ~AtWorkOn(i, r.file))
      BY <1>2, <2>1, <3>1
    <3>3. jobs[i].alone /\ ~AtWorkOn(i, r.file)
      BY <1>3, <3>2 DEF DiskInv, Exclusive, Working
    <3> QED
      BY <3>2, <3>3
  <2>2. ASSUME NEW i \in Jobs, NEW h \in Jobs, Working(jobs'[i]), jobs'[i].alone,
               Working(jobs'[h]), jobs'[h].file = jobs'[i].file
        PROVE  i = h
    <3>1. CASE i = j /\ h # j
      <4>1. ~AtWorkOn(h, r.file) /\ jobs'[h].file = r.file
        BY <1>1, <2>2, <3>1
      <4> QED
        BY <1>2, <1>3, <2>2, <3>1, <4>1 DEF Working
    <3>2. CASE i # j /\ h = j
      <4>1. ~AtWorkOn(i, r.file) /\ jobs'[i].file = r.file
        BY <1>1, <1>2, <2>2, <3>2
      <4> QED
        BY <1>2, <1>3, <2>2, <3>2, <4>1 DEF Working
    <3>3. CASE i # j /\ h # j
      <4>1. /\ Working(jobs[i]) /\ jobs[i].alone
            /\ Working(jobs[h]) /\ jobs[h].file = jobs[i].file
        BY <1>2, <2>2, <3>3 DEF Working
      <4> QED
        BY <4>1 DEF DiskInv, Exclusive
    <3> QED
      BY <3>1, <3>2, <3>3
  <2> QED
    BY <2>1, <2>2 DEF Exclusive
<1>6. OwnTemp'
  <2> SUFFICES ASSUME NEW i \in Jobs, Holding(jobs'[i]), temp'[jobs'[i].file] \notin {i, None}
               PROVE  ~jobs'[i].alone /\ ~jobs'[temp'[jobs'[i].file]].alone
    BY DEF OwnTemp
  <2>1. i # j
    BY <1>1 DEF Holding
  <2>2. Holding(jobs[i]) /\ jobs'[i].file = jobs[i].file
    BY <1>2, <2>1 DEF Holding
  <2>3. jobs[i].file \in Files /\ temp \in [Files -> Jobs \cup {None}]
    BY <2>2, WorkingKinds, WorkingFile DEF TypeInv, TypeOK
  <2>4. /\ ~jobs[i].alone /\ ~jobs[temp[jobs[i].file]].alone
        /\ temp[jobs[i].file] \in Jobs
    BY <2>2, <2>3 DEF DiskInv, OwnTemp
  <2> QED
    BY <1>2, <1>4, <2>1, <2>2, <2>4
<1>7. AuthorisedIsSound'
  <2> SUFFICES ASSUME NEW i \in Jobs, Authorised(jobs'[i]), jobs'[i].alone
               PROVE  Sound(jobs'[i], jobs'[i].file)
    BY DEF AuthorisedIsSound
  <2>1. i # j
    BY <1>1 DEF Authorised
  <2>2. Authorised(jobs[i]) /\ jobs[i].alone
    BY <1>2, <2>1 DEF Authorised
  <2> QED
    BY <1>2, <2>1, <2>2 DEF DiskInv, AuthorisedIsSound, Sound
<1>8. LandedIsDone'
  <2> SUFFICES ASSUME NEW f \in Files, disk[f] \in Jobs, jobs'[disk[f]].alone
               PROVE  jobs'[disk[f]].phase = "done" /\ Sound(jobs'[disk[f]], f)
    BY DEF LandedIsDone
  <2>1. disk[f] # j
    BY <1>4 DEF DiskInv, LandedIsDone
  <2>2. jobs[disk[f]].alone
    BY <1>2, <2>1
  <2> QED
    BY <1>2, <2>1, <2>2 DEF DiskInv, LandedIsDone, Sound
<1> QED
  BY <1>5, <1>6, <1>7, <1>8 DEF DiskInv

\* A new request opens nothing yet.
LEMMA RequestDisk ==
  ASSUME TypeInv, DiskInv,
         \/ \E j \in Jobs, k \in Keys : RequestPlaylist(j, k)
         \/ \E j \in Jobs, s \in Segs : RequestSegment(j, s)
  PROVE  DiskInv'
<1>1. ASSUME NEW j \in Jobs, NEW k \in Keys, RequestPlaylist(j, k)
      PROVE  DiskInv'
  <2> DEFINE r == [NoJob EXCEPT !.phase = "fetching", !.file = k, !.key = k,
                                !.gen = generation[k]]
  <2>1. r \in JobStates /\ r.phase = "fetching" /\ r.file = k
    BY DEF NoJob, JobStates, Phases, Files, TypeInv, TypeOK
  <2>2. Begin(j, r) /\ jobs[j].phase = "idle" /\ UNCHANGED <<disk, temp>>
    BY <1>1 DEF RequestPlaylist, Begins, At
  <2> HIDE DEF r
  <2>3. Working(r) /\ ~Holding(r) /\ ~Authorised(r)
    BY <2>1 DEF Working, Holding, Authorised
  <2> QED
    BY <2>1, <2>2, <2>3, BeginDisk
<1>2. ASSUME NEW j \in Jobs, NEW s \in Segs, RequestSegment(j, s)
      PROVE  DiskInv'
  <2> DEFINE r == [NoJob EXCEPT !.phase = "lookup", !.file = s, !.key = lastOwner]
  <2>1. r \in JobStates /\ r.phase = "lookup" /\ r.file = s
    BY DEF NoJob, JobStates, Phases, Files, TypeInv, TypeOK
  <2>2. Begin(j, r) /\ jobs[j].phase = "idle" /\ UNCHANGED <<disk, temp>>
    BY <1>2 DEF RequestSegment, Begins, At
  <2> HIDE DEF r
  <2>3. Working(r) /\ ~Holding(r) /\ ~Authorised(r)
    BY <2>1 DEF Working, Holding, Authorised
  <2> QED
    BY <2>1, <2>2, <2>3, BeginDisk
<1> QED
  BY <1>1, <1>2

\* Evictions, removals, wipes and look-ups only ever take files away.
LEMMA OtherStepDisk ==
  ASSUME TypeInv, DiskInv, OtherStep
  PROVE  DiskInv'
<1>1. UNCHANGED jobs
  BY OtherStepJobs
<1>2. \A g \in Files : disk'[g] \in {disk[g], None} /\ temp'[g] \in {temp[g], None}
  <2>1. /\ disk \in [Files -> Jobs \cup {Old, None}]
        /\ temp \in [Files -> Jobs \cup {None}]
    BY DEF TypeInv, TypeOK
  <2> QED
    BY <2>1 DEF OtherStep, Upkeep, Clear, LookUp, BeginLookup, Remove, Evict, LookupAwaits,
                LookupEnds, EntryStat, FinalStat, TempStat, UnlinkTemp, UnlinkEvicted,
                UnlinkMissing, UnlinkDoomed, Wipe
<1>3. Exclusive' /\ AuthorisedIsSound'
  BY <1>1 DEF DiskInv, Exclusive, AuthorisedIsSound
<1>4. OwnTemp'
  BY <1>1, <1>2, WorkingKinds, WorkingFile DEF DiskInv, OwnTemp
<1>5. LandedIsDone'
  BY <1>1, <1>2, NamesApart DEF DiskInv, LandedIsDone
<1> QED
  BY <1>3, <1>4, <1>5 DEF DiskInv

\* A session starts over the files of earlier ones, with no handler at work.
LEMMA InitDisk == Init => DiskInv
<1> SUFFICES ASSUME Init PROVE DiskInv
  OBVIOUS
<1>1. NoJob.phase = "idle" /\ NoJob.alone
  BY DEF NoJob
<1>2. \A j \in Jobs :
          /\ ~Working(jobs[j]) /\ ~Holding(jobs[j]) /\ ~Authorised(jobs[j])
          /\ jobs[j].alone
  BY <1>1 DEF Init, Working, Holding, Authorised
<1>3. \A f \in Files : disk[f] \notin Jobs
  BY NamesApart DEF Init
<1> QED
  BY <1>2, <1>3 DEF DiskInv, Exclusive, OwnTemp, AuthorisedIsSound, LandedIsDone

\* What a handler beside which nobody wrote to its path leaves there is whole, and for a
\* segment a successful answer in full length, through any number of evictions, removals,
\* wipes, look-ups and failed moves; requests that overlap on other paths, or on this one
\* before and after it, change nothing of that.
THEOREM VerifiedTheorem == Spec => []VerifiedOnDisk
<1>1. TypeInv /\ DiskInv /\ [Next]_vars => DiskInv'
  <2> SUFFICES ASSUME TypeInv, DiskInv, [Next]_vars PROVE DiskInv'
    OBVIOUS
  <2>1. CASE UNCHANGED vars
    BY <2>1 DEF vars, DiskInv, Exclusive, OwnTemp, AuthorisedIsSound, LandedIsDone
  <2>2. CASE Next
    BY <2>2, RequestDisk, JobStepDisk, OtherStepDisk DEF Next, OtherStep
  <2> QED
    BY <2>1, <2>2
<1>2. DiskInv => VerifiedOnDisk
  BY DEF DiskInv, LandedIsDone, Sound, VerifiedOnDisk
<1> QED
  BY <1>1, <1>2, InitTyped, NextTyped, InitDisk, PTL DEF Spec

-----------------------------------------------------------------------------
(* Who answers for a file.  Between the steps only the keys of the handlers   *)
(* and the shape of the entries matter: everything else is seen in the step.  *)

Keyed(r) ==
    /\ r.phase = "fetching" \/ r.phase \in HoldsBody => r.key \in Keys
    /\ Working(r) /\ r.file \in Keys => r.key = r.file

\* A playlist's handler works for its own key, a segment's for a registered owner's; only
\* an hls entry lists segments.
OwnerInv ==
    /\ \A j \in Jobs : Keyed(jobs[j])
    /\ \A k \in Keys : registry[k].kind # "hls" => registry[k].segs = {}

LEMMA InitOwner == Init => OwnerInv
<1> SUFFICES ASSUME Init PROVE OwnerInv
  OBVIOUS
<1>1. Keyed(NoJob)
  BY DEF Keyed, NoJob, HoldsBody, Working
<1>2. Missing.segs = {}
  BY DEF Missing
<1> QED
  BY <1>1, <1>2 DEF Init, OwnerInv

\* A handler that has answered owes nothing.
LEMMA AnswerKeyed ==
  ASSUME TypeInv, OwnerInv, NEW j \in Jobs, NEW body, AnswerLeaving(j, body)
  PROVE  \A i \in Jobs : Keyed(jobs'[i])
<1> DEFINE r == [NoJob EXCEPT !.phase = "done", !.body = body,
                              !.sent = jobs[j].sent + 1, !.alone = jobs[j].alone]
<1>1. jobs' = [jobs EXCEPT ![j] = r]
  BY DEF AnswerLeaving
<1>2. Keyed(r)
  BY DEF NoJob, Keyed, Working, HoldsBody
<1> HIDE DEF r
<1> QED
  BY <1>1, <1>2 DEF TypeInv, TypeOK, OwnerInv

\* One that goes on keeps its path and its key.
LEMMA GotoKeyed ==
  ASSUME TypeInv, OwnerInv, NEW j \in Jobs, Working(jobs[j]),
         NEW r, jobs' = [jobs EXCEPT ![j] = r],
         r.file = jobs[j].file, r.key = jobs[j].key,
         \/ r.phase \in {"streaming", "fallback"}
         \/ jobs[j].phase = "fetching" \/ jobs[j].phase \in HoldsBody
         \/ r.key \in Keys
  PROVE  \A i \in Jobs : Keyed(jobs'[i])
<1>1. Keyed(r)
  BY DEF OwnerInv, Keyed, HoldsBody, Working
<1> QED
  BY <1>1 DEF TypeInv, TypeOK, OwnerInv

\* Every step of a handler keeps the keys.
LEMMA JobStepKeyed ==
  ASSUME TypeInv, OwnerInv, NEW j \in Jobs, JobStep(j)
  PROVE  \A i \in Jobs : Keyed(jobs'[i])
<1>0. jobs \in [Jobs -> JobStates] /\ jobs[j] \in JobStates
  BY DEF TypeInv, TypeOK
<1>1. CASE \E body : AnswerLeaving(j, body)
  BY <1>1, AnswerKeyed
<1>2. ASSUME NEW p, Goto(j, p), Working(jobs[j]),
             \/ p \in {"streaming", "fallback"}
             \/ jobs[j].phase = "fetching" \/ jobs[j].phase \in HoldsBody
      PROVE  \A i \in Jobs : Keyed(jobs'[i])
  <2> DEFINE r == [jobs[j] EXCEPT !.phase = p]
  <2>1. /\ jobs' = [jobs EXCEPT ![j] = r]
        /\ r.file = jobs[j].file /\ r.key = jobs[j].key /\ r.phase = p
    BY <1>0, <1>2 DEF Goto, JobStates
  <2> HIDE DEF r
  <2> QED
    BY <1>2, <2>1, GotoKeyed
<1>3. CASE FetchSegment(j)
  <2> DEFINE r == [jobs[j] EXCEPT !.phase = "fetching", !.held = registry[Key(j)].kind,
                                  !.gen = generation[Key(j)]]
  <2>1. /\ jobs' = [jobs EXCEPT ![j] = r]
        /\ r.file = jobs[j].file /\ r.key = jobs[j].key /\ r.phase = "fetching"
    BY <1>0, <1>3 DEF FetchSegment, JobStates
  <2> HIDE DEF r
  <2>2. r.key \in Keys /\ Working(jobs[j])
    BY <1>3, <2>1 DEF FetchSegment, Key, NotOnDisk, Working
  <2> QED
    BY <2>1, <2>2, GotoKeyed
<1>4. CASE FetchDone(j)
  <2>1. PICK body : jobs' = [jobs EXCEPT
            ![j].body = body,
            ![j].phase = IF IsPlaylist(j) THEN "writing" ELSE "reading"]
    BY <1>4 DEF FetchDone
  <2> DEFINE r == [jobs[j] EXCEPT
            !.body = body, !.phase = IF IsPlaylist(j) THEN "writing" ELSE "reading"]
  <2>2. /\ jobs' = [jobs EXCEPT ![j] = r]
        /\ r.file = jobs[j].file /\ r.key = jobs[j].key
    BY <1>0, <2>1 DEF JobStates
  <2> HIDE DEF r
  <2>3. jobs[j].phase = "fetching" /\ Working(jobs[j])
    BY <1>4 DEF FetchDone, At, Working
  <2> QED
    BY <2>2, <2>3, GotoKeyed
<1>5. CASE LookupHit(j)
  BY <1>2, <1>5 DEF LookupHit, At, Working
<1>6. CASE ReadTemp(j) \/ WriteEnds(j) \/ Authorise(j) \/ ClearFinal(j)
  BY <1>2, <1>6 DEF ReadTemp, WriteEnds, Authorise, ClearFinal, At, Working, HoldsBody
<1>7. CASE FetchFails(j) \/ Discard(j)
  <2>1. Answer(j) \/ Goto(j, "fallback")
    BY <1>7 DEF FetchFails, Discard
  <2>2. Working(jobs[j])
    BY <1>7 DEF FetchFails, Discard, At, Working
  <2> QED
    BY <1>1, <1>2, <2>1, <2>2 DEF Answer
<1> QED
  BY <1>1, <1>3, <1>4, <1>5, <1>6, <1>7
     DEF JobStep, Streamed, OwnerMissing, ReadFails, WriteFails, Fallback, StatFails,
         Move, MoveFails, Answer

\* OwnerInv is inductive.
LEMMA NextOwner == TypeInv /\ OwnerInv /\ [Next]_vars => OwnerInv'
<1> SUFFICES ASSUME TypeInv, OwnerInv, [Next]_vars PROVE OwnerInv'
  OBVIOUS
<1>1. \A k \in Keys : registry'[k].kind # "hls" => registry'[k].segs = {}
  <2> SUFFICES ASSUME NEW k \in Keys
               PROVE  registry'[k].kind # "hls" => registry'[k].segs = {}
    OBVIOUS
  <2>1. registry'[k] \in Successors(registry[k]) /\ registry[k] \in Entries
    BY RegistrySteps DEF TypeInv, TypeOK
  <2>2. /\ registry[k].kind # "hls" => registry[k].segs = {}
        /\ WithPlaylist(registry[k]).kind = "hls"
        /\ Missing.segs = {} /\ Media.segs = {}
    BY DEF OwnerInv, WithPlaylist, FreshHls, Missing, Media
  <2>3. ASSUME NEW f PROVE \/ WithSegment(registry[k], f) = registry[k]
                           \/ WithSegment(registry[k], f).kind = "hls"
    BY <2>1 DEF WithSegment, Entries
  <2> QED
    BY <2>1, <2>2, <2>3 DEF Successors
<1>2. \A i \in Jobs : Keyed(jobs'[i])
  <2>1. CASE UNCHANGED jobs
    BY <2>1 DEF OwnerInv
  <2>2. ASSUME NEW j \in Jobs, JobStep(j) PROVE \A i \in Jobs : Keyed(jobs'[i])
    BY <2>2, JobStepKeyed
  <2>3. ASSUME NEW j \in Jobs, NEW r \in JobStates, Begin(j, r), Keyed(r)
        PROVE  \A i \in Jobs : Keyed(jobs'[i])
    <3>1. /\ jobs'[j].phase = r.phase /\ jobs'[j].file = r.file /\ jobs'[j].key = r.key
          /\ \A i \in Jobs \ {j} :
                /\ jobs'[i].phase = jobs[i].phase /\ jobs'[i].file = jobs[i].file
                /\ jobs'[i].key = jobs[i].key
      BY <2>3, BeginFields
    <3>2. Keyed(jobs'[j])
      BY <2>3, <3>1 DEF Keyed, Working
    <3>3. ASSUME NEW i \in Jobs \ {j} PROVE Keyed(jobs'[i])
      BY <3>1 DEF OwnerInv, Keyed, Working
    <3> QED
      BY <3>2, <3>3
  <2>4. ASSUME NEW j \in Jobs, NEW k \in Keys, RequestPlaylist(j, k)
        PROVE  \A i \in Jobs : Keyed(jobs'[i])
    <3> DEFINE r == [NoJob EXCEPT !.phase = "fetching", !.file = k, !.key = k,
                                  !.gen = generation[k]]
    <3>1. r \in JobStates /\ Keyed(r)
      BY DEF NoJob, JobStates, Phases, Files, TypeInv, TypeOK, Keyed
    <3>2. Begin(j, r)
      BY <2>4 DEF RequestPlaylist
    <3> HIDE DEF r
    <3> QED
      BY <2>3, <3>1, <3>2
  <2>5. ASSUME NEW j \in Jobs, NEW s \in Segs, RequestSegment(j, s)
        PROVE  \A i \in Jobs : Keyed(jobs'[i])
    <3> DEFINE r == [NoJob EXCEPT !.phase = "lookup", !.file = s, !.key = lastOwner]
    <3>1. r \in JobStates /\ Keyed(r)
      BY NamesApart DEF NoJob, JobStates, Phases, Files, TypeInv, TypeOK, Keyed, HoldsBody
    <3>2. Begin(j, r)
      BY <2>5 DEF RequestSegment
    <3> HIDE DEF r
    <3> QED
      BY <2>3, <3>1, <3>2
  <2> QED
    BY <2>1, <2>2, <2>4, <2>5, OtherStepJobs DEF Next, OtherStep, vars
<1> QED
  BY <1>1, <1>2 DEF OwnerInv

\* An entry that only gains files lists what it listed.
LEMMA ListedKept ==
  ASSUME NEW f,
         \A k \in Keys :
            registry[k].kind # "none" =>
               registry'[k].kind # "none" /\ registry[k].segs \subseteq registry'[k].segs
  PROVE  Listed(f) => Listed(f)'
  BY DEF Listed

\* Registering a playlist or a segment only adds to an entry.
LEMMA EntryGrows ==
  ASSUME NEW e \in Entries, e.kind # "hls" => e.segs = {}
  PROVE  /\ WithPlaylist(e).kind = "hls" /\ e.segs \subseteq WithPlaylist(e).segs
         /\ \A s \in Segs :
               /\ WithSegment(e, s).kind = e.kind
               /\ e.segs \subseteq WithSegment(e, s).segs
               /\ e.kind = "hls" => s \in WithSegment(e, s).segs
<1>1. WithPlaylist(e).kind = "hls" /\ e.segs \subseteq WithPlaylist(e).segs
  BY DEF WithPlaylist, FreshHls
<1>2. ASSUME NEW s \in Segs
      PROVE  /\ WithSegment(e, s).kind = e.kind
             /\ e.segs \subseteq WithSegment(e, s).segs
             /\ e.kind = "hls" => s \in WithSegment(e, s).segs
  <2>1. [e EXCEPT !.segs = @ \cup {s}, !.bytes = @ + 1].kind = e.kind
        /\ [e EXCEPT !.segs = @ \cup {s}, !.bytes = @ + 1].segs = e.segs \cup {s}
    BY DEF Entries
  <2> QED
    BY <2>1 DEF WithSegment
<1> QED
  BY <1>1, <1>2

\* The steps of a handler leave no file without an entry, but for the promote of a
\* segment whose owner is no hls entry, or was none when it was read.
LEMMA JobStepOrphan ==
  ASSUME TypeInv, TypeInv', OwnerInv, NEW j \in Jobs, JobStep(j), NEW f \in Files,
         Accounted(f),
         ~ /\ At(j, "moving") /\ ~IsPlaylist(j) /\ jobs'[j].phase = "done"
           /\ "hls" # registry[Key(j)].kind \/ jobs[j].held = "media"
  PROVE  Accounted(f)'
<1>0. /\ registry \in [Keys -> Entries] /\ jobs \in [Jobs -> JobStates]
      /\ disk \in [Files -> Jobs \cup {Old, None}]
      /\ \A k \in Keys : /\ registry[k] \in Entries
                         /\ registry[k].kind # "hls" => registry[k].segs = {}
  BY DEF TypeInv, TypeOK, OwnerInv
<1>1. UNCHANGED <<evicting, doomed, wiping>>
  BY DEF JobStep, LookupHit, Streamed, OwnerMissing, FetchSegment, FetchFails, FetchDone,
         ReadTemp, ReadFails, WriteEnds, WriteFails, Fallback, Discard, StatFails,
         Authorise, ClearFinal, Move, MoveFails, upkeep
<1>2. CASE UNCHANGED <<registry, disk>>
  BY <1>1, <1>2 DEF Accounted, Listed
<1>3. CASE ClearFinal(j)
  <2>1. disk'[f] \in {disk[f], None} /\ UNCHANGED registry
    BY <1>0, <1>3 DEF ClearFinal
  <2> QED
    BY <1>1, <2>1, NamesApart DEF Accounted, Listed
<1>4. CASE Streamed(j)
  <2>1. File(j) \in Segs
    BY <1>4 DEF Streamed, At, TypeInv, HasFile
  <2>2. \A k \in Keys : registry[k].kind # "none" =>
           registry'[k].kind # "none" /\ registry[k].segs \subseteq registry'[k].segs
    BY <1>0, <1>4, <2>1, EntryGrows DEF Streamed
  <2>3. UNCHANGED disk
    BY <1>4 DEF Streamed
  <2> QED
    BY <1>1, <2>2, <2>3, ListedKept DEF Accounted
<1>5. CASE Move(j)
  <2>1. File(j) \in Files /\ Key(j) \in Keys /\ (IsPlaylist(j) => Key(j) = File(j))
        /\ (~IsPlaylist(j) => File(j) \in Segs)
    BY <1>5, NamesApart DEF Move, At, TypeInv, HasFile, InFlight, OwnerInv, Keyed, Working,
                            HoldsBody, File, Key, IsPlaylist
  <2>2. jobs'[j].phase = "done"
    BY <1>0, <1>5 DEF Move, AnswerLeaving, NoJob
  <2>3. ~IsPlaylist(j) => registry[Key(j)].kind = "hls" /\ jobs[j].held # "media"
    BY <1>5, <2>2 DEF Move
  <2> DEFINE e == registry'[Key(j)]
  <2>4. /\ \A k \in Keys \ {Key(j)} : registry'[k] = registry[k]
        /\ e = IF IsPlaylist(j) THEN WithPlaylist(registry[Key(j)])
               ELSE WithSegment(registry[Key(j)], File(j))
    BY <1>0, <1>5, <2>1, <2>3 DEF Move
  <2> HIDE DEF e
  <2>5. /\ e.kind = "hls" /\ registry[Key(j)].segs \subseteq e.segs
        /\ File(j) \in {Key(j)} \cup e.segs
    BY <1>0, <2>1, <2>3, <2>4, EntryGrows
  <2>6. \A k \in Keys : registry[k].kind # "none" =>
             registry'[k].kind # "none" /\ registry[k].segs \subseteq registry'[k].segs
    <3> SUFFICES ASSUME NEW k \in Keys, registry[k].kind # "none"
                 PROVE  registry'[k].kind # "none" /\ registry[k].segs \subseteq registry'[k].segs
      OBVIOUS
    <3>1. CASE k = Key(j)
      BY <2>5, <3>1 DEF e
    <3>2. CASE k # Key(j)
      BY <2>4, <3>2
    <3> QED
      BY <3>1, <3>2
  <2>7. \E k \in Keys : registry'[k].kind # "none" /\ File(j) \in {k} \cup registry'[k].segs
    BY <2>1, <2>5 DEF e
  <2>8. Listed(f) => Listed(f)'
    BY <2>6, ListedKept
  <2>9. CASE f = File(j)
    BY <2>7, <2>9 DEF Accounted, Listed
  <2>10. CASE f # File(j)
    <3>1. disk'[f] = disk[f]
      BY <1>0, <1>5, <2>10 DEF Move
    <3> QED
      BY <1>1, <2>8, <3>1 DEF Accounted
  <2> QED
    BY <2>9, <2>10
<1> QED
  BY <1>2, <1>3, <1>4, <1>5
     DEF JobStep, LookupHit, OwnerMissing, FetchSegment, FetchFails, FetchDone, ReadTemp,
         ReadFails, WriteEnds, WriteFails, Fallback, Discard, StatFails, Authorise, MoveFails

\* Evictions, removals, wipes and their unlinks hand every file on; so do look-ups whose
\* entry still has its file.
LEMMA OtherStepOrphan ==
  ASSUME TypeInv, OwnerInv, OtherStep, NEW f \in Files, Accounted(f),
         ~ \E c \in Callers, k \in Keys :
              looking[c][k] \in {"found", "missed"} /\ looking'[c][k] = "none"
  PROVE  Accounted(f)'
<1>0. /\ registry \in [Keys -> Entries] /\ disk \in [Files -> Jobs \cup {Old, None}]
      /\ looking \in [Callers -> [Keys -> Stages]]
  BY DEF TypeInv, TypeOK
<1>1. ASSUME NEW k \in Keys,
             registry' = [registry EXCEPT ![k] = Missing],
             EvictedFiles(k, registry[k]) \subseteq evicting' \cup doomed',
             evicting \cup doomed \subseteq evicting' \cup doomed',
             UNCHANGED <<disk, wiping>>
      PROVE  Accounted(f)'
  <2>1. ASSUME NEW q \in Keys, registry[q].kind # "none", f \in {q} \cup registry[q].segs
        PROVE  Listed(f)' \/ f \in evicting' \cup doomed'
    <3>1. CASE q = k
      BY <1>1, <2>1, <3>1 DEF EvictedFiles
    <3>2. CASE q # k
      BY <1>0, <1>1, <2>1, <3>2 DEF Listed
    <3> QED
      BY <3>1, <3>2
  <2> QED
    BY <1>1, <2>1 DEF Accounted, Listed
<1>2. CASE UNCHANGED <<registry, disk, evicting, doomed, wiping>>
  BY <1>2 DEF Accounted, Listed
<1>3. ASSUME NEW k \in Keys, Evict(k) PROVE Accounted(f)'
  BY <1>1, <1>3 DEF Evict
<1>4. ASSUME NEW c \in Callers, NEW k \in Keys, LookupEnds(c, k) PROVE Accounted(f)'
  <2>1. looking'[c][k] = "none"
    BY <1>0, <1>4 DEF LookupEnds, AwaitNext
  <2>2. looking[c][k] = "kept"
    BY <1>4, <2>1 DEF LookupEnds
  <2>3. CASE c = "removal"
    BY <1>1, <1>4, <2>2, <2>3 DEF LookupEnds
  <2>4. CASE c # "removal"
    BY <1>0, <1>2, <1>4, <2>2, <2>4 DEF LookupEnds
  <2> QED
    BY <2>3, <2>4
<1>5. CASE Clear
  BY <1>5 DEF Clear, Accounted
<1>6. CASE Wipe
  BY <1>6, NamesApart DEF Wipe, Accounted
<1>7. ASSUME NEW g \in Files, UnlinkEvicted(g) \/ UnlinkMissing(g) \/ UnlinkDoomed(g)
      PROVE  Accounted(f)'
  <2>1. CASE f = g
    <3>1. disk'[f] = None
      BY <1>0, <1>7, <2>1 DEF UnlinkEvicted, UnlinkMissing, UnlinkDoomed
    <3> QED
      BY <3>1, NamesApart DEF Accounted
  <2>2. CASE f # g
    <3>1. /\ disk'[f] = disk[f] /\ UNCHANGED <<registry, wiping>>
          /\ f \in evicting \cup doomed => f \in evicting' \cup doomed'
      BY <1>0, <1>7, <2>2 DEF UnlinkEvicted, UnlinkMissing, UnlinkDoomed
    <3> QED
      BY <3>1 DEF Accounted, Listed
  <2> QED
    BY <2>1, <2>2
<1> QED
  BY <1>2, <1>3, <1>4, <1>5, <1>6, <1>7
     DEF OtherStep, Upkeep, LookUp, Remove, BeginLookup, LookupAwaits

\* No file of the session is forgotten on disk by any interleaving of evictions, removals,
\* wipes, failed unlinks, re-ingests and promotes, for any assets and segments: only a
\* look-up's late answer and the promote of a segment whose owner is no hls entry leave one.
THEOREM OrphanTheorem == Spec => NoOrphan
<1> DEFINE A == \A f \in Files : Accounted(f) =>
          \/ Accounted(f)'
          \/ \E c \in Callers, k \in Keys :
                looking[c][k] \in {"found", "missed"} /\ looking'[c][k] = "none"
          \/ \E j \in Jobs :
                /\ At(j, "moving") /\ ~IsPlaylist(j) /\ jobs'[j].phase = "done"
                /\ "hls" # registry[Key(j)].kind \/ jobs[j].held = "media"
<1>1. TypeInv /\ TypeInv' /\ OwnerInv /\ [Next]_vars => [A]_vars
  <2> SUFFICES ASSUME TypeInv, TypeInv', OwnerInv, Next, NEW f \in Files, Accounted(f),
                      ~ \E c \in Callers, k \in Keys :
                           looking[c][k] \in {"found", "missed"} /\ looking'[c][k] = "none",
                      ~ \E j \in Jobs :
                           /\ At(j, "moving") /\ ~IsPlaylist(j) /\ jobs'[j].phase = "done"
                           /\ "hls" # registry[Key(j)].kind \/ jobs[j].held = "media"
               PROVE  Accounted(f)'
    OBVIOUS
  <2>1. CASE \E j \in Jobs : JobStep(j)
    BY <2>1, JobStepOrphan
  <2>2. CASE OtherStep
    BY <2>2, OtherStepOrphan
  <2>3. CASE \/ \E j \in Jobs, k \in Keys : RequestPlaylist(j, k)
             \/ \E j \in Jobs, s \in Segs : RequestSegment(j, s)
    BY <2>3 DEF RequestPlaylist, RequestSegment, upkeep, Accounted, Listed
  <2> QED
    BY <2>1, <2>2, <2>3 DEF Next, OtherStep
<1>2. NoOrphan <=> [][A]_vars
  BY DEF NoOrphan
<1> HIDE DEF A
<1> QED
  BY <1>1, <1>2, InitTyped, NextTyped, InitOwner, NextOwner, PTL DEF Spec
=============================================================================
