---------------------- MODULE RegistryPersistenceProofs ----------------------
(***************************************************************************)
(* Theorems about RegistryPersistence, for any assets and any number of    *)
(* events and of writes and loads in flight.                               *)
(*                                                                         *)
(* The argument for SavedSurvives: as long as the registry owes anything   *)
(* to the document it was launched with, nobody has written, wiped or      *)
(* swept it (OwedInv), so that whichever load reads it last finds all that *)
(* is owed there.                                                          *)
(***************************************************************************)
EXTENDS RegistryPersistence, FiniteSetTheorems, TLAPS

\* What is known to be saved is what the document holds.
SavedInv == saved # {} => doc.kind = "current" /\ saved = doc.entries

\* Only current documents are written.
WritesCurrent == \A w \in writes : w.document.kind = "current"

OwedInv ==
    owed # {} =>
        /\ alive /\ ~wiping /\ writes = {}
        /\ doc.kind = "current" /\ owed \subseteq doc.entries
        /\ \A l \in loads : l.at = "read"
        /\ owed \subseteq entries \/ loads # {}

IInv == TypeOK /\ SavedInv /\ WritesCurrent /\ OwedInv

-----------------------------------------------------------------------------
(* Types *)

\* What a save writes and what a first launch finds are documents.
LEMMA DocumentsTyped ==
    /\ \A kind \in Kinds : Blank(kind) \in Documents
    /\ \A E \in SUBSET Keys, T \in SUBSET Keys : Current(E, T) \in Documents
  BY DEF Blank, Current, Documents, Kinds

\* A save queues well-typed writes of a current document.
LEMMA SaveTyped ==
  ASSUME TypeOK, WritesCurrent, NEW n \in Nat, Save(n)
  PROVE  writes' \subseteq Writes /\ \A w \in writes' : w.document.kind = "current"
<1>1. PICK I \in SUBSET Free(writes) :
          writes' = writes \union
              {[id |-> i, at |-> "queued", mixed |-> FALSE,
                document |-> Current(entries, totals)] : i \in I}
  BY DEF Save
<1>2. I \subseteq Ids
  BY DEF Free, Ids
<1>3. Current(entries, totals) \in Documents /\ Current(entries, totals).kind = "current"
  BY DocumentsTyped DEF TypeOK, Current
<1>4. \A i \in I : [id |-> i, at |-> "queued", mixed |-> FALSE,
                    document |-> Current(entries, totals)] \in Writes
  BY <1>2, <1>3 DEF Writes
<1> QED
  BY <1>1, <1>3, <1>4 DEF TypeOK, WritesCurrent

\* Loads begin by reading; one or more of them are in flight then.
LEMMA StartLoadTyped ==
  ASSUME TypeOK, NEW n \in Nat, StartLoad(n)
  PROVE  /\ loads' \subseteq Loads
         /\ \A l \in loads' : l \in loads \/ l.at = "read"
         /\ n # 0 => loads' # {}
<1>1. PICK I \in SUBSET Free(loads) :
          /\ Cardinality(I) = n
          /\ loads' = loads \union {[id |-> i, at |-> "read", left |-> {}] : i \in I}
  BY DEF StartLoad
<1>2. I \subseteq Ids
  BY DEF Free, Ids
<1>3. \A i \in I : [id |-> i, at |-> "read", left |-> {}] \in Loads
  BY <1>2 DEF Loads
<1>4. n # 0 => I # {}
  BY <1>1, FS_EmptySet
<1>5. loads' \subseteq Loads
  BY <1>1, <1>3 DEF TypeOK
<1>6. \A l \in loads' : l \in loads \/ l.at = "read"
  BY <1>1
<1>7. n # 0 => loads' # {}
  BY <1>1, <1>4
<1> QED
  BY <1>5, <1>6, <1>7

-----------------------------------------------------------------------------
(* Every action keeps the invariant *)

\* The life of the provider and of the process keeps IInv.
LEMMA ProviderInv ==
  ASSUME IInv, Launch \/ Background \/ Foreground \/ ChangePolicy \/ Kill
  PROVE  IInv'
<1> USE DEF IInv
<1>0. ops' \in 0 .. MaxOps /\ UNCHANGED <<files, doc, saved>>
  BY BoundsAssumption DEF TypeOK, Launch, Background, Foreground, ChangePolicy, Kill, Event, disk
<1>1. SavedInv'
  BY <1>0 DEF SavedInv
<1>2. CASE Launch
  <2>1. /\ loads' \subseteq Loads /\ loads' # {}
        /\ \A l \in loads' : l \in loads \/ l.at = "read"
    BY <1>2, StartLoadTyped DEF Launch
  <2>2. writes = {} /\ loads = {} /\ ~wiping
    BY <1>2 DEF TypeOK, Launch
  <2>3. TypeOK'
    BY <1>0, <1>2, <2>1, <2>2 DEF TypeOK, Launch, disk
  <2>4. WritesCurrent' /\ OwedInv'
    BY <1>0, <1>2, <2>1, <2>2 DEF WritesCurrent, OwedInv, SavedInv, Launch, disk
  <2> QED
    BY <1>1, <2>3, <2>4
<1>3. CASE Background
  <2>1. writes' \subseteq Writes /\ WritesCurrent'
    BY <1>3, SaveTyped DEF Background, WritesCurrent
  <2>2. TypeOK'
    BY <1>0, <1>3, <2>1 DEF TypeOK, Background, disk
  <2> QED
    BY <1>1, <1>3, <2>1, <2>2 DEF OwedInv, Background
<1>4. CASE Foreground
  <2>1. writes' \subseteq Writes /\ WritesCurrent'
    BY <1>4, SaveTyped DEF Foreground, WritesCurrent
  <2>2. loads' \subseteq Loads
    BY <1>4, StartLoadTyped DEF Foreground
  <2>3. TypeOK'
    BY <1>0, <1>4, <2>1, <2>2 DEF TypeOK, Foreground, disk
  <2> QED
    BY <1>1, <1>4, <2>1, <2>3 DEF OwedInv, Foreground
<1>5. CASE ChangePolicy
  <2>1. writes' \subseteq Writes /\ WritesCurrent'
    BY <1>5, SaveTyped DEF ChangePolicy, WritesCurrent
  <2>2. loads' \subseteq Loads
    BY <1>5, StartLoadTyped DEF ChangePolicy
  <2>3. TypeOK'
    BY <1>0, <1>5, <2>1, <2>2 DEF TypeOK, ChangePolicy, disk
  <2> QED
    BY <1>1, <1>5, <2>1, <2>3 DEF OwedInv, ChangePolicy
<1>6. CASE Kill
  BY <1>0, <1>1, <1>6 DEF TypeOK, WritesCurrent, OwedInv, Kill
<1> QED
  BY <1>2, <1>3, <1>4, <1>5, <1>6

\* So does what happens to one asset.
LEMMA AssetInv ==
  ASSUME IInv, NEW k \in Keys, Ingest(k) \/ Drop(k) \/ Heal(k) \/ Purge(k)
  PROVE  IInv'
<1>1. ops' \in 0 .. MaxOps /\ UNCHANGED <<alive, doc, wiping, saved, writes, loads>>
  BY BoundsAssumption DEF IInv, TypeOK, Ingest, Drop, Heal, Purge, Event, memory, disk
<1>2. TypeOK'
  BY <1>1 DEF IInv, TypeOK, Ingest, Drop, Heal, Purge, memory, disk
<1>3. SavedInv' /\ WritesCurrent'
  BY <1>1 DEF IInv, SavedInv, WritesCurrent
<1>4. owed' \subseteq owed /\ (owed \subseteq entries => owed' \subseteq entries')
  BY DEF Ingest, Drop, Heal, Purge, memory
<1>5. OwedInv'
  BY <1>1, <1>4 DEF IInv, OwedInv
<1> QED
  BY <1>2, <1>3, <1>5 DEF IInv

\* So does clearCache, whose wipe ends later.
LEMMA ClearInv ==
  ASSUME IInv, ClearCache \/ WipeEnds
  PROVE  IInv'
<1>1. CASE ClearCache
  BY <1>1, BoundsAssumption DEF IInv, TypeOK, SavedInv, WritesCurrent, OwedInv, ClearCache, Event
<1>2. CASE WipeEnds
  <2>1. doc' \in Documents
    BY <1>2, DocumentsTyped DEF WipeEnds, Kinds
  <2>2. TypeOK'
    BY <1>2, <2>1 DEF IInv, TypeOK, WipeEnds, memory
  <2> QED
    BY <1>2, <2>2 DEF IInv, SavedInv, WritesCurrent, OwedInv, WipeEnds, memory
<1> QED
  BY <1>1, <1>2

\* A write of the document leaves a current one, or a torn one until it ends.
LEMMA WriteInv ==
  ASSUME IInv, NEW w \in writes, WriteBegins(w) \/ WriteEnds(w)
  PROVE  IInv'
<1>0. w \in Writes /\ alive /\ owed = {} /\ w.document.kind = "current"
  BY DEF IInv, TypeOK, OwedInv, WritesCurrent
<1>1. CASE WriteBegins(w)
  <2> DEFINE clash == {v \in Writing : v.document # w.document}
             begun == [w EXCEPT !.at = "writing", !.mixed = clash # {}]
  <2>1. begun \in Writes /\ begun.document.kind = "current"
    BY <1>0 DEF Writes
  <2>2. \A v \in writes : /\ [v EXCEPT !.mixed = TRUE] \in Writes
                          /\ [v EXCEPT !.mixed = TRUE].document.kind = "current"
    BY DEF IInv, TypeOK, Writes, WritesCurrent
  <2>3. clash \subseteq writes
    BY DEF Writing
  <2>4. writes' = ((writes \ {w}) \ clash) \union {begun}
                        \union {[v EXCEPT !.mixed = TRUE] : v \in clash}
    BY <1>1 DEF WriteBegins
  <2> HIDE DEF clash, begun
  <2>5. writes' \subseteq Writes /\ WritesCurrent'
    BY <2>1, <2>2, <2>3, <2>4 DEF IInv, TypeOK, WritesCurrent
  <2>6. doc' \in Documents
    BY <1>1, DocumentsTyped DEF WriteBegins, Kinds
  <2>7. TypeOK'
    BY <1>0, <1>1, <2>5, <2>6 DEF IInv, TypeOK, WriteBegins, memory
  <2> QED
    BY <1>0, <1>1, <2>5, <2>7 DEF IInv, SavedInv, OwedInv, WriteBegins
<1>2. CASE WriteEnds(w)
  <2>1. w.document \in Documents /\ w.document.entries \subseteq Keys
    BY <1>0 DEF Writes, Documents
  <2>2. doc' \in Documents
    BY <1>2, <2>1, DocumentsTyped DEF IInv, TypeOK, WriteEnds, Kinds
  <2>3. TypeOK'
    BY <1>0, <1>2, <2>1, <2>2 DEF IInv, TypeOK, WriteEnds, memory
  <2>4. SavedInv'
    BY <1>0, <1>2 DEF SavedInv, WriteEnds
  <2> QED
    BY <1>0, <1>2, <2>3, <2>4 DEF IInv, WritesCurrent, OwedInv, WriteEnds
<1> QED
  BY <1>1, <1>2

\* A load registers what it read, and only its last step settles what is owed.
LEMMA LoadInv ==
  ASSUME IInv, NEW l \in loads, LoadStep(l)
  PROVE  IInv'
<1> USE DEF IInv
<1>0. l \in Loads /\ alive
  BY DEF TypeOK
<1>1. CASE LoadNothing(l)
  BY <1>0, <1>1 DEF TypeOK, SavedInv, WritesCurrent, OwedInv, LoadNothing, disk
<1>2. CASE LoadRejects(l)
  BY <1>0, <1>2 DEF TypeOK, SavedInv, WritesCurrent, OwedInv, LoadRejects, memory, disk
<1>3. CASE LoadCurrent(l)
  <2>1. doc.entries \subseteq Keys /\ doc.totals \subseteq Keys
    BY DEF TypeOK, Documents
  <2> QED
    BY <1>0, <1>3, <2>1 DEF TypeOK, SavedInv, WritesCurrent, OwedInv, LoadCurrent, disk
<1>4. CASE LoadOld(l)
  <2>1. [l EXCEPT !.at = "list"] \in Loads
    BY <1>0 DEF Loads
  <2>2. TypeOK'
    BY <1>0, <1>4, <2>1 DEF TypeOK, LoadOld, memory, disk
  <2> QED
    BY <1>4, <2>2 DEF SavedInv, WritesCurrent, OwedInv, LoadOld, memory, disk
<1>5. CASE SweepLists(l)
  <2> DEFINE found == files \union (IF doc.kind = "missing" THEN {} ELSE {Document})
  <2>1. found \in SUBSET (Keys \union {Document})
    BY DEF TypeOK
  <2>2. loads' = (loads \ {l}) \union {[l EXCEPT !.at = "sweep", !.left = found]}
    BY <1>5 DEF SweepLists
  <2> HIDE DEF found
  <2>3. [l EXCEPT !.at = "sweep", !.left = found] \in Loads
    BY <1>0, <2>1 DEF Loads
  <2>4. TypeOK'
    BY <1>0, <1>5, <2>2, <2>3 DEF TypeOK, SweepLists, memory, disk
  <2> QED
    BY <1>5, <2>4 DEF SavedInv, WritesCurrent, OwedInv, SweepLists, memory, disk
<1>6. ASSUME NEW f \in Keys \union {Document}, SweepUnlinks(l, f)
      PROVE  IInv'
  <2>1. [l EXCEPT !.left = @ \ {f}] \in Loads
    BY <1>0 DEF Loads
  <2>2. /\ owed = {} /\ UNCHANGED <<memory, wiping, ops, owed>>
        /\ files' \subseteq Keys
        /\ loads' = (loads \ {l}) \union {[l EXCEPT !.left = @ \ {f}]}
    BY <1>6 DEF TypeOK, OwedInv, SweepUnlinks
  <2> DEFINE rest == [l EXCEPT !.left = @ \ {f}]
  <2>0. rest \in Loads /\ loads' = (loads \ {l}) \union {rest}
    BY <2>1, <2>2
  <2> HIDE DEF rest
  <2>5. loads' \subseteq Loads
    BY <2>0 DEF TypeOK
  <2>3. CASE f = Document
    <3>1. doc' \in Documents /\ saved' = {} /\ writes' \subseteq writes
      BY <1>6, <2>3, DocumentsTyped DEF SweepUnlinks, Kinds
    <3>2. TypeOK'
      BY <1>0, <2>2, <2>5, <3>1 DEF TypeOK, memory
    <3> QED
      BY <2>2, <3>1, <3>2 DEF SavedInv, WritesCurrent, OwedInv
  <2>4. CASE f # Document
    <3>1. UNCHANGED <<doc, saved, writes>>
      BY <1>6, <2>4 DEF SweepUnlinks
    <3>2. TypeOK'
      BY <1>0, <2>2, <2>5, <3>1 DEF TypeOK, memory
    <3> QED
      BY <2>2, <3>1, <3>2 DEF SavedInv, WritesCurrent, OwedInv
  <2> QED
    BY <2>3, <2>4
<1>7. CASE SweepEnds(l)
  BY <1>0, <1>7 DEF TypeOK, SavedInv, WritesCurrent, OwedInv, SweepEnds, disk
<1> QED
  BY <1>1, <1>2, <1>3, <1>4, <1>5, <1>6, <1>7 DEF LoadStep

\* A device starts with any document an earlier version left, or none.
LEMMA InitInv == Init => IInv
<1> SUFFICES ASSUME Init PROVE IInv
  OBVIOUS
<1>1. doc \in Documents
  <2>1. CASE doc \in {Blank("missing"), Blank("old")}
    BY <2>1, DocumentsTyped DEF Kinds
  <2>2. CASE doc \in {Current(E, T) : E \in SUBSET Keys, T \in SUBSET Keys}
    BY <2>2, DocumentsTyped
  <2> QED
    BY <2>1, <2>2 DEF Init
<1>2. doc.kind = "current" \/ doc.entries = {}
  BY DEF Init, Blank, Current
<1>3. entries \subseteq Keys /\ totals \subseteq Keys /\ (~alive => entries = {} /\ totals = {})
  BY DEF Init
<1>4. TypeOK
  <2>1. saved \subseteq Keys
    BY <1>1 DEF Init, Documents
  <2>2. /\ alive \in BOOLEAN /\ foreground \in BOOLEAN /\ wiping = FALSE
        /\ files \subseteq Keys /\ writes = {} /\ loads = {} /\ owed = {} /\ ops = 0
    BY DEF Init
  <2>3. ops \in 0 .. MaxOps
    BY <2>2, BoundsAssumption
  <2> QED
    BY <1>1, <1>3, <2>1, <2>2, <2>3 DEF TypeOK
<1> QED
  BY <1>2, <1>4 DEF Init, IInv, SavedInv, WritesCurrent, OwedInv

\* IInv is inductive.
LEMMA NextInv == IInv /\ [Next]_vars => IInv'
<1> SUFFICES ASSUME IInv, [Next]_vars PROVE IInv'
  OBVIOUS
<1>1. CASE UNCHANGED vars
  BY <1>1 DEF vars, memory, disk, IInv, TypeOK, SavedInv, WritesCurrent, OwedInv
<1> QED
  BY <1>1, ProviderInv, AssetInv, ClearInv, WriteInv, LoadInv DEF Next

-----------------------------------------------------------------------------
(* The theorems *)

\* Types hold, and nothing of a dead process stays in flight.
THEOREM TypeTheorem == Spec => []TypeOK
  BY InitInv, NextInv, PTL DEF Spec, IInv

\* What a whole document held at launch is registered once the launch's loads are over
\* (loadCacheFromStorage), whatever runs beside them, for any number of loads.
THEOREM SavedTheorem == Spec => []SavedSurvives
<1>1. IInv => SavedSurvives
  BY DEF IInv, OwedInv, SavedSurvives
<1> QED
  BY <1>1, InitInv, NextInv, PTL DEF Spec

\* No step of a load takes an entry out of the registry: MemoryCacheProvider.load merges.
THEOREM LiveTheorem == Spec => LiveKept
<1>1. [Next]_vars => [\A l \in loads : LoadStep(l) => entries \subseteq entries']_vars
  BY DEF LoadStep, LoadNothing, LoadRejects, LoadCurrent, LoadOld, SweepLists, SweepUnlinks,
         SweepEnds, memory
<1> QED
  BY <1>1, PTL DEF Spec, LiveKept
=============================================================================
