------------------------- MODULE RegistryPersistence -------------------------
(***************************************************************************)
(* The registry document: who writes it (saveCacheToStorage), who reads it *)
(* (loadCacheFromStorage), and what CacheManagerProvider lets run beside   *)
(* each other.  Neither call is awaited by anybody, so a write and a read  *)
(* of the one file, two writes, or two reads are in flight together; and   *)
(* the process may be killed at any time.                                  *)
(*                                                                         *)
(* An asset's files count as one; an asset with a recorded total is in     *)
(* totals (the side map _segmentTotalLengths).                             *)
(***************************************************************************)
EXTENDS Naturals, FiniteSets

CONSTANTS
    Keys,        \* assets
    Document,    \* the registry document itself, a file of the cache folder too
    MaxOps,      \* bound: events of the application and its environment
    MaxCalls     \* bound: writes in flight, and loads in flight

ASSUME DocumentAssumption == Document \notin Keys
ASSUME BoundsAssumption == MaxOps \in Nat /\ MaxCalls \in Nat

VARIABLES
    alive,       \* the process runs and the provider is mounted
    foreground,  \* useIsForeground
    entries,     \* keys in the registry in memory
    totals,      \* keys of which _segmentTotalLengths has a total
    files,       \* assets on disk
    doc,         \* the document on disk
    writes,      \* storage.write calls in flight
    loads,       \* loadCacheFromStorage calls in flight
    wiping,      \* clearCache awaits clearDirectory
    ops,         \* events so far
    saved,       \* (history) what a complete, undamaged document holds
    owed         \* (history) saved at launch, not dropped or saved over since

memory == <<alive, foreground, entries, totals>>
disk == <<files, doc, wiping>>
vars == <<memory, disk, writes, loads, ops, saved, owed>>

-----------------------------------------------------------------------------
\* A document is missing, of an older version, cut short, or current.
Kinds == {"missing", "old", "torn", "current"}
Documents == [kind : Kinds, entries : SUBSET Keys, totals : SUBSET Keys]
Blank(kind) == [kind |-> kind, entries |-> {}, totals |-> {}]
Current(E, T) == [kind |-> "current", entries |-> E, totals |-> T]

\* What an earlier session left behind, any files and no document, an old or a current one;
\* or a session under way that has registered other assets since it loaded the document.
Init ==
    /\ alive \in BOOLEAN /\ foreground = alive
    /\ entries \in IF alive THEN SUBSET Keys ELSE {{}}
    /\ totals \in {{}, entries}
    /\ files \in SUBSET Keys
    /\ doc \in {Blank("missing"), Blank("old")} \union
               {Current(E, T) : E \in SUBSET Keys, T \in SUBSET Keys}
    /\ doc.totals \subseteq doc.entries
    /\ alive => files = entries /\ doc.kind = "current"
    /\ writes = {} /\ loads = {} /\ wiping = FALSE /\ ops = 0
    /\ saved = doc.entries /\ owed = {}

\* An event of the application or its environment; at most MaxOps of them.
Event == ops < MaxOps /\ ops' = ops + 1

-----------------------------------------------------------------------------
(***************************************************************************)
(* CacheManagerProvider: which saves and loads its effects set off.        *)
(***************************************************************************)
Free(calls) == (1 .. MaxCalls) \ {c.id : c \in calls}

\* n calls of saveCacheToStorage: each exports the registry now and writes it later.
Save(n) ==
    \E I \in SUBSET Free(writes) :
        /\ Cardinality(I) = n
        /\ \A i \in I, j \in Free(writes) \ I : i < j
        /\ writes' = writes \union
              {[id |-> i, at |-> "queued", mixed |-> FALSE,
                document |-> Current(entries, totals)] : i \in I}

\* n calls of loadCacheFromStorage: each reads later.
StartLoad(n) ==
    \E I \in SUBSET Free(loads) :
        /\ Cardinality(I) = n
        /\ \A i \in I, j \in Free(loads) \ I : i < j
        /\ loads' = loads \union {[id |-> i, at |-> "read", left |-> {}] : i \in I}

\* First mount: enableMemoryCache and enableBridgeServer both load.
Launch ==
    /\ Event
    /\ ~alive
    /\ alive' = TRUE /\ foreground' = TRUE
    /\ entries' = {} /\ totals' = {}
    /\ StartLoad(2)
    /\ owed' = saved
    /\ UNCHANGED <<disk, writes, saved>>

\* The effect's cleanup and then the effect itself call disableBridgeServer.
Background ==
    /\ Event
    /\ alive /\ foreground
    /\ foreground' = FALSE
    /\ Save(2)
    /\ owed' = {}
    /\ UNCHANGED <<alive, entries, totals, disk, loads, saved>>

\* The cleanup disables (and saves), the effect enables (and loads), in one commit.
Foreground ==
    /\ Event
    /\ alive /\ ~foreground
    /\ foreground' = TRUE
    /\ Save(1)
    /\ StartLoad(1)
    /\ owed' = {}
    /\ UNCHANGED <<alive, entries, totals, disk, saved>>

\* Another cachePolicy: disableMemoryCache saves and drops the registry, enableMemoryCache
\* creates an empty one and loads, in one commit.
ChangePolicy ==
    /\ Event
    /\ alive
    /\ Save(1)
    /\ entries' = {}
    /\ StartLoad(1)
    /\ owed' = {}
    /\ UNCHANGED <<alive, foreground, totals, disk, saved>>

\* The process is killed: what is written so far is what remains.
Kill ==
    /\ Event
    /\ alive
    /\ alive' = FALSE /\ foreground' = FALSE
    /\ entries' = {} /\ totals' = {}
    /\ writes' = {} /\ loads' = {} /\ wiping' = FALSE
    /\ owed' = {}
    /\ UNCHANGED <<files, doc, saved>>

-----------------------------------------------------------------------------
(***************************************************************************)
(* What happens to assets meanwhile (detailed in AssetCache and            *)
(* EvictionPolicy).                                                        *)
(***************************************************************************)

\* A verified file lands and is registered, with a total if the origin told one.
Ingest(k) ==
    /\ Event
    /\ alive
    /\ files' = files \union {k}
    /\ entries' = entries \union {k}
    /\ totals' \in {totals, totals \union {k}}
    /\ UNCHANGED <<alive, foreground, doc, wiping, writes, loads, saved, owed>>

\* removeCachedVideo or an eviction: entry, files and totals go together.
Drop(k) ==
    /\ Event
    /\ alive /\ k \in entries
    /\ entries' = entries \ {k} /\ totals' = totals \ {k}
    /\ files' = files \ {k}
    /\ owed' = owed \ {k}
    /\ UNCHANGED <<alive, foreground, doc, wiping, writes, loads, saved>>

\* getCachedFileAsync: an entry without a file is dropped, a file without an entry is
\* registered again.
Heal(k) ==
    /\ Event
    /\ alive
    /\ (k \in entries) # (k \in files)
    /\ entries' = IF k \in files THEN entries \union {k} ELSE entries \ {k}
    /\ owed' = IF k \in files THEN owed ELSE owed \ {k}
    /\ UNCHANGED <<alive, foreground, totals, disk, writes, loads, saved>>

\* The operating system purges a file of the cache directory.
Purge(k) ==
    /\ Event
    /\ k \in files
    /\ files' = files \ {k}
    /\ UNCHANGED <<memory, doc, wiping, writes, loads, saved, owed>>

\* clearCache empties the registry (not the side map) and then wipes the directory.
ClearCache ==
    /\ Event
    /\ alive /\ ~wiping
    /\ entries' = {}
    /\ wiping' = TRUE
    /\ owed' = {}
    /\ UNCHANGED <<alive, foreground, totals, files, doc, writes, loads, saved>>

\* The directory goes with the document in it; a write under way goes to a deleted file.
WipeEnds ==
    /\ wiping
    /\ wiping' = FALSE
    /\ files' = {}
    /\ doc' = Blank("missing")
    /\ writes' = {w \in writes : w.at = "queued"}
    /\ saved' = {}
    /\ UNCHANGED <<memory, loads, ops, owed>>

-----------------------------------------------------------------------------
(***************************************************************************)
(* storage.write: the file is cut to nothing, then filled.                 *)
(***************************************************************************)
Writing == {w \in writes : w.at = "writing"}

\* Two writes of different documents under way at once may end up mixed.
WriteBegins(w) ==
    /\ w \in writes /\ w.at = "queued"
    /\ LET clash == {v \in Writing : v.document # w.document}
           begun == [w EXCEPT !.at = "writing", !.mixed = clash # {}]
       IN  writes' = ((writes \ {w}) \ clash) \union {begun}
                        \union {[v EXCEPT !.mixed = TRUE] : v \in clash}
    /\ doc' = Blank("torn")
    /\ saved' = {}
    /\ UNCHANGED <<memory, files, wiping, loads, ops, owed>>

\* The last write to end makes the document whole, unless it is mixed with another.
WriteEnds(w) ==
    /\ w \in Writing
    /\ writes' = writes \ {w}
    /\ doc' \in IF Writing # {w} THEN {doc}
                ELSE {w.document} \union (IF w.mixed THEN {Blank("torn")} ELSE {})
    /\ saved' = IF Writing = {w} /\ ~w.mixed THEN w.document.entries ELSE {}
    /\ UNCHANGED <<memory, files, wiping, loads, ops, owed>>

-----------------------------------------------------------------------------
(***************************************************************************)
(* loadCacheFromStorage.                                                   *)
(***************************************************************************)

\* No document, or one that does not parse: the registry stays as it is, but the side map
\* is emptied.
LoadNothing(l) ==
    /\ l \in loads /\ l.at = "read"
    /\ doc.kind \in {"missing", "torn"}
    /\ totals' = {}
    /\ loads' = loads \ {l}
    /\ UNCHANGED <<alive, foreground, entries, disk, writes, ops, saved, owed>>

\* The document goes between existsFile and readFile: the load rejects.
LoadRejects(l) ==
    /\ l \in loads /\ l.at = "read"
    /\ doc.kind = "missing"
    /\ loads' = loads \ {l}
    /\ UNCHANGED <<memory, disk, writes, ops, saved, owed>>

\* (mutated) Only an empty registry takes what the document holds.
LoadCurrentIfEmpty(l) ==
    /\ l \in loads /\ l.at = "read"
    /\ doc.kind = "current"
    /\ entries' = IF entries = {} THEN doc.entries ELSE entries
    /\ totals' = doc.totals
    /\ loads' = loads \ {l}
    /\ UNCHANGED <<alive, foreground, disk, writes, ops, saved, owed>>

\* (mutated) The document replaces the registry.
LoadCurrentReplaces(l) ==
    /\ l \in loads /\ l.at = "read"
    /\ doc.kind = "current"
    /\ entries' = doc.entries
    /\ totals' = doc.totals
    /\ loads' = loads \ {l}
    /\ UNCHANGED <<alive, foreground, disk, writes, ops, saved, owed>>

\* A current document: live entries stay over saved ones, the side map is replaced.
LoadCurrent(l) ==
    /\ l \in loads /\ l.at = "read"
    /\ doc.kind = "current"
    /\ entries' = entries \union doc.entries
    /\ totals' = doc.totals
    /\ loads' = loads \ {l}
    /\ UNCHANGED <<alive, foreground, disk, writes, ops, saved, owed>>

\* A document of another version: sweepOrphans lists the whole cache folder.
LoadOld(l) ==
    /\ l \in loads /\ l.at = "read"
    /\ doc.kind = "old"
    /\ loads' = (loads \ {l}) \union {[l EXCEPT !.at = "list"]}
    /\ UNCHANGED <<memory, disk, writes, ops, saved, owed>>

\* (mutated) What the listing finds is registered, the document included.
SweepListsMigrating(l) ==
    /\ l \in loads /\ l.at = "list"
    /\ entries' = entries \union files \union (IF doc.kind = "missing" THEN {} ELSE {Document})
    /\ loads' = (loads \ {l}) \union {[l EXCEPT !.at = "sweep"]}
    /\ UNCHANGED <<alive, foreground, totals, disk, writes, ops, saved, owed>>

SweepLists(l) ==
    /\ l \in loads /\ l.at = "list"
    /\ loads' = (loads \ {l}) \union
                {[l EXCEPT !.at = "sweep",
                           !.left = files \union (IF doc.kind = "missing" THEN {} ELSE {Document})]}
    /\ UNCHANGED <<memory, disk, writes, ops, saved, owed>>

\* ... and unlinks one after the other what it listed; what is gone already is no error.
SweepUnlinks(l, f) ==
    /\ l \in loads /\ l.at = "sweep" /\ f \in l.left
    /\ files' = files \ {f}
    /\ IF f = Document
       THEN /\ doc' = Blank("missing") /\ saved' = {}
            /\ writes' = {w \in writes : w.at = "queued"}
       ELSE UNCHANGED <<doc, saved, writes>>
    /\ loads' = (loads \ {l}) \union {[l EXCEPT !.left = @ \ {f}]}
    /\ UNCHANGED <<memory, wiping, ops, owed>>

SweepEnds(l) ==
    /\ l \in loads /\ l.at = "sweep" /\ l.left = {}
    /\ totals' = {}
    /\ loads' = loads \ {l}
    /\ UNCHANGED <<alive, foreground, entries, disk, writes, ops, saved, owed>>

-----------------------------------------------------------------------------
LoadStep(l) ==
    \/ LoadNothing(l) \/ LoadRejects(l) \/ LoadCurrent(l) \/ LoadOld(l)
    \/ SweepLists(l) \/ SweepEnds(l)
    \/ \E f \in Keys \union {Document} : SweepUnlinks(l, f)

Next ==
    \/ Launch \/ Background \/ Foreground \/ ChangePolicy \/ Kill
    \/ \E k \in Keys : Ingest(k) \/ Drop(k) \/ Heal(k) \/ Purge(k)
    \/ ClearCache \/ WipeEnds
    \/ \E w \in writes : WriteBegins(w) \/ WriteEnds(w)
    \/ \E l \in loads : LoadStep(l)

Spec == Init /\ [][Next]_vars

-----------------------------------------------------------------------------
(***************************************************************************)
(* Properties.                                                             *)
(***************************************************************************)
Ids == 1 .. MaxCalls
Writes == [id : Ids, at : {"queued", "writing"}, mixed : BOOLEAN, document : Documents]
Loads == [id : Ids, at : {"read", "list", "sweep"}, left : SUBSET (Keys \union {Document})]

\* Types of the variables; nothing of a dead process is in flight.
TypeOK ==
    /\ alive \in BOOLEAN /\ foreground \in BOOLEAN /\ wiping \in BOOLEAN
    /\ entries \subseteq Keys /\ totals \subseteq Keys /\ files \subseteq Keys
    /\ doc \in Documents
    /\ writes \subseteq Writes /\ loads \subseteq Loads
    /\ ops \in 0 .. MaxOps
    /\ saved \subseteq Keys /\ owed \subseteq Keys
    /\ ~alive => entries = {} /\ totals = {} /\ writes = {} /\ loads = {} /\ ~wiping

\* A saved registry survives a restart: what a whole document held at launch is registered
\* again once the launch's loads are over, unless it was dropped or a save came in between
\* - whichever way the two loads, ingests and removals interleave.
SavedSurvives == alive /\ loads = {} => owed \subseteq entries

\* Reading the document only ever adds to the registry: what this session has registered
\* while the read was in flight stays.
LiveKept ==
    [][\A l \in loads : LoadStep(l) => entries \subseteq entries']_vars

\* (violated) A sweep finds only files that no registered asset answers for.
SweepSparesLive ==
    [][\A l \in loads, f \in Keys : SweepUnlinks(l, f) => f \notin entries \intersect files]_vars
=============================================================================
