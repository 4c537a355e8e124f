------------------------------ MODULE BlockIndex ------------------------------
(***************************************************************************)
(* The parser's caches of audit blocks (log_core.py).  A scan of the day's *)
(* audits (scan_transactions_for_list) leaves the position of every block  *)
(* in AUDIT_BLOCK_LOCATION_CACHE; an export (split_audit_files) looks the  *)
(* blocks of its transactions up twice, for the summary and for the text,  *)
(* and reads the audits itself where the caches have nothing.  CORE_LOCK   *)
(* lets one scan or export run at a time, but the audits grow meanwhile.   *)
(*                                                                         *)
(* An audit is the sequence of its blocks, a block is the UID it belongs   *)
(* to.  Audits only grow and every read takes a prefix (the mapping made   *)
(* when the file is opened), so what is known of the audits is how many    *)
(* blocks of each: their extent.                                           *)
(***************************************************************************)
EXTENDS Naturals, Sequences, FiniteSets

CONSTANTS
    Audits,       \* the audit files of the loaded bank and day
    Uids,         \* transaction UIDs
    MaxBlocks     \* bound: blocks in each audit

ASSUME IndexAssumption == MaxBlocks \in [Audits -> Nat]

VARIABLES
    blocks,         \* the audits: their blocks so far
    locationCache,  \* AUDIT_BLOCK_LOCATION_CACHE: stamp of the audits -> extent located
    textCache,      \* AUDIT_BLOCK_TEXT_CACHE: stamp -> the UIDs and extent it holds
    scans,          \* extents of the scans whose rows sessions may show
    doing,          \* what the holder of CORE_LOCK is doing
    unread,         \* audits it has yet to read
    seen,           \* the extent it has read
    wanted,         \* the transactions it exports
    shown,          \* the scan whose rows they were selected from
    summary         \* the extent their summaries were made from

parser == <<doing, unread, seen, wanted, shown, summary>>
indexVars == <<blocks, locationCache, textCache, scans, parser>>

Extents == [Audits -> Nat]
NoBlocks == [f \in Audits |-> 0]

\* file_text_cache_key of every audit: an audit that grows changes its stamp.
Stamp == [f \in Audits |-> Len(blocks[f])]

AtMost(old, new) == \A f \in Audits : old[f] <= new[f]

\* The UIDs that have a block within this extent.
UidsIn(extent) == {u \in Uids : \E f \in Audits : \E i \in 1..extent[f] : blocks[f][i] = u}

LocationEntry == [key : Extents, extent : Extents]
TextEntry == [key : Extents, uids : SUBSET Uids, extent : Extents]

IndexTypeOK ==
    /\ blocks \in [Audits -> Seq(Uids)]
    /\ AtMost(Stamp, MaxBlocks)
    /\ locationCache \in SUBSET LocationEntry
    /\ textCache \in SUBSET TextEntry
    /\ scans \in SUBSET Extents
    /\ doing \in {"idle", "scan", "summary", "summarise", "write", "copy", "written"}
    /\ unread \in SUBSET Audits
    /\ seen \in Extents /\ AtMost(seen, MaxBlocks)
    /\ wanted \in SUBSET Uids
    /\ shown \in Extents
    /\ summary \in Extents

IndexInit ==
    /\ blocks = [f \in Audits |-> <<>>]
    /\ locationCache = {}
    /\ textCache = {}
    /\ scans = {}
    /\ doing = "idle"
    /\ unread = {}
    /\ seen = NoBlocks
    /\ wanted = {}
    /\ shown = NoBlocks
    /\ summary = NoBlocks

\* dict assignment: the entry under this key is replaced.
Put(cache, entry) == {e \in cache : e.key # entry.key} \union {entry}

\* The call ends, CORE_LOCK is released and the locals are gone.
Leave ==
    /\ doing' = "idle"
    /\ unread' = {}
    /\ seen' = NoBlocks
    /\ wanted' = {}
    /\ shown' = NoBlocks
    /\ summary' = NoBlocks
    /\ UNCHANGED blocks

-----------------------------------------------------------------------------
\* The switch appends a block to an audit.
AppendBlock(f, u) ==
    /\ Len(blocks[f]) < MaxBlocks[f]
    /\ blocks' = [blocks EXCEPT ![f] = Append(@, u)]
    /\ UNCHANGED <<locationCache, textCache, scans, parser>>

\* An audit is mapped and its blocks are read.
ReadAudit(f) ==
    /\ doing \in {"scan", "summarise", "copy"}
    /\ f \in unread
    /\ seen' = [seen EXCEPT ![f] = Len(blocks[f])]
    /\ unread' = unread \ {f}
    /\ UNCHANGED <<blocks, locationCache, textCache, scans, doing, wanted, shown, summary>>

StartReading(phase) ==
    /\ doing' = phase
    /\ unread' = Audits
    /\ seen' = NoBlocks
    /\ UNCHANGED <<blocks, locationCache, textCache, scans>>

-----------------------------------------------------------------------------
(* scan_transactions_for_list *)

StartScan ==
    /\ doing = "idle"
    /\ StartReading("scan")
    /\ UNCHANGED <<wanted, shown, summary>>

\* The complete scan is filed under the stamp the audits have by now.
StoreLocations ==
    /\ doing = "scan"
    /\ unread = {}
    /\ locationCache' = Put(locationCache, [key |-> Stamp, extent |-> seen])
    /\ scans' = scans \union {seen}
    /\ Leave
    /\ UNCHANGED textCache

\* Mutant: an interrupted scan is filed too.
StopScanStoring ==
    /\ doing = "scan"
    /\ locationCache' = Put(locationCache, [key |-> Stamp, extent |-> seen])
    /\ Leave
    /\ UNCHANGED <<textCache, scans>>

\* The scan is interrupted or fails.
StopScan ==
    /\ doing = "scan"
    /\ Leave
    /\ UNCHANGED <<locationCache, textCache, scans>>

-----------------------------------------------------------------------------
(* split_audit_files for selected transactions *)

\* export_logs: transactions uids, chosen among the rows of scan s.
StartExport(uids, s) ==
    /\ doing = "idle"
    /\ uids # {}
    /\ uids \subseteq UidsIn(s)
    /\ wanted' = uids
    /\ shown' = s
    /\ doing' = "summary"
    /\ UNCHANGED <<blocks, locationCache, textCache, scans, unread, seen, summary>>

\* The transactions a lookup asks for: those selected, then those summarised.
Targets == IF doing = "summary" THEN wanted ELSE wanted \intersect UidsIn(summary)

Located == {e.extent : e \in {l \in locationCache : l.key = Stamp}}

Kept == {e.extent : e \in {t \in textCache : t.key = Stamp /\ Targets \subseteq t.uids}}

\* Mutant: the texts of earlier exports before the complete index.
CachedTextFirst == IF Kept # {} THEN Kept ELSE Located

\* cached_target_blocks: the located blocks, else the texts of an earlier
\* export that had all these UIDs, else nothing.
Cached == IF Located # {} THEN Located ELSE Kept

Summarised(extent) ==
    /\ summary' = extent
    /\ doing' = "write"
    /\ UNCHANGED <<blocks, locationCache, scans, unread, seen, wanted, shown>>

\* scan_transactions for the summaries, from the caches ...
SummariseCached ==
    /\ doing = "summary"
    /\ \E extent \in Cached : Summarised(extent)
    /\ UNCHANGED textCache

\* ... or from the audits.
StartSummary ==
    /\ doing = "summary"
    /\ Cached = {}
    /\ StartReading("summarise")
    /\ UNCHANGED <<wanted, shown, summary>>

\* The texts are kept under the stamp the audits have by now.
StoreTexts ==
    /\ doing = "summarise"
    /\ unread = {}
    /\ textCache' = Put(textCache, [key |-> Stamp, uids |-> wanted \intersect UidsIn(seen), extent |-> seen])
    /\ Summarised(seen)

\* write_outputs writes a log of every transaction summarised.
WriteLog(extent) ==
    /\ seen' = extent
    /\ doing' = "written"
    /\ UNCHANGED <<blocks, locationCache, textCache, scans, unread, wanted, shown, summary>>

\* Its blocks are looked up again ...
WriteCached == doing = "write" /\ \E extent \in Cached : WriteLog(extent)

\* ... and read again.
StartCopy ==
    /\ doing = "write"
    /\ Cached = {}
    /\ StartReading("copy")
    /\ UNCHANGED <<wanted, shown, summary>>

WriteRead == doing = "copy" /\ unread = {} /\ WriteLog(seen)

\* The export returns its logs, or fails before it has any.
EndExport ==
    /\ doing \in {"summary", "summarise", "write", "copy", "written"}
    /\ Leave
    /\ UNCHANGED <<locationCache, textCache, scans>>

IndexNext ==
    \/ \E f \in Audits, u \in Uids : AppendBlock(f, u)
    \/ \E f \in Audits : ReadAudit(f)
    \/ StartScan \/ StoreLocations \/ StopScan
    \/ \E s \in scans : \E uids \in SUBSET UidsIn(s) : StartExport(uids, s)
    \/ SummariseCached \/ StartSummary \/ StoreTexts
    \/ WriteCached \/ StartCopy \/ WriteRead \/ EndExport

IndexSpec == IndexInit /\ [][IndexNext]_indexVars

-----------------------------------------------------------------------------
(***************************************************************************)
(* An exported log holds, for every transaction selected, all the messages *)
(* its row and its summary were made from, although the row, the summary   *)
(* and the text come from different reads of growing audits and either     *)
(* cache may be filed under a stamp newer than its content (1371, 1484).   *)
(***************************************************************************)
Covers(text, extent, uids) ==
    \A f \in Audits : \A i \in 1..extent[f] : blocks[f][i] \in uids => i <= text[f]

ExportComplete ==
    doing = "written" =>
        /\ wanted \subseteq UidsIn(summary)
        /\ Covers(seen, shown, wanted)
        /\ Covers(seen, summary, wanted)

=============================================================================
