----------------------------- MODULE LogAnalysis -----------------------------
(***************************************************************************)
(* What is read out of logs: the findings of the checks on transactions,   *)
(* and the pieces that long texts are read in.  All of it is a pure        *)
(* function of the log, so what varies is the log: it is filled with       *)
(* entries of one family of inputs, transactions or pieces of a text.      *)
(***************************************************************************)
EXTENDS BlockParsers, OriginalChecks, SourceText, TransactionRows, TLC

CONSTANTS
    Families,           \* kinds of logs
    EntriesOf,          \* the entries a log of each kind may have (without uid)
    LimitOf,            \* bound: how many of them
    BankNames           \* banks a row may be listed for

\* What the checks read of a transaction, and a row of a block.
IsTransaction(t) ==
    /\ {"messages", "exempt", "reversal", "network", "time", "first"} \subseteq DOMAIN t
    /\ t.messages \in Seq(ToSet(t.messages))
    /\ \A m \in ToSet(t.messages) : m.phase \in {"request", "response"}
IsBlock(b) ==
    /\ {"process", "bank", "flow", "request", "time", "mtis", "codes", "acquirers"} \subseteq DOMAIN b
    /\ b.request \in BOOLEAN /\ b.time \in Int /\ b.mtis \in Seq(ToSet(b.mtis))

OfTransactions == {"linked", "local", "iso", "spdh"}
ASSUME EntriesAssumption ==
    /\ NoTime \in Int
    /\ \A f \in Families : LimitOf[f] \in Nat /\ \A t \in EntriesOf[f] :
           /\ f \in OfTransactions => IsTransaction(t)
           /\ f = "row" => IsBlock(t)

VARIABLES
    family,     \* the family the log is made of
    log         \* its transactions in the order of their first blocks, or its pieces

vars == <<family, log>>

Pairs == INSTANCE MessagePairs

-----------------------------------------------------------------------------
Init == family \in Families /\ log = <<>>

\* The uid says nothing but which transaction it is.
WithUid(t, n) == [key \in DOMAIN t \union {"uid"} |-> IF key = "uid" THEN n ELSE t[key]]

Grow ==
    /\ Len(log) < LimitOf[family]
    /\ \E t \in EntriesOf[family] : log' = Append(log, WithUid(t, Len(log) + 1))
    /\ UNCHANGED family

Spec == Init /\ [][Grow]_vars

\* The log as transactions, as the blocks of one, or as a text.
Transactions == IF family \in OfTransactions THEN log ELSE <<>>
Blocks == IF family = "row" THEN log ELSE <<>>
TextOf(kind) == IF family = kind THEN FlattenSeq([i \in DOMAIN log |-> log[i].text]) ELSE <<>>

TypeOK ==
    /\ family \in Families
    /\ log \in Seq(ToSet(log)) /\ Len(log) <= LimitOf[family]
    /\ \A i \in DOMAIN log : log[i].uid = i
    /\ \A t \in ToSet(Transactions) : IsTransaction(t)
    /\ \A b \in ToSet(Blocks) : IsBlock(b)

-----------------------------------------------------------------------------
Reversals == {t \in ToSet(Transactions) : t.exempt}

Reordered(s) == {[i \in DOMAIN s |-> s[p[i]]] : p \in Bijection(DOMAIN s, DOMAIN s)}
Swapped(s) == {[s EXCEPT ![i] = s[i + 1], ![i + 1] = s[i]] : i \in 1..(Len(s) - 1)}

(***************************************************************************)
(* Audits are merged from several files: what is found of a reversal, and  *)
(* which transactions share an RRN, does not depend on where in them the   *)
(* original, or anything else, is.                                         *)
(***************************************************************************)
OriginalsOrderFree ==
    \A ts \in Reordered(Transactions) :
        /\ \A t \in Reversals, useRrn \in BOOLEAN : OriginalProblems(ts, t, useRrn) = OriginalProblems(Transactions, t, useRrn)
        /\ SharedRrns(ts) = SharedRrns(Transactions)

(***************************************************************************)
(* Nor does what is found of the messages of a transaction depend on the   *)
(* order in which they are read (every order is reached by swapping        *)
(* neighbours, and is a log too); and a message that is in the audits      *)
(* twice adds no finding (iso_checks.py:244, spdh_checks.py:105).          *)
(***************************************************************************)
PairsOrderFree ==
    \A t \in ToSet(Transactions) :
        /\ \A ms \in Swapped(t.messages) : Pairs!Problems(ms) = Pairs!Problems(t.messages)
        /\ \A m \in ToSet(t.messages) : Pairs!Problems(Append(t.messages, m)) \subseteq Pairs!Problems(t.messages)

(***************************************************************************)
(* A mismatch of a request and a response is an error only when it is      *)
(* proved: it is never found while every response has a request that fits  *)
(* it, however many other requests the transaction has.                    *)
(***************************************************************************)
MismatchIsProved ==
    \A t \in ToSet(Transactions) :
        (\A r \in ToSet(t.messages) : r.phase = "response" => \E m \in ToSet(t.messages) : Pairs!Fits(m, r))
            => "mismatch" \notin Pairs!Problems(t.messages)

(***************************************************************************)
(* "An absent or ambiguous original is a warning, never proof of a bad     *)
(* reversal" (diagnostic_common.py:64): an error stands on exactly one     *)
(* other transaction that a request of the reversal refers to.             *)
(***************************************************************************)
ErrorsAreProved ==
    \A t \in Reversals, useRrn \in BOOLEAN :
        OriginalProblems(Transactions, t, useRrn) \intersect Errors # {} =>
            \E m \in Requests(t) :
                \E uid \in DOMAIN Transactions : {o.uid : o \in Candidates(Transactions, t.uid, m, useRrn)} = {uid}

(***************************************************************************)
(* No error is found where the log leaves a doubt: neither of a reversal   *)
(* and its original, nor of a request and its response.                    *)
(***************************************************************************)
FindingsAreProved == MismatchIsProved /\ ErrorsAreProved

(***************************************************************************)
(* Of transactions that are no reversals, exactly those that have an RRN   *)
(* in common with another are marked, whichever came first.                *)
(***************************************************************************)
SharedExactly ==
    SharedRrns(Transactions) =
        {t.uid : t \in {s \in ToSet(Transactions) : ~s.exempt /\ \E o \in ToSet(Transactions) :
                            o.uid # s.uid /\ ~o.exempt /\ RrnsOf(o) \intersect RrnsOf(s) # {}}}

(***************************************************************************)
(* A reversal is shown as a completed local one only when all its requests *)
(* refer to one and the same transaction, which came before it and never   *)
(* went to the network (66, 94-127), and to no other.                      *)
(***************************************************************************)
ReversalsAreLocal ==
    \A t \in ToSet(Transactions) : t.uid \in SuccessfulReversals(Transactions) =>
        \E o \in ToSet(Transactions) :
            /\ ~o.exempt /\ ~o.network
            /\ o.time # None /\ t.time # None => o.time < t.time
            /\ \A m \in Requests(t), other \in Originals(Transactions) :
                   Refers(m, other, Reference(m.v, FALSE)) => other.uid = o.uid

(***************************************************************************)
(* Transactions are related to one another exactly as their messages say.  *)
(***************************************************************************)
AnalysisInv == TypeOK /\ SharedExactly /\ ReversalsAreLocal

(***************************************************************************)
(* As the log grows, what was found to differ from its original does not   *)
(* become right: at most its original becomes one of several; and an       *)
(* original that is one of several stays so.                               *)
(***************************************************************************)
Doubted(ts, t, useRrn) == {"mismatch", "ambiguous"} \intersect OriginalProblems(ts, t, useRrn)
FindingsStay ==
    [][\A t \in Reversals, useRrn \in BOOLEAN :
          /\ Doubted(Transactions, t, useRrn) # {} => Doubted(Transactions', t, useRrn) # {}
          /\ "ambiguous" \in OriginalProblems(Transactions, t, useRrn) => "ambiguous" \in OriginalProblems(Transactions', t, useRrn)]_vars

(***************************************************************************)
(* Nor does the row of a transaction depend on the order in which its      *)
(* audits are read: when it began and was requested, whose list it is in,  *)
(* what it is - if its requests have one Tango MTI, or it has none and     *)
(* they have one of the preferred ones - and, if the times of its blocks   *)
(* differ, which phases followed which.                                    *)
(***************************************************************************)
Timed(blocks) == \A i, j \in DOMAIN blocks : blocks[i].time # NoTime /\ (i # j => blocks[i].time # blocks[j].time)
RequestsOne(t, mtis) == Cardinality(mtis \intersect ToSet(t.requestMtis)) = 1
OneOperation(t) ==
    \/ RequestsOne(t, TangoMtis)
    \/ TangoMtis \intersect (ToSet(t.requestMtis) \union ToSet(t.mtis)) = {} /\ RequestsOne(t, PreferredMtis)

RowOrderFree ==
    LET row == RowOf(Blocks) IN
    \A blocks \in Reordered(Blocks) :
        LET other == RowOf(blocks) IN
        /\ other.first = row.first /\ other.requested = row.requested
        /\ \A bank \in BankNames : MatchesBank(other, bank) <=> MatchesBank(row, bank)
        /\ OneOperation(row) => Operation(other) = Operation(row)
        /\ Timed(Blocks) => Phases(other) = Phases(row)

(***************************************************************************)
(* Nothing that is found or shown depends on the order in which audits,    *)
(* blocks and messages are read.                                           *)
(***************************************************************************)
OrderFree == OriginalsOrderFree /\ PairsOrderFree /\ RowOrderFree

-----------------------------------------------------------------------------
(***************************************************************************)
(* "Match parse_block()" (log_core.py:702): the list says of a block what  *)
(* the export's parser says of it - which transaction it is of, what was   *)
(* asked, when, and with which values - although it looks for fewer names, *)
(* in other lines.  It may miss an identifier that only the header has.    *)
(* The header has to end before the lines in which plain names are looked  *)
(* for, and the raw data must be nothing but bytes.                        *)
(***************************************************************************)
RawIsBytes(lines) ==
    \A i \in DOMAIN lines : \A raw \in Sections(lines, {"raw"}, 0) :
        raw < i /\ lines[i].kind # "hex" => \E j \in (raw + 1)..i : lines[j].kind = "section" /\ lines[j].name # "raw"
HeaderFits(lines) == \A i \in (HeaderLines + 1)..Len(lines) : lines[i].kind \notin {"plain", "audit", "date"}
DatesAgree(lines) ==
    Cardinality({line \in ToSet(lines) : line.kind = "date"}) <= 1 \/ \A line \in ToSet(lines) : line.kind = "date" => line.stamp # 0
Identifying == {"stan", "sequence", "authcode"}

ParsersAgree ==
    LET lines == TextOf("block")
        full == ParseBlock(lines)
        list == ParseBlockForList(lines)
    IN  RawIsBytes(lines) =>
            /\ HeaderFits(lines) =>
                   /\ \A a \in DOMAIN full \ ({"time"} \union Identifying) : list[a] = full[a]
                   /\ DatesAgree(lines) => list.time = full.time
            /\ \A a \in Identifying : ToSet(list[a]) \subseteq ToSet(full[a])
            /\ \A a \in {"codes", "processing", "acquirers"} : list[a] = full[a]

(***************************************************************************)
(* Without byte data an exported block loses exactly its raw and its bus   *)
(* data, if every section is there once and the bus data is the last one.  *)
(***************************************************************************)
Orderly(lines) ==
    /\ \A name \in {"raw", "audit", "bus"} : Cardinality(Sections(lines, {name}, 0)) <= 1
    /\ \A bus \in Sections(lines, {"bus"}, 0) : Sections(lines, {"raw", "audit"}, bus) = {}
InSection(lines, i, names) ==
    \E s \in Sections(lines, names, 0) : s <= i /\ Sections(lines, {"raw", "audit", "bus"}, s) \intersect 1..i = {}
BytesLeftOut ==
    LET lines == TextOf("block")
        kept == SelectSeq([i \in DOMAIN lines |-> i], LAMBDA i : ~InSection(lines, i, {"raw", "bus"}))
    IN  Orderly(lines) => WithoutByteData(lines) = [k \in DOMAIN kept |-> lines[kept[k]]]

BlocksSaySame == family = "block" => ParsersAgree /\ BytesLeftOut

-----------------------------------------------------------------------------
Uids == {<<"u1", "u2">>, <<"u2", "u2">>}

\* The lines of a text that name uid, each with its line end.
LinesNaming(text, uid) ==
    LET ends == SelectSeq([i \in DOMAIN text |-> i], LAMBDA i : LineEnd(text, i) = i)
        lines == [k \in DOMAIN ends |-> SubSeq(text, LineStart(text, ends[k]), ends[k])]
    IN  SelectSeq(lines, LAMBDA line : Find(line, uid, 1) # 0)

(***************************************************************************)
(* "Search bounded byte chunks in C; decode only matching complete lines"  *)
(* (log_core.py:1495): each line that names the transaction is found once, *)
(* in order and complete, wherever the chunks end.                         *)
(***************************************************************************)
TangoLinesFound ==
    LET text == TextOf("tango") IN
    \A uid \in Uids : CollectTangoLines(text, uid) = LinesNaming(text, uid)

(***************************************************************************)
(* The blocks exported of a transaction are the ones its row was made of,  *)
(* although the list and the export find them by different scanners, the   *)
(* latter by another one when a link logon is exported too.  That one      *)
(* agrees only on audits in which every separator is followed by a date.   *)
(***************************************************************************)
WellFormed(text) ==
    \A i \in Separators(text) : i < Len(text) /\ text[i + 1].kind = "date"

ExportedIsListed ==
    LET text == TextOf("audit")
        listed == {UidOf(block) : block \in ToSet(MarkerBlocks(text))} \ {NoUid} IN
    \A targets \in SUBSET listed :
        Logon \notin targets \/ WellFormed(text) =>
            \A uid \in targets : Exported(text, targets, uid) = Listed(text, uid)

(***************************************************************************)
(* "Load full log loads the rest in small steps" (README.md:205): the page *)
(* shows what the log says read in one piece - no character is torn and no *)
(* line break doubled where two chunks meet - and every step gets further. *)
(***************************************************************************)
PageIsLog ==
    LET text == TextOf("page") IN
    /\ \A from \in 0..(Len(text) - 1) : Chunk(text, from).next > from
    /\ Shown(text) = Newlines(Decoded(text))

(***************************************************************************)
(* What is read in chunks - a search in a Tango log, the pages of a preview*)
(* - is what would be read in one piece.                                   *)
(***************************************************************************)
ChunksAreSeamless == TangoLinesFound /\ PageIsLog
=============================================================================
