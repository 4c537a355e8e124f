------------------------------ MODULE SourceText ------------------------------
(***************************************************************************)
(* Reading logs that are too long to be read in one piece: the lines of a  *)
(* Tango log that name a transaction are searched chunk by chunk           *)
(* (log_core.py), the blocks of an audit are found around its separators   *)
(* by three scanners (log_core.py), a transaction page shows a log chunk   *)
(* by chunk (web_app.py, transaction_view.js).                             *)
(*                                                                         *)
(* A text is a sequence: of the bytes "u1" "u2" (what UIDs are made of)    *)
(* and "nl" for the Tango log; of the bytes "a", "m1" "m2" (a character of *)
(* two), "cr" and "lf" for the page; of lines [kind, uid] for the audit.   *)
(***************************************************************************)
EXTENDS Integers, Sequences, SequencesExt, FiniteSetsExt

CONSTANTS
    ReadSize,       \* TANGO_READ_CHUNK_SIZE
    PreviewSize,    \* PREVIEW_CHUNK_SIZE
    Logon,          \* a UID that logon_exchange_uid makes up
    NoUid           \* a block of no transaction

ASSUME TextAssumption == ReadSize \in Nat \ {0} /\ PreviewSize \in Nat \ {0, 1} /\ Logon # NoUid

Least(a, b) == IF a < b THEN a ELSE b

\* bytes.find: the first place from i on, 0 if there is none.
Find(data, pattern, i) ==
    LET places == {k \in i..(Len(data) - Len(pattern) + 1) : SubSeq(data, k, k + Len(pattern) - 1) = pattern} IN
    IF places = {} THEN 0 ELSE Min(places)

-----------------------------------------------------------------------------
(* Tango lines *)

LineStart(data, i) == Max({0} \union {k \in 1..(i - 1) : data[k] = "nl"}) + 1
LineEnd(data, i) == Min({Len(data)} \union {k \in i..Len(data) : data[k] = "nl"})

\* collect: from one match to the line's end, and on to the next match.
Collected(data, uid) ==
    LET from[i \in 1..(Len(data) + 1)] ==
            LET match == Find(data, uid, i) IN
            IF match = 0 THEN <<>>
            ELSE <<SubSeq(data, LineStart(data, match), LineEnd(data, match))>> \o from[LineEnd(data, match) + 1]
    IN  from[1]

\* handle.read(TANGO_READ_CHUNK_SIZE) until nothing is left.
Chunks(file) ==
    [k \in 1..((Len(file) + ReadSize - 1) \div ReadSize) |->
        SubSeq(file, (k - 1) * ReadSize + 1, Least(k * ReadSize, Len(file)))]

\* Mutant: what follows the last line end of a chunk is not kept for the next.
SearchedForgetting(state, chunk, uid) ==
    [state EXCEPT !.lines = @ \o Collected(chunk, uid)]

\* One chunk: its complete lines are searched, the rest is kept.
Searched(state, chunk, uid) ==
    LET end == Max({0} \union {k \in DOMAIN chunk : chunk[k] = "nl"}) IN
    IF end = 0 THEN [state EXCEPT !.pending = @ \o chunk]
    ELSE [lines |-> state.lines \o Collected(state.pending \o SubSeq(chunk, 1, end), uid),
          pending |-> SubSeq(chunk, end + 1, Len(chunk))]

CollectTangoLines(file, uid) ==
    LET last == FoldLeft(LAMBDA state, chunk : Searched(state, chunk, uid),
                         [lines |-> <<>>, pending |-> <<>>], Chunks(file))
    IN  last.lines \o Collected(last.pending, uid)

-----------------------------------------------------------------------------
(* Blocks of an audit.  Lines are a separator, the "RP date time" line,    *)
(* the header's or the Bus data's transUId, or what makes a link logon.    *)

Separators(text) == {i \in DOMAIN text : text[i].kind = "separator"}

\* iter_input_blocks, line by line: a separator starts a block only when a
\* date line follows.
TakeLine(state, line) ==
    IF line.kind = "separator"
    THEN [state EXCEPT !.lines = @ \o state.separator, !.separator = <<line>>]
    ELSE IF state.separator # <<>> /\ line.kind = "date"
    THEN [blocks |-> IF state.lines = <<>> THEN state.blocks ELSE Append(state.blocks, state.lines),
          lines |-> state.separator \o <<line>>, separator |-> <<>>]
    ELSE [state EXCEPT !.lines = @ \o state.separator \o <<line>>, !.separator = <<>>]

LineBlocks(text) ==
    LET last == FoldLeft(TakeLine, [blocks |-> <<>>, lines |-> <<>>, separator |-> <<>>], text)
        rest == last.lines \o last.separator
    IN  IF rest = <<>> THEN last.blocks ELSE Append(last.blocks, rest)

\* The separators around line i, which is where the text is searched
\* backwards and forwards from, and the blocks around some lines, in order.
BlockStart(text, i) == Max({1} \union {s \in Separators(text) : s <= i})
BlockEnd(text, i) == Min({Len(text)} \union {s - 1 : s \in {s \in Separators(text) : s > i}})
BlocksAround(text, lines) ==
    LET ranges == {<<BlockStart(text, i), BlockEnd(text, i)>> : i \in lines} IN
    [k \in 1..Cardinality(ranges) |->
        LET range == CHOOSE r \in ranges : Cardinality({q \in ranges : q[1] <= r[1]}) = k IN
        SubSeq(text, range[1], range[2])]

HasMarker(block) == \E i \in DOMAIN block : block[i].kind \in {"header", "bus", "logon"}

\* The scan for the list: from separator to separator, with a marker.
MarkerBlocks(text) ==
    SelectSeq(BlocksAround(text, DOMAIN text), HasMarker)

\* The export: the blocks around the text of a UID.
TargetBlocks(text, targets) ==
    BlocksAround(text, {i \in DOMAIN text : text[i].kind \in {"header", "bus"} /\ text[i].uid \in targets})

\* Mutant: blocks of made-up UIDs are searched by their text too.
InputByText(text, targets) == TargetBlocks(text, targets)

\* A made-up UID is not in the text: the whole audit is read.
InputBlocks(text, targets) ==
    IF Logon \in targets THEN LineBlocks(text) ELSE TargetBlocks(text, targets)

\* logon_exchange_uid
LogonUid(block) == IF \E i \in DOMAIN block : block[i].kind = "logon" THEN Logon ELSE NoUid

\* The header's UID before one of the Bus data; without either, a made-up one.
UidOf(block) ==
    LET named(kind) == SelectSeq(block, LAMBDA line : line.kind = kind) IN
    IF named("header") # <<>> THEN named("header")[1].uid
    ELSE IF named("bus") # <<>> THEN named("bus")[1].uid ELSE LogonUid(block)

Listed(text, uid) == SelectSeq(MarkerBlocks(text), LAMBDA block : UidOf(block) = uid)

\* scan_transactions for the transactions selected.
Exported(text, targets, uid) ==
    SelectSeq(InputBlocks(text, targets), LAMBDA block : HasMarker(block) /\ uid \in targets /\ UidOf(block) = uid)

-----------------------------------------------------------------------------
(* A transaction page *)

Joined(characters) == SelectSeq(characters, LAMBDA c : c # "")

\* decode(errors='replace') of bytes that end with a whole character.
Decoded(raw) ==
    Joined([i \in DOMAIN raw |->
        CASE raw[i] = "m1" -> IF i < Len(raw) /\ raw[i + 1] = "m2" THEN "m" ELSE "?"
          [] raw[i] = "m2" -> IF i > 1 /\ raw[i - 1] = "m1" THEN "" ELSE "?"
          [] OTHER -> raw[i]])

\* replace('\r\n', '\n').replace('\r', '\n')
Newlines(text) ==
    Joined([i \in DOMAIN text |->
        IF text[i] # "cr" THEN text[i] ELSE IF i < Len(text) /\ text[i + 1] = "lf" THEN "" ELSE "lf"])

EndsWith(text, c) == text # <<>> /\ Last(text) = c

\* The incomplete character the decoder keeps.
Kept(raw, final) == IF ~final /\ EndsWith(raw, "m1") THEN 1 ELSE 0

\* A carriage return at the end waits for its line feed, if there is more to
\* read and the chunk holds more than it.
HeldReturn(file, text, next, from) ==
    IF EndsWith(text, "cr") /\ next < Len(file) /\ next > from + 1 THEN 1 ELSE 0

\* read_preview_chunk
Chunk(file, from) ==
    LET end == Least(from + PreviewSize, Len(file))
        raw == SubSeq(file, from + 1, end)
        whole == SubSeq(raw, 1, Len(raw) - Kept(raw, end = Len(file)))
        text == Decoded(whole)
        next == from + Len(whole)
        held == HeldReturn(file, text, next, from) IN
    [text |-> Newlines(SubSeq(text, 1, Len(text) - held)), next |-> next - held]

\* What the page shows in the end: chunk after chunk while has_more.
Shown(file) ==
    LET after[from \in 0..Len(file)] ==
            LET chunk == Chunk(file, from) IN
            IF chunk.next < Len(file) THEN chunk.text \o after[chunk.next] ELSE chunk.text
    IN  after[0]
=============================================================================
