---------------------------- MODULE BlockParsers ----------------------------
(***************************************************************************)
(* What a block of an audit says of its transaction (log_core.py).  The    *)
(* list and the export read a block with parsers of their own:             *)
(* parse_block goes through the whole text, parse_block_for_list line by   *)
(* line, keeping only the names it was told of and leaving the raw data    *)
(* out.  A block is a sequence of lines; "kind" says how a line is written *)
(*                                                                         *)
(*   plain      name : value            audit    name : asc<value>         *)
(*   numbered   [n] name : asc<value>   field    <field name="..">value    *)
(*   date       RP/SP date time : date, timestamp: stamp                   *)
(*   section    Raw data (hex): / Audit data: / Bus data:                  *)
(*   hex        bytes                                                      *)
(*                                                                         *)
(* Texts are numbers, 0 for an empty one; the numbers under "numbered" are *)
(* those of DE070 where the name is "de070".                               *)
(***************************************************************************)
EXTENDS Integers, Sequences, SequencesExt, FiniteSetsExt

CONSTANTS
    HeaderLines,    \* lines in which plain names are looked for (40)
    RequestTexts    \* texts that say REQUEST

NoDate == 0
NoBlockUid == <<>>

\* "asc<v>", read by whoever does not know the notation.
Written(v) == 1000 + v

-----------------------------------------------------------------------------
(* Sections *)

IsSection(line, names) == line.kind = "section" /\ line.name \in names
Sections(lines, names, after) == {i \in (after + 1)..Len(lines) : IsSection(lines[i], names)}

\* The raw data section is cut out; it ends where another begins.
WithoutRawData(lines) ==
    LET raw == Sections(lines, {"raw"}, 0) IN
    IF raw = {} THEN lines
    ELSE LET first == Min(raw)
             next == Sections(lines, {"audit", "bus"}, first)
         IN  SubSeq(lines, 1, first - 1) \o (IF next = {} THEN <<>> ELSE SubSeq(lines, Min(next), Len(lines)))

WithoutBusData(lines) ==
    LET bus == Sections(lines, {"bus"}, 0) IN
    IF bus = {} THEN lines ELSE SubSeq(lines, 1, Min(bus) - 1)

WithoutByteData(lines) == WithoutBusData(WithoutRawData(lines))

-----------------------------------------------------------------------------
(* Where each value is looked for: how it is written, under which names,   *)
(* in order of preference.                                                 *)

ByReader(readers, names) == FlattenSeq([r \in DOMAIN readers |-> [n \in DOMAIN names |-> <<readers[r], names[n]>>]])
ByName(names) == FlattenSeq([n \in DOMAIN names |-> ByReader(<<"field", "audit", "plain">>, <<names[n]>>)])

Rrns == <<"retrievrefnumber", "retrievalreferencenumber", "rrn">>

UidSources == <<<<"plain", "transuid">>, <<"field", "transuid">>>>

\* The operation of this message, then the one it refers to.
MtiSources ==
    ByReader(<<"field", "audit">>, <<"mti">>) \o <<<<"type", "messagetype">>>>
    \o ByReader(<<"field", "audit">>, <<"msgid">>) \o ByReader(<<"field", "audit">>, <<"originmti", "tgoriginmti">>)

Sources ==
    [rrns |-> ByReader(<<"field", "audit">>, Rrns) \o <<<<"plain", "rrn">>>>,
     processing |-> ByReader(<<"field", "audit">>, <<"processingcode", "transactiontype">>),
     responses |-> ByReader(<<"field", "audit", "plain">>, <<"responsecode">>),
     acquirers |-> ByReader(<<"field", "audit">>, <<"acqid", "acquirerid", "acquiringinstid">>),
     tids |-> ByName(<<"tid", "terminal", "terminalid", "trmid", "trmuid">>),
     mids |-> ByName(<<"mid", "merchantid", "cardacceptorid", "merchant">>),
     amounts |-> ByName(<<"transactionamt", "transactionamount", "amt", "amount">>),
     currencies |-> ByName(<<"currency", "currencycode", "currcode">>),
     stan |-> ByName(<<"stan", "auditnumber", "origauditnumber", "transseqno">>),
     sequence |-> ByName(<<"sequence_number", "sequencenumber">>),
     authcode |-> ByName(<<"authcode", "authid", "approvalcode", "authorizationcode">>)]

\* Mutant: a name is missing.
ListFieldNamesShort ==
    {"transuid", "mti", "msgid", "originmti"} \union ToSet(Rrns)
    \union {source[2] : source \in UNION {ToSet(Sources[a]) : a \in DOMAIN Sources}}

\* LIST_FIELD_NAMES
ListFieldNames ==
    {"transuid", "originmti", "tgoriginmti", "mti", "msgid", "retrievrefnumber", "retrievalreferencenumber", "rrn",
     "processingcode", "transactiontype", "responsecode", "acqid", "acquirerid", "acquiringinstid", "stan", "auditnumber",
     "origauditnumber", "transseqno", "sequence_number", "sequencenumber", "authcode", "authid", "approvalcode",
     "authorizationcode", "trmuid", "terminal", "terminalid", "tid", "trmid", "merchantid", "cardacceptorid", "merchant",
     "mid", "amount", "amt", "transactionamount", "transactionamt", "currency", "currencycode", "currcode", "msguid"}

\* The plain names parse_block_for_list knows.
ListPlainNames ==
    {"messagetype", "processname", "flowdir", "flowtype", "transuid", "rrn", "responsecode", "tid", "terminal",
     "terminalid", "trmid", "trmuid", "mid", "merchantid", "cardacceptorid", "merchant", "amt", "amount",
     "transactionamount", "transactionamt", "currency", "currencycode", "currcode"}

-----------------------------------------------------------------------------
(* Readers *)

Header(lines) == SubSeq(lines, 1, Min({HeaderLines, Len(lines)}))
Named(lines, kinds, name) == SelectSeq(lines, LAMBDA line : line.name = name /\ line.kind \in kinds)
ValuesIn(lines) == [i \in DOMAIN lines |-> lines[i].value]

\* Name : value, in the header; "name : asc<value>" is one too.
PlainValues(lines, name) ==
    LET found == Named(Header(lines), {"plain", "audit"}, name)
    IN  [i \in DOMAIN found |-> IF found[i].kind = "audit" THEN Written(found[i].value) ELSE found[i].value]

\* What a name assigned again and again stands for at the end.
LastPlain(lines, name) == LET found == PlainValues(lines, name) IN IF found = <<>> THEN 0 ELSE found[Len(found)]

ReadAt(lines, source) ==
    CASE source[1] = "field" -> ValuesIn(Named(lines, {"field"}, source[2]))
      [] source[1] = "audit" -> ValuesIn(Named(lines, {"audit", "numbered"}, source[2]))
      [] source[1] = "plain" -> PlainValues(lines, source[2])
      [] source[1] = "type" -> <<LastPlain(lines, source[2])>>

\* unique_nonempty
UniqueNonempty(values) ==
    FoldLeft(LAMBDA found, value : IF value = 0 \/ Contains(found, value) THEN found ELSE Append(found, value), <<>>, values)

\* What parse_block_for_list keeps.
ListKnows(source) ==
    CASE source[1] = "plain" -> source[2] \in ListPlainNames
      [] source[1] = "type" -> TRUE
      [] OTHER -> source[2] \in ListFieldNames

\* "listing": whether the parser is the one that keeps only some names.
ValuesFor(lines, sources, listing) ==
    LET read == SelectSeq(sources, LAMBDA source : listing => ListKnows(source))
    IN  UniqueNonempty(FlattenSeq([s \in DOMAIN read |-> ReadAt(lines, read[s])]))

\* 800 and 810 are written with and without the leading zero.
FourDigits(mti) == IF mti \in {-800, -810} THEN -mti ELSE mti
Mtis(values) == UniqueNonempty([i \in DOMAIN values |-> FourDigits(values[i])])

BlockCodes(lines) ==
    {line.value : line \in {l \in ToSet(lines) : l.kind \in {"plain", "audit", "numbered", "field"} /\ l.name = "de070"}} \ {0}

\* The stamp of the first date line that has one, else the first date.
FullTime(lines) ==
    LET stamps == SelectSeq(lines, LAMBDA line : line.kind = "date" /\ line.stamp # NoDate)
        dates == SelectSeq(lines, LAMBDA line : line.kind = "date" /\ line.date # NoDate)
    IN  IF stamps # <<>> THEN stamps[1].stamp ELSE IF dates # <<>> THEN dates[1].date ELSE NoDate

\* The first date line of the header, its stamp or its date.
ListTime(lines) ==
    LET times == SelectSeq(Header(lines), LAMBDA line : line.kind = "date" /\ (line.stamp # NoDate \/ line.date # NoDate))
    IN  IF times = <<>> THEN NoDate ELSE IF times[1].stamp # NoDate THEN times[1].stamp ELSE times[1].date

SaysRequest(lines) ==
    \/ \E name \in {"flowdir", "flowtype"} : ToSet(PlainValues(lines, name)) \intersect RequestTexts # {}
    \/ LastPlain(lines, "messagetype") \in RequestTexts

\* A link logon has no transUId: its process, day and reference stand for it.
LogonExchangeUid(text, lines, mtis) ==
    LET process == LastPlain(lines, "processname")
        ref == LastPlain(lines, "flowtype")
    IN  IF process > 0 /\ ToSet(mtis) \intersect {800, 810} # {} /\ 1 \in BlockCodes(text) /\ ref # 0 /\ FullTime(text) # NoDate
        THEN <<"LOGON", process, FullTime(text), ref>> ELSE NoBlockUid

\* What both parsers make of the lines they read; "text" is the whole block.
Parsed(text, lines, time, listing) ==
    LET uids == ValuesFor(lines, UidSources, listing)
        mtis == Mtis(ValuesFor(lines, MtiSources, listing))
    IN  [uid |-> IF uids # <<>> THEN <<uids[1]>> ELSE LogonExchangeUid(text, lines, mtis),
         mtis |-> mtis, request |-> SaysRequest(lines), codes |-> BlockCodes(text), time |-> time]
        @@ [a \in DOMAIN Sources |-> ValuesFor(lines, Sources[a], listing)]

ParseBlock(lines) == Parsed(lines, lines, FullTime(lines), FALSE)

ParseBlockForList(lines) ==
    LET kept == WithoutRawData(lines) IN Parsed(lines, kept, ListTime(kept), TRUE)
=============================================================================
