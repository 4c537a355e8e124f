---------------------------- MODULE MCLogAnalysis ----------------------------
(***************************************************************************)
(* The families of logs: three transactions that refer to one another,     *)
(* with the reference fields present or absent, equal or not, with and     *)
(* without leading zeros; three local reversals and their originals; one   *)
(* transaction of up to four ISO or SPDH messages; an audit of separators, *)
(* dates, UIDs and link logons; bytes of a Tango log and of a page; the    *)
(* blocks of one transaction, in any order; a block line by line; TLV      *)
(* objects, EMV fields and numbered fields of one message; names of source *)
(* files; and blocks of several transactions that are exported.            *)
(***************************************************************************)
EXTENDS FieldAnalysis

Absent == [key \in {"stan", "original_stan", "sequence", "original_sequence", "tid", "mid", "currency", "rrn",
                    "original_rrn", "mti", "original_mti", "original_time", "transmission_time", "transmission",
                    "transaction_code", "amount", "rc"} |-> None]

Message(protocol, process, phase, fields) ==
    [protocol |-> protocol, process |-> process, phase |-> phase, oneway |-> FALSE, v |-> fields @@ Absent]
IsoMessage(process, phase, fields) == Message("ISO", process, phase, fields)
SpdhMessage(process, phase, fields) == Message("SPDH", process, phase, fields)

\* A transaction of one request.
Asking(process, fields, exempt) ==
    [messages |-> <<IsoMessage(process, "request", fields)>>, exempt |-> exempt, reversal |-> exempt,
     network |-> FALSE, time |-> 0, first |-> 0]

\* Originals: a stan that is reused, with a time or none, of one terminal or
\* another; a sequence number of two terminals; an NBG authorization.
Plain ==
    {Asking("opn", [stan |-> 1, tid |-> t, rrn |-> 5, transmission_time |-> c], FALSE) :
        t \in {None, 1, 2}, c \in {None, 3}}
    \union {Asking("opn", [stan |-> 1, tid |-> 1, transmission_time |-> 4], FALSE)}
    \union {Asking("opn", [sequence |-> 7, tid |-> t], FALSE) : t \in {1, 2}}
    \union {Asking(p, [stan |-> 1, mti |-> n], FALSE) : p \in {"opn", "nbg"}, n \in {100, 200}}

\* Reversals by stan (with or without DE90's time), sequence or RRN.
References ==
    {[original_stan |-> s, tid |-> t, original_time |-> c] : s \in {1, Padded + 1}, t \in {None, 1}, c \in {None, 3}}
    \union {[rrn |-> 5, tid |-> 1], [original_rrn |-> 5, tid |-> 2], [tid |-> 1]}
    \union {[original_sequence |-> Padded + 7, tid |-> t] : t \in {None, 1}}
    \union {[original_stan |-> 1, mti |-> 420, original_mti |-> 200]}

LinkedTransactions ==
    Plain \union {Asking("opn", r, TRUE) : r \in References}
    \union {Asking("nbg", [original_stan |-> 1, mti |-> 420, original_mti |-> n], TRUE) : n \in {100, 200}}

-----------------------------------------------------------------------------
\* Local reversals of two requests and a response, by time and by place.
At(ms, exempt, network, time, first) ==
    [messages |-> ms, exempt |-> exempt, reversal |-> exempt, network |-> network, time |-> time, first |-> first]

LocalTransactions ==
    {At(<<SpdhMessage("ptms", "request", [stan |-> of[1]]), SpdhMessage("ptms", "response", [stan |-> of[1]])>>,
        FALSE, of[2], when[1], when[2]) :
        of \in {<<1, FALSE>>, <<1, TRUE>>, <<2, FALSE>>}, when \in {<<None, 1>>, <<None, 3>>, <<1, 3>>, <<3, 1>>}}
    \union
    {At(<<SpdhMessage("ptms", "request", [original_stan |-> Padded + 1]), SpdhMessage("ptms", "request", [original_stan |-> s]),
          SpdhMessage("ptms", "response", [rc |-> c])>>, TRUE, FALSE, time, 2) :
        s \in {1, 2}, c \in {Padded, 116}, time \in {None, 2}}

-----------------------------------------------------------------------------
\* Requests and responses of one transaction, of two processes.
IsoMessages ==
    {IsoMessage("opn", "request", [mti |-> 100, stan |-> s, tid |-> t]) : s \in {None, 1, 2}, t \in {1, 2}}
    \union {IsoMessage("opn", "request", [mti |-> 100, stan |-> Padded + 1, tid |-> 1])}
    \union {IsoMessage("opn", "response", [mti |-> 110, stan |-> s, tid |-> 1, rc |-> 9]) : s \in {None, 1}}
    \union {IsoMessage("opn", "response", [mti |-> 110, stan |-> 1, rc |-> 8])}
    \union {IsoMessage("opn", "request", [mti |-> 200, stan |-> 1]), IsoMessage("opn", "response", [mti |-> 210, stan |-> 1])}
    \union {[IsoMessage("opn2", "request", [mti |-> 820]) EXCEPT !.oneway = TRUE]}

SpdhMessages ==
    {SpdhMessage("ptms", "request", [transmission |-> x, sequence |-> q, tid |-> 1]) : x \in {None, 1}, q \in {None, 1, 2}}
    \union {SpdhMessage("ptms", "request", [transmission |-> 1, sequence |-> 1, tid |-> 2]),
            SpdhMessage("ptms", "request", [transmission |-> Padded + 1, sequence |-> 1, tid |-> 1])}
    \union {SpdhMessage("ptms", "response", [transmission |-> x, sequence |-> q, tid |-> 1, rc |-> 9]) :
               x \in {None, 1}, q \in {None, 1}}
    \union {SpdhMessage("ptms", "response", [transmission |-> 1, tid |-> 1, rc |-> 8]),
            SpdhMessage("ptms2", "response", [transmission |-> 1, rc |-> 9])}

OfMessages(ms) ==
    [messages |-> ms, exempt |-> FALSE, reversal |-> FALSE, network |-> FALSE, time |-> 0, first |-> 0]
PairedTransactions(messages) == {OfMessages(ms) : ms \in UNION {[1..n -> messages] : n \in 1..4}}
IsoTransactions == PairedTransactions(IsoMessages)
SpdhTransactions == PairedTransactions(SpdhMessages)

-----------------------------------------------------------------------------
\* Pieces of texts.
Texted(pieces) == {[text |-> piece] : piece \in pieces}
Line(kind, uid) == [kind |-> kind, uid |-> uid]
AuditPieces ==
    {<<Line("separator", NoUid), Line("date", NoUid)>>, <<Line("separator", NoUid)>>, <<Line("logon", NoUid)>>,
     <<Line("bus", 1)>>} \union {<<Line("header", u)>> : u \in {1, 2}}
Bytes(bytes) == Texted({<<b>> : b \in bytes})

-----------------------------------------------------------------------------
\* Blocks of a transaction in the audits of two banks that share a process.
RowBlock(process, flow, time, mti, codes, acquirers) ==
    [process |-> process, bank |-> "BKT", flow |-> flow, request |-> flow = "request", time |-> time,
     mtis |-> <<mti>>, codes |-> codes, acquirers |-> acquirers]
RowBlocks ==
    {RowBlock("PTMS", flow, time, 4554, {}, {}) : flow \in {"request", "response"}, time \in {1, 4}}
    \union {RowBlock("OPN", flow, time, 200, {}, {"BKTKOS"}) : flow \in {"request", "response"}, time \in {0, 2, 3}}
    \union {RowBlock("OPN", flow, 5, 800, codes, {}) : flow \in {"request", "response"}, codes \in {{1}, {301}}}
    \union {RowBlock("TANGO", "request", 6, 4530, {}, {}), RowBlock("TANGO", "other", 1, 9081, {1}, {}),
            [RowBlock("TANGO", "other", 4, 9081, {}, {}) EXCEPT !.request = TRUE]}

\* Lines of a block.
Plainly(name, value) == [kind |-> "plain", name |-> name, value |-> value]
Audited(name, value) == [kind |-> "audit", name |-> name, value |-> value]
Numbered(name, value) == [kind |-> "numbered", name |-> name, value |-> value]
Field(name, value) == [kind |-> "field", name |-> name, value |-> value]
Section(name) == [kind |-> "section", name |-> name]
Hex == [kind |-> "hex", name |-> "", value |-> 0]
Dated(stamp, date) == [kind |-> "date", name |-> "", stamp |-> stamp, date |-> date]
BlockPieces ==
    {<<Dated(5, 1)>>, <<Dated(0, 2), Plainly("processname", 1), Plainly("flowtype", 3)>>,
     <<Plainly("transuid", 7), Plainly("messagetype", 100)>>, <<Plainly("tid", 8), Plainly("amount", 9)>>,
     <<Audited("tid", 8), Audited("stan", 6)>>, <<Section("raw"), Hex>>,
     <<Section("audit"), Numbered("mti", -800), Numbered("de070", 1)>>,
     <<Section("bus"), Field("transuid", 9), Numbered("tgoriginmti", 4530), Field("msgid", 810)>>}

-----------------------------------------------------------------------------
\* TLV objects: one byte of tag or more, lengths of one to three bytes, and
\* templates, eight of them one in the other.
Object(tag, size, value) == [text |-> tag \o size \o value, tags |-> <<[tag |-> tag, value |-> value]>>]
Template(tag, within) == [text |-> tag \o <<Len(within.text)>> \o within.text, tags |-> within.tags]
Deep[n \in 0..8] == IF n = 0 THEN Object(<<149>>, <<1>>, <<0>>) ELSE Template(<<112>>, Deep[n - 1])
TlvObjects ==
    {Object(<<149>>, <<0>>, <<>>), Object(<<95, 42>>, <<2>>, <<9, 120>>), Object(<<95, 42>>, <<129, 1>>, <<149>>),
     Object(<<95, 129, 3>>, <<130, 0, 2>>, <<112, 1>>), Template(<<112>>, Object(<<130>>, <<1>>, <<255>>)),
     Template(<<191, 12>>, [text |-> <<>>, tags |-> <<>>]), Deep[8]}

\* Fields of EMV data: 9F02 (amount), 95 and 5F2A (currency) in all ways.
Amount == <<159, 2>>
Tvr == <<149>>
Currency == <<95, 42>>
EmvField(container, tag, explicit, encoding, value) ==
    [container |-> container, tag |-> tag, explicit |-> explicit, encoding |-> encoding, value |-> value]
Cents(n) == <<0, 0, 0, 0, 0, n>>
EmvFields ==
    {EmvField(FALSE, Amount, e, "asc", Cents(n)) : e \in BOOLEAN, n \in {1, 2}}
    \union {EmvField(FALSE, Tvr, FALSE, "asc", v) : v \in {<<0, 0, 0, 0, 0>>, <<0, 1>>}}
    \union {EmvField(FALSE, Tvr, FALSE, "none", Garbled), EmvField(FALSE, Tvr, FALSE, "hex", <<0, 0, 0, 0, 1>>)}
    \union {EmvField(FALSE, Currency, FALSE, "int", <<9, 120>>), EmvField(FALSE, Currency, TRUE, "none", <<25, 120>>),
            EmvField(FALSE, <<154>>, TRUE, "none", <<36, 2, 48>>)}
    \union {EmvField(TRUE, NoTag, FALSE, "hex", v) :
               v \in {Amount \o <<6>> \o Cents(2) \o <<154, 3, 35, 2, 41>>, Tvr \o <<5, 0, 0>>, Garbled}}
    \union {EmvField(TRUE, <<222, 85>>, TRUE, "asc", <<1>>), EmvField(TRUE, <<222, 85>>, TRUE, "hex", Currency \o <<2, 9, 120>>)}
MCMessages ==
    {[process |-> p, request |-> TRUE, financial |-> p = "OPN", complete |-> TRUE, chip |-> TRUE, says |-> Amount :> 1] :
        p \in {"OPN", "PTMS"}}
MCNumericTags == {Amount, Currency, <<154>>}
MCPaddedTags == {Currency}
MCDateTag == <<154>>
MCCidTag == <<159, 39>>
MCCommonOnline == {Amount, Tvr, <<154>>}
MCWidths == Amount :> <<6, 6>> @@ Tvr :> <<5, 5>> @@ Currency :> <<2, 2>> @@ <<154>> :> <<3, 3>>

\* Fields of a message: a STAN in all ways, an MTI, a time and a PIN block.
Text(id, size, digits, date, kind) == [id |-> id, size |-> size, digits |-> digits, date |-> date, kind |-> kind]
FieldOf(key, number, best, line, encoding, text) ==
    [key |-> key, number |-> number, best |-> best, line |-> line, encoding |-> encoding, text |-> text]
Stan(id) == Text(id, 6, TRUE, FALSE, "shown")
MessageFieldsGiven ==
    {FieldOf("stan", 0, b, l, "asc", Stan(id)) : b \in BOOLEAN, l \in BOOLEAN, id \in {1, 2}}
    \union {FieldOf("stan", 11, FALSE, TRUE, "asc", Stan(id)) : id \in {1, 2}}
    \union {FieldOf("stan", 11, FALSE, TRUE, "asc", Text(3, 6, FALSE, FALSE, "masked")),
            FieldOf("stan", 11, FALSE, TRUE, "hex", Stan(4)), FieldOf("stan", 11, FALSE, TRUE, "int", Text(1, 4, TRUE, FALSE, "shown")),
            FieldOf("stan", 11, FALSE, TRUE, "asc", Text(5, 4, TRUE, FALSE, "shown")),
            FieldOf("stan", 0, FALSE, TRUE, "asc", Text(6, 0, FALSE, FALSE, "absent")),
            FieldOf("time", 7, FALSE, TRUE, "asc", Text(7, 10, TRUE, FALSE, "shown")),
            FieldOf("tid", 41, FALSE, TRUE, "asc", Text(8, 8, FALSE, FALSE, "masked")),
            FieldOf("", 52, FALSE, TRUE, "hex", Text(9, 10, TRUE, FALSE, "shown"))}

\* Names of source files, of two banks with one code and one of another.
Name(file, code, parts, dates, alone, packed) ==
    [family |-> file, code |-> code, parts |-> parts, dates |-> dates, alone |-> alone, packed |-> packed]
MCBankCodes == [BKT |-> "OPN1", BKTKOS |-> "OPN1", OTP |-> "OPN2"]
SourceFiles ==
    {Name("OPN", c, TRUE, <<1>>, {1}, p) : c \in {"OPN1", "OPN2"}, p \in {"", "gz", "gzip", "tgz"}}
    \union {Name("PTMS", "PTMS", d, <<1>>, {1}, p) : d \in BOOLEAN, p \in {"", "gz"}}
    \union {Name("OPN", "OPN1", TRUE, <<2, 1>>, a, "") : a \in {{}, {1, 2}, {2}}}
    \union {Name("OPN", "", FALSE, <<1>>, {1}, ""), Name("audit", "", TRUE, <<1>>, {1}, "")}
    \union {Name("tango", "", TRUE, d, {}, p) : d \in {<<>>, <<1>>, <<2>>}, p \in {"", "gz"}}

\* Blocks of uids whose names are equal, or made equal.
Uid(id, name, upper) == [id |-> id, name |-> name, upper |-> upper]
ExportedBlocks ==
    {[owner |-> u, process |-> "PTMS", direction |-> d, time |-> t] :
        u \in {Uid(1, <<"a">>, FALSE), Uid(2, <<"a">>, TRUE), Uid(3, <<"a", "3">>, FALSE), Uid(4, <<"b">>, FALSE)},
        d \in {"in", "internal"}, t \in {0, 1}}
    \union {[owner |-> u, process |-> "OPN", direction |-> "out", time |-> 2] : u \in {Uid(1, <<"a">>, FALSE), Uid(4, <<"b">>, FALSE)}}
MCExportOptions == {[protocol |-> p, directions |-> d] : p \in {"all", "ISO", "SPDH"}, d \in {{"in", "out"}, {"in", "out", "internal"}}}

Are(things) == {[is |-> t] : t \in things}
MCEntriesOf ==
    [linked |-> LinkedTransactions, local |-> LocalTransactions,
     iso |-> IsoTransactions, spdh |-> SpdhTransactions,
     audit |-> Texted(AuditPieces), tango |-> Bytes({"u1", "u2", "nl"}), page |-> Bytes({"a", "m1", "m2", "cr", "lf"}),
     row |-> RowBlocks, block |-> Texted(BlockPieces), tlv |-> Are(TlvObjects), emv |-> Are(EmvFields),
     fields |-> Are(MessageFieldsGiven), names |-> Are(SourceFiles), export |-> Are(ExportedBlocks)]
MCRequestTexts == {100}
MCNumericLengths == 7 :> 10 @@ 11 :> 6
MCTextLengths == 41 :> 8
MCLimitOf ==
    [linked |-> 3, local |-> 3, iso |-> 1, spdh |-> 1, audit |-> 5, tango |-> 7, page |-> 5, row |-> 3, block |-> 4,
     tlv |-> 3, emv |-> 3, fields |-> 3, names |-> 2, export |-> 3]
=============================================================================
