------------------------------ MODULE EmvTags ------------------------------
(***************************************************************************)
(* The EMV tags of a message (emv_checks.py): those of BER-TLV containers  *)
(* dumped as hex, and those the audit gives under a tag or a name of their *)
(* own; and what is found wrong with them.  A tag is the sequence of its   *)
(* bytes, and so is a value, as it is added (the three digits of a country *)
(* or a currency under a name are padded); one that is no whole number of  *)
(* bytes of hexadecimal digits is Garbled (and no digits either).          *)
(***************************************************************************)
EXTENDS Integers, Sequences, SequencesExt, FiniteSetsExt, TLC

CONSTANTS
    MaxNesting,     \* templates within templates that are followed (8)
    Widths,         \* of the standard tags: least and greatest number of bytes
    NumericTags,    \* tags of packed decimals
    PaddedTags,     \* the two of them with three digits: 5F2A and 9F1A
    DateTag,        \* 9A
    CidTag,         \* 9F27
    CommonOnline    \* tags an online request usually has

Garbled == <<-1>>
NoTag == <<>>

-----------------------------------------------------------------------------
(* One container *)

Slice(data, first, size) == SubSeq(data, first, first + size - 1)

\* Bytes of the tag that begins at i, 0 for a wrong one; a tag whose first
\* byte ends in 31 goes on while bit 7 of its bytes is set.
TagSize(data, i) ==
    IF data[i] \in {0, 255} THEN 0
    ELSE IF data[i] % 32 # 31 THEN 1
    ELSE LET ends == {n \in 2..4 : i + n - 1 <= Len(data) /\ data[i + n - 1] < 128
                                   /\ \A k \in 1..(n - 2) : data[i + k] >= 128}
         IN  IF ends = {} \/ data[i + 1] % 128 = 0 THEN 0 ELSE Min(ends)

BigEndian(bytes) == FoldLeft(LAMBDA n, b : 256 * n + b, 0, bytes)

\* Bytes of the length at i, 0 for a wrong one, and the length: itself, or
\* the number of the up to three bytes that say it.
LengthSize(data, i) ==
    IF i > Len(data) THEN 0
    ELSE IF data[i] < 128 THEN 1
    ELSE LET count == data[i] % 128 IN IF count \in 1..3 /\ i + count <= Len(data) THEN 1 + count ELSE 0

\* Mutant: what is there of a value is taken for all of it.
LengthThere(data, i) == Min({data[i], Len(data) - i})
LengthAt(data, i) == IF data[i] < 128 THEN data[i] ELSE BigEndian(Slice(data, i + 1, data[i] % 128))

Result(tags, ok) == [tags |-> tags, ok |-> ok]

\* tlv: the tags found, in order, until the end or until something is wrong.
Objects[data \in Seq(Int), from \in Nat, depth \in Nat] ==
    IF depth > MaxNesting THEN Result(<<>>, FALSE)
    ELSE IF from > Len(data) THEN Result(<<>>, TRUE)
    ELSE LET tag == TagSize(data, from)
             size == IF tag = 0 THEN 0 ELSE LengthSize(data, from + tag)
             start == from + tag + size
         IN  IF size = 0 THEN Result(<<>>, FALSE)
             ELSE LET length == LengthAt(data, from + tag)
                      value == Slice(data, start, length)
                      inner == IF (data[from] \div 32) % 2 = 1
                               THEN Objects[value, 1, depth + 1]
                               ELSE Result(<<[tag |-> Slice(data, from, tag), value |-> value]>>, TRUE)
                  IN  IF start + length - 1 > Len(data) THEN Result(<<>>, FALSE)
                      ELSE IF ~inner.ok THEN inner
                      ELSE LET rest == Objects[data, start + length, depth]
                           IN  Result(inner.tags \o rest.tags, rest.ok)

Tlv(data) == IF data = Garbled THEN Result(<<>>, FALSE) ELSE Objects[data, 1, 0]

-----------------------------------------------------------------------------
(* All fields of a message *)

NoTags == [tags |-> <<>>, strict |-> {}, ambiguous |-> {}, conflicts |-> {}]
Without(f, x) == [y \in DOMAIN f \ {x} |-> f[y]]

\* add: a value of the wire counts more than one under a name; of two under a
\* name that differ neither counts, of two of the wire the first.
Add(found, tag, value, strict) ==
    LET known == tag \in DOMAIN found.tags
        differs == known /\ found.tags[tag] # value
        settled == tag \in found.strict \union found.ambiguous
    IN  IF ~strict
        THEN IF settled \/ (known /\ ~differs) THEN found
             ELSE IF differs THEN [found EXCEPT !.tags = Without(@, tag), !.ambiguous = @ \union {tag}]
             ELSE [found EXCEPT !.tags = (tag :> value) @@ @]
        ELSE IF tag \in found.strict
             THEN IF differs THEN [found EXCEPT !.conflicts = @ \union {tag}] ELSE found
             ELSE [found EXCEPT !.tags = (tag :> value) @@ @, !.strict = @ \union {tag}]

AddAll(found, objects) == FoldLeft(LAMBDA acc, object : Add(acc, object.tag, object.value, TRUE), found, objects)

\* A field under a tag ("explicit") or a name that stands for one (in texts
\* that have ICC or EMV data): int and opaque values have lost their bytes,
\* and of binary ones as text only those of a fixed width are taken.
Accepted(field) ==
    /\ field.tag # NoTag
    /\ field.encoding \notin {"int", "opaque"}
    /\ field.encoding = "asc" /\ ~field.explicit /\ field.tag \notin NumericTags =>
           /\ field.tag \in DOMAIN Widths /\ Widths[field.tag][1] = Widths[field.tag][2]
           /\ field.value # Garbled /\ Len(field.value) = Widths[field.tag][1]

\* parse_emv: containers and fields, first of the text lines, then of XML.
\* Of the containers that are no hex, DE55 is taken for a tag: its name is
\* two hexadecimal bytes.
ParseEmv(fields) ==
    FoldLeft(LAMBDA acc, field :
                 IF field.container /\ field.encoding = "hex"
                 THEN [found |-> AddAll(acc.found, Tlv(field.value).tags), broken |-> acc.broken \/ ~Tlv(field.value).ok]
                 ELSE IF ~Accepted(field) THEN acc
                 ELSE [acc EXCEPT !.found = Add(@, field.tag, field.value, field.explicit \/ field.encoding = "hex")],
             [found |-> NoTags, broken |-> FALSE], fields)

Failed(parsed) == parsed.broken \/ parsed.found.conflicts # {}

-----------------------------------------------------------------------------
(* What is found of them *)

Nibbles(value) == FlattenSeq([i \in DOMAIN value |-> <<value[i] \div 16, value[i] % 16>>])
IsDecimal(value) == \A n \in ToSet(Nibbles(value)) : n < 10
Number(value) == FoldLeft(LAMBDA n, d : 10 * n + d, 0, Nibbles(value))
IsDay(value) ==
    LET part(i) == Number(<<value[i]>>)
        days == IF part(2) = 2 THEN (IF part(1) % 4 = 0 THEN 29 ELSE 28) ELSE IF part(2) \in {4, 6, 9, 11} THEN 30 ELSE 31
    IN  part(2) \in 1..12 /\ part(3) \in 1..days

\* What is wrong with the value of a tag, the first of the rules that applies.
Wrong(tag, value) ==
    CASE value = <<>> \/ value = Garbled -> "hexadecimal"
      [] tag \in DOMAIN Widths /\ Len(value) \notin Widths[tag][1]..Widths[tag][2] -> "length"
      [] tag \in NumericTags /\ ~IsDecimal(value) -> "decimal"
      [] tag \in PaddedTags /\ Len(value) = 2 /\ value[1] >= 16 -> "padding"
      [] tag = DateTag /\ ~IsDay(value) -> "date"
      [] OTHER -> "nothing"

EmvErrors(parsed) ==
    {<<"conflict", tag>> : tag \in parsed.found.conflicts} \union (IF parsed.broken THEN {<<"tlv">>} ELSE {})
    \union {w \in {<<Wrong(tag, parsed.found.tags[tag]), tag>> : tag \in DOMAIN parsed.found.tags} : w[1] # "nothing"}

\* A request that goes online: OPN with MTI 0100 or 0200 ("financial"), or
\* PTMS whose cryptogram asks for it.
Online(tags, message) ==
    /\ message.request
    /\ \/ message.process = "OPN" /\ message.financial
       \/ message.process = "PTMS" /\ CidTag \in DOMAIN tags /\ tags[CidTag] = <<128>>

EmvWarnings(parsed, message) ==
    LET tags == parsed.found.tags
        whole == message.complete /\ ~Failed(parsed)
    IN  {<<"missing", tag>> : tag \in IF whole /\ Online(tags, message) /\ DOMAIN tags # {} THEN CommonOnline \ DOMAIN tags ELSE {}}
        \union (IF whole /\ message.request /\ message.chip /\ DOMAIN tags = {} /\ (message.financial \/ message.process = "PTMS")
                 THEN {<<"no EMV data">>} ELSE {})
        \union {<<"differs", tag>> : tag \in {t \in DOMAIN tags \intersect DOMAIN message.says :
                                          /\ tags[t] # Garbled /\ tags[t] # <<>> /\ IsDecimal(tags[t])
                                          /\ Number(tags[t]) # message.says[t]}}
=============================================================================
