--------------------------- MODULE MessageFields ---------------------------
(***************************************************************************)
(* The values a message has for the checks (parse_iso_message and          *)
(* parse_spdh_message).  An audit gives a field several times: as a        *)
(* numbered data element, under names, as text and as XML.  Of what is     *)
(* written in the best way there has to be one value, or there is none.    *)
(*                                                                         *)
(* A field of an audit is                                                  *)
(*   key       what it is for the checks ("stan", ...; NoKey for nothing)  *)
(*   number    of the data element, 0 if it has only a name                *)
(*   best      among names: msgid (ISO), transseqno (SPDH)                 *)
(*   line      a text line, and no XML                                     *)
(*   encoding  "asc", "int", "hex", or "decoded" without a wrapper         *)
(*   text      the value: id, size, digits (nothing but decimal digits),   *)
(*             date (a date and time), kind: "shown", "masked" (stars),    *)
(*             "opaque" (another dump within) or "absent" (empty, n/a)     *)
(***************************************************************************)
EXTENDS Integers, Sequences, SequencesExt, FiniteSetsExt, TLC

CONSTANTS
    NumericLengths,     \* digits of the numeric data elements
    TextLengths,        \* greatest length of the text data elements
    CheckedNumbers,     \* data elements whose length is checked again (4, 7, 11, 49, 90)
    DateNumber,         \* DE7
    PinNumber           \* DE52

NoKey == ""

-----------------------------------------------------------------------------
(* Data elements of a fixed length *)

\* validate_fixed_field: "Masked or opaque audit values cannot establish wire
\* length", nor does hex, whose encoding depends on the bank.
WrongLength(field) ==
    LET n == field.number
        t == field.text
    IN  /\ t.kind = "shown"
        /\ \/ /\ n \in DOMAIN NumericLengths /\ field.encoding # "hex"
              /\ ~(t.digits /\ t.size <= NumericLengths[n] /\ (field.encoding # "int" => t.size = NumericLengths[n]))
           \/ n \in DOMAIN TextLengths /\ field.encoding \notin {"hex", "int"} /\ t.size > TextLengths[n]
           \/ n = PinNumber /\ field.encoding = "hex" /\ t.size # 16

\* Hex is taken for packed decimals only in its exact width.
Decodable(field) ==
    /\ field.number \in DOMAIN NumericLengths
    /\ field.text.digits /\ field.text.size = NumericLengths[field.number] + (NumericLengths[field.number] % 2)

\* collect: what the checks may use.
Usable(field) ==
    /\ field.key # NoKey
    /\ field.text.kind \in {"shown", "masked"}
    /\ field.encoding = "hex" => Decodable(field)

\* The check of collect: it has no exception for masked values.
WrongDigits(field) ==
    /\ Usable(field) /\ field.number \in CheckedNumbers /\ field.encoding # "hex"
    /\ LET t == field.text IN ~(t.digits /\ t.size <= NumericLengths[field.number]
                                /\ (field.encoding # "int" => t.size = NumericLengths[field.number]))

WrongDate(field) ==
    /\ Usable(field) /\ field.number = DateNumber /\ field.encoding # "int"
    /\ field.text.digits /\ field.text.size = NumericLengths[DateNumber] /\ ~field.text.date

InvalidFields(fields) ==
    {f.number : f \in {g \in ToSet(fields) : WrongLength(g) \/ WrongDigits(g) \/ WrongDate(g)}}

-----------------------------------------------------------------------------
(* The value of each key *)

\* A number says for certain which field it is, then the MTI's own name.
IsoRank(field) == IF field.number # 0 THEN 3 ELSE IF field.best THEN 2 ELSE 1

\* The full sequence number comes before its counter, a line before XML.
SpdhRank(field) == (IF field.line THEN 20 ELSE 10) + (IF field.best THEN 2 ELSE 1)
SpdhUsable(field) == field.key # NoKey /\ field.text.kind \in {"shown", "masked"} /\ field.encoding # "hex"

\* What is said of a key in the best way that anything is said of it.
Said(candidates, key) ==
    LET ranks == {c.rank : c \in {d \in candidates : d.key = key}}
    IN  {c.id : c \in {d \in candidates : d.key = key /\ d.rank = Max(ranks)}}

\* Mutant: one of several values is taken.
ValuesAnyway(candidates) == [key \in {c.key : c \in candidates} |-> Min(Said(candidates, key))]

\* "Ambiguous audit representations are deliberately not compared."
ValuesOf(candidates) ==
    [key \in {k \in {c.key : c \in candidates} : Cardinality(Said(candidates, k)) = 1} |->
        CHOOSE id \in Said(candidates, key) : TRUE]

IsoValues(fields) ==
    ValuesOf({[key |-> f.key, rank |-> IsoRank(f), id |-> f.text.id] : f \in {g \in ToSet(fields) : Usable(g)}})
SpdhValues(fields) ==
    ValuesOf({[key |-> f.key, rank |-> SpdhRank(f), id |-> f.text.id] : f \in {g \in ToSet(fields) : SpdhUsable(g)}})
=============================================================================
