---------------------------- MODULE FieldAnalysis ----------------------------
(***************************************************************************)
(* What is read out of the fields of one message, and out of the names of  *)
(* files, as pure functions: the log is filled with TLV objects, fields,   *)
(* names of source files, or blocks that are exported.                     *)
(***************************************************************************)
EXTENDS LogAnalysis, EmvTags, MessageFields, SourceNames, ExportFiles

CONSTANTS
    Messages,           \* that EMV tags may be of
    ExportOptions       \* options of an export

\* The time of a message is one of the numbers that are checked again; names
\* are those of source files.
ASSUME FieldsAssumption ==
    /\ DateNumber \in CheckedNumbers
    /\ "names" \in Families => \A t \in EntriesOf["names"] : "is" \in DOMAIN t /\ IsSourceFile(t.is)

EntriesIn(kind) == IF family = kind THEN [i \in DOMAIN log |-> log[i].is] ELSE <<>>

-----------------------------------------------------------------------------
(***************************************************************************)
(* A TLV container gives the tags of all its objects, those of templates   *)
(* included; cut anywhere it gives the tags of whole objects only, and is  *)
(* never taken for whole, but where one object ends.                       *)
(***************************************************************************)
TlvReadWhole == family = "tlv" =>
    LET objects == EntriesIn("tlv")
        data(k) == FlattenSeq([i \in 1..k |-> objects[i].text])
        tags(k) == FlattenSeq([i \in 1..k |-> objects[i].tags])
    IN  \A n \in 0..Len(data(Len(objects))) :
            LET read == Tlv(SubSeq(data(Len(objects)), 1, n))
                whole == {k \in 0..Len(objects) : Len(data(k)) = n}
            IN  /\ read.ok <=> whole # {}
                /\ IsPrefix(read.tags, tags(Len(objects)))
                /\ \A k \in whole : read.tags = tags(k)

(***************************************************************************)
(* Of all that a message says of a tag, in containers, under the tag and   *)
(* under names, in whatever order: the value of the wire counts, the first *)
(* of several, and two that differ are an error; a value under names       *)
(* counts if they agree and there is no other.                             *)
(***************************************************************************)
Given(fields, strict) ==
    FlattenSeq([i \in DOMAIN fields |->
        LET field == fields[i] IN
        IF field.container /\ field.encoding = "hex" THEN (IF strict THEN Tlv(field.value).tags ELSE <<>>)
        ELSE IF Accepted(field) /\ strict = (field.explicit \/ field.encoding = "hex")
        THEN <<[tag |-> field.tag, value |-> field.value]>> ELSE <<>>])
ValuesOfTag(given, tag) == {g.value : g \in {h \in ToSet(given) : h.tag = tag}}
TagsOf(given) == {g.tag : g \in ToSet(given)}

TagsAsGiven == family = "emv" =>
    LET found == ParseEmv(EntriesIn("emv")).found
        wire == Given(EntriesIn("emv"), TRUE)
        named == Given(EntriesIn("emv"), FALSE)
    IN  /\ DOMAIN found.tags = TagsOf(wire) \union {tag \in TagsOf(named) : Cardinality(ValuesOfTag(named, tag)) = 1}
        /\ found.conflicts = {tag \in TagsOf(wire) : Cardinality(ValuesOfTag(wire, tag)) > 1}
        /\ \A tag \in DOMAIN found.tags :
               found.tags[tag] = IF tag \in TagsOf(wire) THEN SelectSeq(wire, LAMBDA g : g.tag = tag)[1].value
                                 ELSE CHOOSE value \in ValuesOfTag(named, tag) : TRUE

(***************************************************************************)
(* "acquirer requirements and log completeness cannot be inferred"         *)
(* (emv_checks.py:3): a tag is missed only if all containers were read to  *)
(* their end and nothing that was read gives it, but names that differ; a  *)
(* value is wrong only if its message writes it.                           *)
(***************************************************************************)
EmvIsProved == family = "emv" =>
    LET fields == EntriesIn("emv")
        parsed == ParseEmv(fields)
        given == Given(fields, TRUE) \o Given(fields, FALSE)
    IN  /\ \A message \in Messages, tag \in CommonOnline :
               <<"missing", tag>> \in EmvWarnings(parsed, message) =>
                   /\ \A f \in ToSet(fields) : f.container /\ f.encoding = "hex" => Tlv(f.value).ok
                   /\ tag \notin TagsOf(given) \/ Cardinality(ValuesOfTag(given, tag)) > 1
        /\ \A message \in Messages : "differs" \in {w[1] : w \in EmvWarnings(parsed, message)} =>
               \E g \in ToSet(given) : g.tag \in DOMAIN message.says /\ Number(g.value) # message.says[g.tag]
        /\ \A e \in EmvErrors(parsed) : e[1] \notin {"tlv", "conflict"} =>
               \E value \in ValuesOfTag(given, e[2]) : Wrong(e[2], value) = e[1]

EmvReadWhole == TlvReadWhole /\ TagsAsGiven /\ EmvIsProved

-----------------------------------------------------------------------------
ValueSaid(values, key) == IF key \in DOMAIN values THEN values[key] ELSE 0

\* What another field may do to the values.
ChangedByBetter(before, after, values(_), usable(_), rank(_)) ==
    LET field == Last(after) IN
    \A key \in {f.key : f \in ToSet(after)} : ValueSaid(values(after), key) # ValueSaid(values(before), key) =>
        /\ usable(field) /\ field.key = key
        /\ \A g \in ToSet(before) : usable(g) /\ g.key = key => 
               \/ rank(g) < rank(field)
               \/ ValueSaid(values(after), key) = 0 /\ rank(g) <= rank(field) /\ ValueSaid(values(before), key) # field.text.id

(***************************************************************************)
(* As the fields of a message are read, a value that the checks compare is *)
(* replaced only by one that is written in a better way, and given up only *)
(* for another that is written as well; never does a worse one come back,  *)
(* nor a value of which there were two.  An invalid field stays invalid,   *)
(* and an absent or masked one is none, but for the data elements that are *)
(* checked twice (iso_checks.py:113-136).                                  *)
(***************************************************************************)
ValuesSettle ==
    [][family = "fields" =>
       LET before == EntriesIn("fields")
           after == EntriesIn("fields")'
       IN  /\ ChangedByBetter(before, after, IsoValues, Usable, IsoRank)
           /\ ChangedByBetter(before, after, SpdhValues, SpdhUsable, SpdhRank)
           /\ InvalidFields(before) \subseteq InvalidFields(after)
           /\ InvalidFields(after) \subseteq
                  InvalidFields(before) \union CheckedNumbers \union {f.number : f \in {g \in ToSet(after) : g.text.kind = "shown"}}]_vars

-----------------------------------------------------------------------------
\* What is loaded of the audits that are listed for a bank and a day.
AuditsAgree(names, bank, day) ==
    LET chosen == {n \in NamesForBank(ListedAudits(names), bank) : AuditDate(n) = day}
        loaded == LocalAudits(chosen, day, bank)
    IN  \A n \in {m \in chosen : m.packed # "tgz"} :
            /\ Cardinality({m \in loaded : SourceKey(m) = SourceKey(n)}) = 1
            /\ n \in loaded \/ n.packed # ""

(***************************************************************************)
(* What is offered is what is loaded: an audit that a server lists for its *)
(* day and a bank is, once it is mirrored, one of the audits of that bank  *)
(* and day, it or its uncompressed copy; and a change of a file of today's *)
(* list, or a new one, is reported by the watcher of the folder.           *)
(***************************************************************************)
SourcesAgree == family = "names" =>
    LET names == ToSet(EntriesIn("names")) IN
    \A bank \in DOMAIN BankCodes :
        /\ \A day \in {AuditDate(n) : n \in names} : AuditsAgree(names, bank, day)
        /\ \A n \in SignedFiles(names, Today, bank) : Reports({n}, Today, bank)
        /\ bank \in AvailableBanks(names) =>
               \E n \in names : bank \in BanksForAudits({n}) /\ (AuditDate(n) # 0 => n \in ListedAudits(names))

(***************************************************************************)
(* Each exported transaction has a file of its own with exactly its blocks *)
(* that the options select, in order of time - but a uid that ends in an   *)
(* underscore and a number can be given the name that another one got for  *)
(* having a name that was used.  Where no two names are equal but for      *)
(* capitals, what is shown of a transaction is its own file.               *)
(***************************************************************************)
ExportsApart == family = "export" =>
    LET blocks == EntriesIn("export") IN
    \A uids \in SUBSET {b.owner : b \in ToSet(blocks)} :
        LET names == FileNames(blocks, uids) IN
        /\ (\A u, v \in uids : u # v => u.name # Append(v.name, ToString(FirstIndex(blocks, v)))) =>
               \A u, v \in uids : u # v => names[u].name # names[v].name
        /\ (\A u, v \in uids : u # v => u.name # v.name) =>
               /\ CanExport(blocks, uids)
               /\ \A options \in ExportOptions, u \in uids :
                      LET file == Files(blocks, uids, options)[PathOf(u)]
                          at == [k \in DOMAIN file |-> blocks[file[k]]]
                      IN  /\ ToSet(file) = {i \in DOMAIN blocks : blocks[i].owner = u /\ Selected(blocks[i], options)}
                          /\ \A i, j \in DOMAIN file : i < j => at[j].time = 0 \/ (0 < at[i].time /\ at[i].time <= at[j].time)

(***************************************************************************)
(* What is exported of a transaction is what is listed of it, in a file of *)
(* its own.                                                                *)
(***************************************************************************)
ExportsMatch == ExportedIsListed /\ ExportsApart
=============================================================================
