----------------------------- MODULE Loading_proofs -----------------------------
(***************************************************************************)
(* Proofs about what a load is promised and what the parser below it does: *)
(* rows never go back (LogQuery), the parallel scan adds the blocks in the *)
(* order of the files and bounds what it holds (ParsePipeline), and what   *)
(* its caches of audit blocks answer is enough for every export            *)
(* (BlockIndex).                                                           *)
(***************************************************************************)
EXTENDS LogQuery, ParsePipelineInv, BlockIndexInv, SequenceTheorems, TLAPS

-----------------------------------------------------------------------------
(***************************************************************************)
(* A session which loads the same bank again never gets older rows.  The   *)
(* invariant says what a call may not undercut: the rows a session holds   *)
(* are no newer than the files, and, while it waits for the same bank      *)
(* again, no newer than the files were when that call began.               *)
(***************************************************************************)
HeldIsPast(c) ==
    answer[c] # NoAnswer =>
        /\ \A f \in Files : answer[c].rows[f] <= version[f]
        /\ answer[c].rows = Only(answer[c].rows, SourcesOf(answer[c].bank))

AskedAfterHeld(c) ==
    (c \in asking /\ answer[c] # NoAnswer /\ answer[c].bank = bank[c]) =>
        \A f \in Files : answer[c].rows[f] <= asked[c][f]

QueryInv ==
    /\ QueryTypeOK
    /\ \A c \in Callers : HeldIsPast(c) /\ AskedAfterHeld(c)

-----------------------------------------------------------------------------
LEMMA OnlyType ==
    ASSUME NEW v \in Stamps, NEW fs
    PROVE  Only(v, fs) \in Stamps
BY SourcesAssumption DEF Only, Stamps

LEMMA SomeBankType == SomeBank \in Banks
BY SourcesAssumption DEF SomeBank

\* The type invariant of the abstract service and the bound on the rows its
\* sessions hold (the calls of load_logs, lines 269-300).
THEOREM QueryInvariant == QuerySpec => []QueryInv
<1>1. QueryInit => QueryInv
  BY SomeBankType, SourcesAssumption
  DEF QueryInit, QueryInv, QueryTypeOK, HeldIsPast, AskedAfterHeld, Stamps, Nothing
<1>2. QueryInv /\ [QueryNext]_queryVars => QueryInv'
  <2> SUFFICES ASSUME QueryInv, [QueryNext]_queryVars PROVE QueryInv'
    OBVIOUS
  <2> USE SourcesAssumption, NoAnswerAssumption
  <2>1. ASSUME NEW f \in Files, ChangeFile(f) PROVE QueryInv'
    <3>1. version' \in Stamps /\ \A g \in Files : version[g] <= version'[g]
      BY <2>1 DEF ChangeFile, QueryInv, QueryTypeOK, Stamps
    <3>2. QueryTypeOK'
      BY <3>1, <2>1 DEF ChangeFile, QueryInv, QueryTypeOK
    <3>3. ASSUME NEW c \in Callers PROVE HeldIsPast(c)' /\ AskedAfterHeld(c)'
      <4>1. answer[c] # NoAnswer => answer[c] \in Answers
        BY DEF QueryInv, QueryTypeOK
      <4>2. HeldIsPast(c) /\ AskedAfterHeld(c)
        BY DEF QueryInv
      <4> QED
        BY <2>1, <3>1, <4>1, <4>2
        DEF ChangeFile, HeldIsPast, AskedAfterHeld, Answers, Stamps, QueryInv, QueryTypeOK
    <3> QED
      BY <3>2, <3>3 DEF QueryInv
  <2>2. ASSUME NEW c \in Callers, NEW b \in Banks, Ask(c, b) PROVE QueryInv'
    <3>1. Signature(version, b) \in Stamps
      BY OnlyType DEF Signature, QueryInv, QueryTypeOK
    <3>2. QueryTypeOK'
      BY <3>1, <2>2 DEF Ask, QueryInv, QueryTypeOK
    <3>3. ASSUME NEW d \in Callers PROVE HeldIsPast(d)' /\ AskedAfterHeld(d)'
      <4>1. HeldIsPast(d) /\ AskedAfterHeld(d)
        BY DEF QueryInv
      <4>2. HeldIsPast(d)'
        BY <4>1, <2>2 DEF Ask, HeldIsPast
      <4>3. CASE d = c
        <5> SUFFICES ASSUME answer[c] # NoAnswer, answer[c].bank = b, NEW f \in Files
                     PROVE  answer[c].rows[f] <= Signature(version, b)[f]
          BY <4>2, <4>3, <2>2 DEF Ask, AskedAfterHeld, QueryInv, QueryTypeOK
        <5>1. answer[c].rows[f] <= version[f]
          BY <4>1, <4>3 DEF HeldIsPast
        <5>2. answer[c].rows[f] = Only(answer[c].rows, SourcesOf(b))[f]
          BY <4>1, <4>3 DEF HeldIsPast
        <5> QED
          BY <5>1, <5>2 DEF Only, Signature
      <4>4. CASE d # c
        BY <4>1, <4>2, <4>4, <2>2 DEF Ask, AskedAfterHeld, QueryInv, QueryTypeOK
      <4> QED
        BY <4>2, <4>3, <4>4
    <3> QED
      BY <3>2, <3>3 DEF QueryInv
  <2>3. ASSUME NEW c \in Callers, NEW rows \in Stamps, Answer(c, rows) PROVE QueryInv'
    <3>1. [bank |-> bank[c], rows |-> rows] \in Answers
      BY DEF Answers, QueryInv, QueryTypeOK
    <3>2. Nothing \in Stamps
      BY DEF Nothing, Stamps
    <3>3. QueryTypeOK'
      BY <3>1, <3>2, <2>3 DEF Answer, QueryInv, QueryTypeOK
    <3>4. ASSUME NEW d \in Callers PROVE HeldIsPast(d)' /\ AskedAfterHeld(d)'
      <4>1. HeldIsPast(d) /\ AskedAfterHeld(d)
        BY DEF QueryInv
      <4>2. CASE d = c
        BY <4>2, <2>3 DEF Answer, Answerable, HeldIsPast, AskedAfterHeld, QueryInv, QueryTypeOK
      <4>3. CASE d # c
        BY <4>1, <4>3, <2>3 DEF Answer, HeldIsPast, AskedAfterHeld, QueryInv, QueryTypeOK
      <4> QED
        BY <4>2, <4>3
    <3> QED
      BY <3>3, <3>4 DEF QueryInv
  <2>4. ASSUME NEW c \in Callers, Fail(c) PROVE QueryInv'
    <3>1. Nothing \in Stamps
      BY DEF Nothing, Stamps
    <3>2. QueryTypeOK'
      BY <3>1, <2>4 DEF Fail, QueryInv, QueryTypeOK
    <3>3. ASSUME NEW d \in Callers PROVE HeldIsPast(d)' /\ AskedAfterHeld(d)'
      BY <2>4 DEF Fail, HeldIsPast, AskedAfterHeld, QueryInv, QueryTypeOK
    <3> QED
      BY <3>2, <3>3 DEF QueryInv
  <2>5. ASSUME UNCHANGED queryVars PROVE QueryInv'
    BY <2>5 DEF queryVars, QueryInv, QueryTypeOK, HeldIsPast, AskedAfterHeld
  <2> QED
    BY <2>1, <2>2, <2>3, <2>4, <2>5 DEF QueryNext
<1> QED
  BY <1>1, <1>2, PTL DEF QuerySpec

(***************************************************************************)
(* Whatever files change and however calls overlap, a session that loads   *)
(* a bank again gets rows at least as new as those it has (load_source     *)
(* with live set, web_app.py 598-694).                                     *)
(***************************************************************************)
THEOREM RowsNeverGoBack == QuerySpec => NeverBackwards
<1>1. QueryInv /\ [QueryNext]_queryVars => [\A c \in Callers : Advances(answer[c], answer'[c])]_queryVars
  <2> SUFFICES ASSUME QueryInv, QueryNext, NEW c \in Callers, NEW f \in Files \ LateFiles,
                      answer[c] # NoAnswer, answer'[c] # NoAnswer, answer[c].bank = answer'[c].bank
               PROVE  answer'[c].rows[f] >= answer[c].rows[f]
    BY DEF Advances
  <2> USE SourcesAssumption
  <2>1. answer[c].rows[f] \in Nat /\ asked[c][f] \in Nat
    BY DEF QueryInv, QueryTypeOK, Answers, Stamps
  <2>2. CASE answer'[c] = answer[c]
    BY <2>1, <2>2
  <2>3. ASSUME NEW rows \in Stamps, Answer(c, rows) PROVE answer'[c].rows[f] >= answer[c].rows[f]
    <3>1. answer'[c] = [bank |-> bank[c], rows |-> rows]
      BY <2>3 DEF Answer, QueryInv, QueryTypeOK
    <3>2. answer[c].rows[f] <= asked[c][f]
      BY <2>3, <3>1 DEF Answer, QueryInv, AskedAfterHeld
    <3>3. rows[f] >= asked[c][f]
      BY <2>3 DEF Answer, Answerable, NoOlder
    <3>4. rows[f] \in Nat
      BY DEF Stamps
    <3> QED
      BY <2>1, <3>1, <3>2, <3>3, <3>4
  <2>4. ASSUME NEW d \in Callers, NEW rows \in Stamps, Answer(d, rows), d # c
        PROVE  answer'[c] = answer[c]
    BY <2>4 DEF Answer, QueryInv, QueryTypeOK
  <2> QED
    BY <2>2, <2>3, <2>4 DEF QueryNext, ChangeFile, Ask, Fail
<1> QED
  BY <1>1, QueryInvariant, PTL DEF QuerySpec, NeverBackwards

-----------------------------------------------------------------------------
(***************************************************************************)
(* The caches of audit blocks.  IndexInv is inductive, so for any audits,  *)
(* UIDs and growth an exported log holds every message that the row and    *)
(* the summary of its transaction were made from.                          *)
(***************************************************************************)

\* The stamp of the audits is an extent.
LEMMA StampIsExtent == ASSUME IndexTypeOK PROVE Stamp \in Extents
BY DEF IndexTypeOK, Stamp, Extents

\* Extents that lie within one another.
LEMMA AtMostTransitive ==
    ASSUME NEW a \in Extents, NEW b \in Extents, NEW c \in Extents, AtMost(a, b), AtMost(b, c)
    PROVE  AtMost(a, c)
BY DEF AtMost, Extents

\* A bound on MaxBlocks, which is a function of its own.
LEMMA WithinBounds ==
    ASSUME NEW a \in Extents, IndexTypeOK, AtMost(a, Stamp)
    PROVE  AtMost(a, MaxBlocks)
BY IndexAssumption DEF AtMost, Extents, IndexTypeOK, Stamp

\* A larger extent has at least the same transactions.
LEMMA UidsGrow ==
    ASSUME NEW a \in Extents, NEW b \in Extents, AtMost(a, b)
    PROVE  UidsIn(a) \subseteq UidsIn(b)
BY DEF UidsIn, AtMost, Extents

\* NoBlocks is within every extent.
LEMMA NoBlocksLeast ==
    /\ NoBlocks \in Extents
    /\ \A a \in Extents : AtMost(NoBlocks, a)
    /\ AtMost(NoBlocks, MaxBlocks)
BY IndexAssumption DEF NoBlocks, Extents, AtMost

\* What a cache holds after an entry is put into it.
LEMMA PutEntries ==
    ASSUME NEW cache, NEW entry, NEW e \in Put(cache, entry)
    PROVE  e = entry \/ (e \in cache /\ e.key # entry.key)
BY DEF Put

\* The caches answer with an extent that is filed under the present stamp.
LEMMA CachedEntry ==
    ASSUME NEW extent \in Cached
    PROVE  \/ Located # {} /\ \E e \in locationCache : e.key = Stamp /\ e.extent = extent
           \/ Located = {} /\ \E t \in textCache : t.key = Stamp /\ t.extent = extent
BY DEF Cached, Located, Kept

\* With no answer nothing is located.
LEMMA NothingLocated == ASSUME Cached = {} PROVE Located = {}
BY DEF Cached

\* Everything the parser reads from the caches is within the audits and at
\* least what AnswersCover promises.
LEMMA CachedCovers ==
    ASSUME IndexTypeOK, PastInv, NEW extent \in Cached
    PROVE  /\ extent \in Extents
           /\ AtMost(extent, Stamp)
           /\ \A s \in Extents : AnswersCover(s) => AtMost(s, extent)
<1>1. CASE Located # {} /\ \E e \in locationCache : e.key = Stamp /\ e.extent = extent
  BY <1>1 DEF IndexTypeOK, PastInv, LocationEntry, AnswersCover
<1>2. CASE Located = {} /\ \E t \in textCache : t.key = Stamp /\ t.extent = extent
  BY <1>2 DEF IndexTypeOK, PastInv, TextEntry, AnswersCover
<1> QED BY <1>1, <1>2, CachedEntry

\* By OneEntryInv the caches answer the same again.
LEMMA CachedAgain ==
    ASSUME OneEntryInv, NEW extent \in Cached, extent \in Extents
    PROVE  AnswersCover(extent)
<1>0. AtMost(extent, extent) BY DEF AtMost, Extents
<1>1. CASE Located # {} /\ \E e \in locationCache : e.key = Stamp /\ e.extent = extent
  BY <1>0, <1>1 DEF OneEntryInv, AnswersCover
<1>2. CASE Located = {} /\ \E t \in textCache : t.key = Stamp /\ t.extent = extent
  BY <1>0, <1>2 DEF OneEntryInv, AnswersCover, Located
<1> QED BY <1>1, <1>2, CachedEntry

-----------------------------------------------------------------------------
\* An append changes the stamp to one that nothing is filed under.
LEMMA AppendKeeps ==
    ASSUME IndexInv, NEW f \in Audits, NEW u \in Uids, AppendBlock(f, u)
    PROVE  IndexInv'
<1> USE DEF IndexInv
<1>1. UNCHANGED <<locationCache, textCache, scans, doing, unread, seen, wanted, shown, summary>>
  BY DEF AppendBlock, parser
<1>2. /\ blocks' \in [Audits -> Seq(Uids)]
      /\ \A g \in Audits : Len(blocks[g]) <= Len(blocks'[g])
      /\ Len(blocks'[f]) = Len(blocks[f]) + 1
      /\ \A g \in Audits : \A i \in 1..Len(blocks[g]) : blocks'[g][i] = blocks[g][i]
  BY DEF AppendBlock, IndexTypeOK
<1>3. IndexTypeOK'
  <2>1. AtMost(Stamp, MaxBlocks)'
    BY <1>2, IndexAssumption DEF AppendBlock, IndexTypeOK, AtMost, Stamp
  <2> QED BY <1>1, <1>2, <2>1 DEF IndexTypeOK, LocationEntry, TextEntry, Extents
<1>4. Stamp \in Extents /\ Stamp' \in Extents /\ AtMost(Stamp, Stamp')
  BY <1>2, StampIsExtent DEF Stamp, AtMost, IndexTypeOK, Extents
<1>5. \A k \in Extents : AtMost(k, Stamp) => AtMost(k, Stamp') /\ k # Stamp'
  BY <1>2, <1>4, AtMostTransitive DEF AtMost, Extents, Stamp, IndexTypeOK
<1>6. PastInv'
  BY <1>1, <1>5 DEF PastInv, IndexTypeOK, LocationEntry, TextEntry, AtMost
<1>7. OneEntryInv'
  BY <1>1 DEF OneEntryInv
<1>8. /\ \A e \in locationCache : e.key # Stamp'
      /\ \A t \in textCache : t.key # Stamp'
  BY <1>5 DEF PastInv, IndexTypeOK, LocationEntry, TextEntry
<1>9. Located' = {} /\ \A s : AnswersCover(s)'
  BY <1>1, <1>8 DEF Located, AnswersCover
<1>10. \A s \in scans : UidsIn(s) \subseteq UidsIn(s)'
  BY <1>2 DEF UidsIn, PastInv, AtMost, Stamp, IndexTypeOK, Extents
<1>11. ParserInv'
  <2>1. doing \in {"write", "copy", "written"} => AtMost(summary, Stamp')
    BY <1>5 DEF ParserInv, IndexTypeOK
  <2>2. shown \in scans /\ wanted \subseteq UidsIn(shown) => wanted \subseteq UidsIn(shown)'
    BY <1>1, <1>10
  <2> QED BY <1>1, <1>9, <2>1, <2>2 DEF ParserInv, ReadInv, AtMost, UidsIn
<1>12. LogInv'
  BY <1>1 DEF LogInv, AtMost
<1> QED BY <1>1, <1>3, <1>6, <1>7, <1>9, <1>11, <1>12

\* An audit that is read is read as far as every finished scan.
LEMMA ReadKeeps ==
    ASSUME IndexInv, NEW f \in Audits, ReadAudit(f)
    PROVE  IndexInv'
<1> USE DEF IndexInv
<1>1. UNCHANGED <<blocks, locationCache, textCache, scans, doing, wanted, shown, summary>>
  BY DEF ReadAudit
<1>2. Stamp' = Stamp /\ Located' = Located /\ \A s : UidsIn(s)' = UidsIn(s) /\ AnswersCover(s)' = AnswersCover(s)
  BY <1>1 DEF Stamp, Located, UidsIn, AnswersCover
<1>3. seen' \in Extents /\ AtMost(seen', Stamp)
  BY DEF ReadAudit, IndexTypeOK, Extents, PastInv, AtMost, Stamp
<1>4. IndexTypeOK'
  BY <1>1, <1>3, WithinBounds DEF IndexTypeOK, ReadAudit, AtMost, Stamp, LocationEntry, TextEntry
<1>5. \A s \in Extents : ReadInv(s) /\ AtMost(s, Stamp) => ReadInv(s)'
  BY DEF ReadInv, ReadAudit, AtMost, Stamp, IndexTypeOK, Extents
<1>6. ParserInv'
  BY <1>1, <1>2, <1>5 DEF ParserInv, PastInv, IndexTypeOK, ReadAudit, AtMost
<1> QED BY <1>1, <1>2, <1>3, <1>4, <1>6 DEF PastInv, OneEntryInv, LogInv, AtMost, ReadAudit

-----------------------------------------------------------------------------
\* A call that ends leaves the caches and the audits as they are.
LEMMA LeaveKeeps ==
    ASSUME IndexInv, Leave, UNCHANGED <<locationCache, textCache, scans>>
    PROVE  IndexInv'
<1> USE DEF IndexInv
<1>1. UNCHANGED blocks BY DEF Leave
<1>2. Stamp' = Stamp /\ Located' = Located /\ \A s : AnswersCover(s)' = AnswersCover(s)
  BY <1>1 DEF Stamp, Located, AnswersCover
<1>3. Stamp \in Extents BY StampIsExtent
<1>4. IndexTypeOK'
  BY <1>1, <1>2, NoBlocksLeast DEF IndexTypeOK, Leave, AtMost, LocationEntry, TextEntry
<1>5. PastInv'
  BY <1>1, <1>2, <1>3, NoBlocksLeast DEF PastInv, Leave, AtMost
<1> QED BY <1>2, <1>4, <1>5 DEF OneEntryInv, ParserInv, LogInv, Leave

\* Reading begins with nothing read.
LEMMA StartKeeps ==
    ASSUME IndexInv, NEW phase \in {"scan", "summarise", "copy"}, StartReading(phase),
           UNCHANGED <<wanted, shown, summary>>,
           phase = "scan" \/ (Located = {} /\ doing \in {"summary", "write"}),
           phase = "copy" => doing = "write"
    PROVE  IndexInv'
<1> USE DEF IndexInv
<1>1. UNCHANGED <<blocks, locationCache, textCache, scans>> /\ doing' = phase /\ unread' = Audits /\ seen' = NoBlocks
  BY DEF StartReading
<1>2. Stamp' = Stamp /\ Located' = Located /\ \A s : UidsIn(s)' = UidsIn(s) /\ AnswersCover(s)' = AnswersCover(s)
  BY <1>1 DEF Stamp, Located, UidsIn, AnswersCover
<1>3. Stamp \in Extents BY StampIsExtent
<1>4. IndexTypeOK'
  BY <1>1, <1>2, NoBlocksLeast DEF IndexTypeOK, AtMost, LocationEntry, TextEntry
<1>5. PastInv'
  BY <1>1, <1>2, <1>3, NoBlocksLeast DEF PastInv, AtMost
<1>6. ParserInv'
  BY <1>1, <1>2 DEF ParserInv, ReadInv, AtMost
<1> QED BY <1>1, <1>2, <1>4, <1>5, <1>6 DEF OneEntryInv, LogInv

-----------------------------------------------------------------------------
\* A scan is filed: what it located is at least what earlier scans located.
LEMMA StoreLocationsKeeps ==
    ASSUME IndexInv, StoreLocations
    PROVE  IndexInv'
<1> USE DEF IndexInv
<1> DEFINE entry == [key |-> Stamp, extent |-> seen]
<1>1. /\ locationCache' = Put(locationCache, entry) /\ UNCHANGED <<blocks, textCache>>
      /\ scans' = scans \union {seen} /\ doing = "scan" /\ unread = {} /\ Leave
  BY DEF StoreLocations, Leave
<1>2. Stamp' = Stamp BY <1>1 DEF Stamp
<1>3. Stamp \in Extents BY StampIsExtent
<1>4. entry \in LocationEntry /\ AtMost(seen, Stamp) /\ seen \in Extents
  BY <1>3 DEF LocationEntry, IndexTypeOK, PastInv
<1>5. \A e \in locationCache' : e = entry \/ (e \in locationCache /\ e.key # Stamp)
  BY <1>1, PutEntries
<1>6. IndexTypeOK'
  BY <1>1, <1>2, <1>4, <1>5, NoBlocksLeast DEF IndexTypeOK, Leave, AtMost, LocationEntry, TextEntry
<1>7. AtMost(Stamp, Stamp) BY <1>3 DEF AtMost, Extents
<1>8. PastInv'
  BY <1>1, <1>2, <1>3, <1>4, <1>5, <1>7, NoBlocksLeast DEF PastInv, Leave, AtMost
<1>9. OneEntryInv'
  BY <1>1, <1>5 DEF OneEntryInv
<1>10. \A s \in scans' : AtMost(s, seen)
  BY <1>1, <1>4 DEF ParserInv, ReadInv, AtMost, Extents
<1>11. entry \in locationCache'
  BY <1>1 DEF Put
<1>12. Located' # {}
  BY <1>2, <1>11 DEF Located
<1>13. \A s \in scans' : AnswersCover(s)'
  <2> TAKE s \in scans'
  <2>1. \A e \in locationCache' : e.key = Stamp => e.extent = seen
    BY <1>5
  <2> QED BY <1>2, <1>10, <1>12, <2>1 DEF AnswersCover, AtMost
<1>14. ParserInv' /\ LogInv'
  BY <1>1 DEF ParserInv, LogInv, Leave
<1> QED BY <1>6, <1>8, <1>9, <1>13, <1>14

\* An export of transactions that a finished scan shows.
LEMMA StartExportKeeps ==
    ASSUME IndexInv, NEW s \in scans, NEW uids \in SUBSET UidsIn(s), StartExport(uids, s)
    PROVE  IndexInv'
<1> USE DEF IndexInv
<1>1. /\ UNCHANGED <<blocks, locationCache, textCache, scans, unread, seen, summary>>
      /\ wanted' = uids /\ shown' = s /\ doing' = "summary" /\ uids # {}
  BY DEF StartExport
<1>2. Stamp' = Stamp /\ Located' = Located /\ \A x : UidsIn(x)' = UidsIn(x) /\ AnswersCover(x)' = AnswersCover(x)
  BY <1>1 DEF Stamp, Located, UidsIn, AnswersCover
<1>3. uids \subseteq Uids BY DEF UidsIn
<1>4. IndexTypeOK'
  BY <1>1, <1>2, <1>3 DEF IndexTypeOK, AtMost, LocationEntry, TextEntry
<1> QED BY <1>1, <1>2, <1>4 DEF PastInv, OneEntryInv, ParserInv, LogInv, AtMost

\* The summaries are made from what the caches hold.
LEMMA SummariseKeeps ==
    ASSUME IndexInv, SummariseCached
    PROVE  IndexInv'
<1> USE DEF IndexInv
<1>1. PICK extent \in Cached : Summarised(extent)
  BY DEF SummariseCached
<1>2. /\ UNCHANGED <<blocks, locationCache, textCache, scans, unread, seen, wanted, shown>>
      /\ summary' = extent /\ doing' = "write" /\ doing = "summary"
  BY <1>1 DEF Summarised, SummariseCached
<1>3. Stamp' = Stamp /\ Located' = Located /\ \A x : UidsIn(x)' = UidsIn(x) /\ AnswersCover(x)' = AnswersCover(x)
  BY <1>2 DEF Stamp, Located, UidsIn, AnswersCover
<1>4. /\ extent \in Extents /\ AtMost(extent, Stamp)
      /\ \A s \in Extents : AnswersCover(s) => AtMost(s, extent)
  BY <1>1, CachedCovers
<1>5. AnswersCover(extent)
  BY <1>1, <1>4, CachedAgain
<1>6. AtMost(shown, extent)
  BY <1>2, <1>4 DEF ParserInv, IndexTypeOK
<1>7. IndexTypeOK'
  BY <1>2, <1>3, <1>4 DEF IndexTypeOK, AtMost, LocationEntry, TextEntry
<1>8. ParserInv'
  BY <1>2, <1>3, <1>4, <1>5, <1>6 DEF ParserInv, AtMost
<1> QED BY <1>2, <1>3, <1>7, <1>8 DEF PastInv, OneEntryInv, LogInv, AtMost

\* The summaries are made from the audits, and their texts kept.
LEMMA StoreTextsKeeps ==
    ASSUME IndexInv, StoreTexts
    PROVE  IndexInv'
<1> USE DEF IndexInv
<1> DEFINE entry == [key |-> Stamp, uids |-> wanted \intersect UidsIn(seen), extent |-> seen]
<1>1. /\ textCache' = Put(textCache, entry) /\ doing = "summarise" /\ unread = {}
      /\ UNCHANGED <<blocks, locationCache, scans, unread, seen, wanted, shown>>
      /\ summary' = seen /\ doing' = "write"
  BY DEF StoreTexts, Summarised
<1>2. Stamp' = Stamp /\ Located' = Located /\ \A x : UidsIn(x)' = UidsIn(x)
  BY <1>1 DEF Stamp, Located, UidsIn
<1>3. Stamp \in Extents BY StampIsExtent
<1>4. entry \in TextEntry /\ AtMost(seen, Stamp) /\ seen \in Extents
  BY <1>3 DEF TextEntry, IndexTypeOK, PastInv
<1>entry. entry.key = Stamp /\ entry.extent = seen
  OBVIOUS
<1> HIDE DEF entry
<1>5. \A t \in textCache' : t = entry \/ (t \in textCache /\ t.key # Stamp)
  BY <1>1, <1>entry, PutEntries
<1>6. IndexTypeOK'
  BY <1>1, <1>2, <1>4, <1>5 DEF IndexTypeOK, AtMost, LocationEntry, TextEntry
<1>7. AtMost(Stamp, Stamp) BY <1>3 DEF AtMost, Extents
<1>8. PastInv'
  BY <1>1, <1>2, <1>4, <1>5, <1>7, <1>entry DEF PastInv, AtMost
<1>9. OneEntryInv'
  BY <1>1, <1>5, <1>entry DEF OneEntryInv
<1>10. Located = {} /\ \A e \in locationCache : e.key # Stamp
  BY <1>1 DEF ParserInv, Located
<1>11. \A s \in scans \union {seen} : AtMost(s, seen)
  BY <1>1, <1>4 DEF ParserInv, ReadInv, AtMost, Extents
<1>12. \A s \in scans \union {seen} : AnswersCover(s)'
  <2> TAKE s \in scans \union {seen}
  <2>1. \A t \in textCache' : t.key = Stamp => t.extent = seen
    BY <1>5, <1>entry
  <2> QED BY <1>1, <1>2, <1>10, <1>11, <2>1 DEF AnswersCover, AtMost
<1>13. ParserInv'
  BY <1>1, <1>2, <1>4, <1>11, <1>12 DEF ParserInv, AtMost
<1> QED BY <1>1, <1>6, <1>8, <1>9, <1>12, <1>13 DEF LogInv

\* A log is written from an extent that has all that was shown and summarised.
LEMMA WriteLogKeeps ==
    ASSUME IndexInv, doing \in {"write", "copy"}, NEW extent \in Extents, WriteLog(extent),
           AtMost(extent, Stamp), AtMost(shown, extent), AtMost(summary, extent)
    PROVE  IndexInv'
<1> USE DEF IndexInv
<1>1. /\ UNCHANGED <<blocks, locationCache, textCache, scans, unread, wanted, shown, summary>>
      /\ seen' = extent /\ doing' = "written"
  BY DEF WriteLog
<1>2. Stamp' = Stamp /\ Located' = Located /\ \A x : UidsIn(x)' = UidsIn(x) /\ AnswersCover(x)' = AnswersCover(x)
  BY <1>1 DEF Stamp, Located, UidsIn, AnswersCover
<1>3. IndexTypeOK'
  BY <1>1, <1>2, WithinBounds DEF IndexTypeOK, AtMost, LocationEntry, TextEntry
<1>4. ParserInv' /\ LogInv'
  BY <1>1, <1>2 DEF ParserInv, LogInv, AtMost
<1> QED BY <1>1, <1>2, <1>3, <1>4 DEF PastInv, OneEntryInv, AtMost

\* The log is written from the caches.
LEMMA WriteCachedKeeps == ASSUME IndexInv, WriteCached PROVE IndexInv'
<1>1. PICK extent \in Cached : WriteLog(extent) BY DEF WriteCached
<1>2. /\ extent \in Extents /\ AtMost(extent, Stamp)
      /\ \A s \in Extents : AnswersCover(s) => AtMost(s, extent)
  BY <1>1, CachedCovers DEF IndexInv
<1>3. AtMost(shown, extent) /\ AtMost(summary, extent)
  BY <1>2 DEF IndexInv, ParserInv, IndexTypeOK, WriteCached
<1> QED BY <1>1, <1>2, <1>3, WriteLogKeeps DEF WriteCached

\* The log is written from the audits.
LEMMA WriteReadKeeps == ASSUME IndexInv, WriteRead PROVE IndexInv'
<1>1. seen \in Extents /\ AtMost(seen, Stamp)
  BY DEF IndexInv, IndexTypeOK, PastInv
<1>2. AtMost(shown, seen) /\ AtMost(summary, seen)
  BY DEF IndexInv, ParserInv, WriteRead, ReadInv, AtMost
<1> QED BY <1>1, <1>2, WriteLogKeeps DEF WriteRead

-----------------------------------------------------------------------------
\* An empty log with nothing read satisfies the invariant.
LEMMA InitEstablishes == ASSUME IndexInit PROVE IndexInv
<1>1. Stamp = NoBlocks BY DEF IndexInit, Stamp, NoBlocks
<1>2. IndexTypeOK BY <1>1, NoBlocksLeast DEF IndexInit, IndexTypeOK
<1> QED BY <1>1, <1>2, NoBlocksLeast
        DEF IndexInit, IndexInv, PastInv, OneEntryInv, ParserInv, LogInv

(***************************************************************************)
(* IndexInv is kept by every scan, every export and every append.          *)
(***************************************************************************)
THEOREM IndexInvIsInductive == IndexInv /\ [IndexNext]_indexVars => IndexInv'
<1> SUFFICES ASSUME IndexInv, [IndexNext]_indexVars PROVE IndexInv' OBVIOUS
<1>1. CASE UNCHANGED indexVars
  <2>1. UNCHANGED <<blocks, locationCache, textCache, scans, doing, unread, seen, wanted, shown, summary>>
    BY <1>1 DEF indexVars, parser
  <2>2. Stamp' = Stamp /\ Located' = Located /\ \A x : UidsIn(x)' = UidsIn(x) /\ AnswersCover(x)' = AnswersCover(x)
    BY <2>1 DEF Stamp, Located, UidsIn, AnswersCover
  <2>3. IndexTypeOK'
    BY <2>1, <2>2 DEF IndexInv, IndexTypeOK, LocationEntry, TextEntry, AtMost
  <2>4. ParserInv' /\ LogInv'
    BY <2>1, <2>2 DEF IndexInv, ParserInv, LogInv, ReadInv, AtMost
  <2> QED BY <2>1, <2>2, <2>3, <2>4 DEF IndexInv, PastInv, OneEntryInv, AtMost
<1>2. CASE \E f \in Audits, u \in Uids : AppendBlock(f, u)
  BY <1>2, AppendKeeps
<1>3. CASE \E f \in Audits : ReadAudit(f)
  BY <1>3, ReadKeeps
<1>4. CASE StartScan
  BY <1>4, StartKeeps DEF StartScan
<1>5. CASE StoreLocations
  BY <1>5, StoreLocationsKeeps
<1>6. CASE StopScan \/ EndExport
  BY <1>6, LeaveKeeps DEF StopScan, EndExport
<1>7. CASE \E s \in scans : \E uids \in SUBSET UidsIn(s) : StartExport(uids, s)
  BY <1>7, StartExportKeeps
<1>8. CASE SummariseCached
  BY <1>8, SummariseKeeps
<1>9. CASE StartSummary
  BY <1>9, StartKeeps, NothingLocated DEF StartSummary
<1>10. CASE StoreTexts
  BY <1>10, StoreTextsKeeps
<1>11. CASE WriteCached
  BY <1>11, WriteCachedKeeps
<1>12. CASE StartCopy
  BY <1>12, StartKeeps, NothingLocated DEF StartCopy
<1>13. CASE WriteRead
  BY <1>13, WriteReadKeeps
<1> QED BY <1>1, <1>2, <1>3, <1>4, <1>5, <1>6, <1>7, <1>8, <1>9, <1>10, <1>11, <1>12, <1>13 DEF IndexNext

(***************************************************************************)
(* In every state what the caches answer is at least what any finished     *)
(* scan showed: the invariant of the parser's caches.                      *)
(***************************************************************************)
THEOREM CachesAnswerEnough == IndexSpec => []IndexInv
BY InitEstablishes, IndexInvIsInductive, PTL DEF IndexSpec

(***************************************************************************)
(* An exported log has all the messages of its rows and its summaries.     *)
(***************************************************************************)
THEOREM ExportsAreComplete == IndexSpec => []ExportComplete
<1>1. IndexInv => ExportComplete
  <2> SUFFICES ASSUME IndexInv, doing = "written"
               PROVE  /\ wanted \subseteq UidsIn(summary)
                      /\ Covers(seen, shown, wanted)
                      /\ Covers(seen, summary, wanted)
    BY DEF ExportComplete
  <2>1. shown \in Extents /\ summary \in Extents /\ seen \in Extents
    BY DEF IndexInv, IndexTypeOK
  <2>2. AtMost(shown, summary) /\ AtMost(shown, seen) /\ AtMost(summary, seen) /\ wanted \subseteq UidsIn(shown)
    BY DEF IndexInv, ParserInv, LogInv
  <2>3. wanted \subseteq UidsIn(summary)
    BY <2>1, <2>2, UidsGrow
  <2>4. Covers(seen, shown, wanted) /\ Covers(seen, summary, wanted)
    BY <2>1, <2>2 DEF Covers, AtMost, Extents
  <2> QED BY <2>3, <2>4
<1> QED BY <1>1, CachesAnswerEnough, PTL

-----------------------------------------------------------------------------
(***************************************************************************)
(* The parallel scan.  For any files, batch size and number of workers it  *)
(* adds the blocks in the order of the files, bounds what it holds, and    *)
(* implements SequentialScan.                                              *)
(***************************************************************************)
USE PipelineAssumption

(***************************************************************************)
(* Blocks in a row, and the row that follows them, are one row.            *)
(***************************************************************************)
LEMMA BlocksJoin ==
    ASSUME NEW n \in 0..Total, NEW m \in n..Total
    PROVE  /\ Blocks(1, n) \o Blocks(n + 1, m) = Blocks(1, m)
           /\ Blocks(n + 1, m) \in Seq(1..Total)
           /\ Len(Blocks(1, m)) = m
<1>1. Blocks(1, n) \in Seq(1..Total) /\ Len(Blocks(1, n)) = n
  BY DEF Blocks
<1>2. Blocks(n + 1, m) \in Seq(1..Total) /\ Len(Blocks(n + 1, m)) = m - n
  BY DEF Blocks
<1>3. Blocks(1, m) \in Seq(1..Total) /\ Len(Blocks(1, m)) = m
  BY DEF Blocks
<1>4. LET s == Blocks(1, n) \o Blocks(n + 1, m) IN
      /\ s \in Seq(1..Total) /\ Len(s) = m
      /\ \A i \in 1..m : s[i] = i
  BY <1>1, <1>2, ConcatProperties DEF Blocks
<1>5. \A i \in 1..m : Blocks(1, m)[i] = i
  BY DEF Blocks
<1>6. Blocks(1, n) \o Blocks(n + 1, m) = Blocks(1, m)
  BY <1>3, <1>4, <1>5, SeqEqual
<1> QED
  BY <1>2, <1>3, <1>6

(***************************************************************************)
(* One batch more leaves room for one batch more.                          *)
(***************************************************************************)
LEMMA OneBatchMore ==
    ASSUME NEW k \in Nat
    PROVE  /\ (k + 1) * BatchBlocks = k * BatchBlocks + BatchBlocks
           /\ k * BatchBlocks \in Nat
  OBVIOUS

LEMMA Monotone ==
    ASSUME NEW k \in Nat, NEW m \in Nat, k <= m
    PROVE  k * BatchBlocks <= m * BatchBlocks
  OBVIOUS

(***************************************************************************)
(* Only blocks that exist are added, so no more than there are.            *)
(***************************************************************************)
LEMMA AddedBound ==
    ASSUME TypeOK, added = Blocks(1, Len(added))
    PROVE  Len(added) \in 0..Total
<1>1. Len(added) \in Nat /\ added \in Seq(1..Total)
  BY DEF TypeOK
<1>2. CASE Len(added) = 0
  BY <1>2
<1>3. CASE Len(added) > 0
  <2>1. added[Len(added)] \in 1..Total
    BY <1>1, <1>3
  <2>2. Blocks(1, Len(added))[Len(added)] = Len(added)
    BY <1>1, <1>3 DEF Blocks
  <2> QED
    BY <1>1, <2>1, <2>2
<1> QED
  BY <1>1, <1>2, <1>3

(***************************************************************************)
(* What the batches under way hold.                                        *)
(***************************************************************************)
LEMMA BatchFields ==
    TypeOK => /\ Len(pending) \in Nat /\ DOMAIN pending = 1..Len(pending)
              /\ \A i \in 1..Len(pending) : pending[i].first \in 1..Total /\ pending[i].last \in 1..Total
              /\ \A i \in 1..(Len(pending) + 1) : EndBefore(i) \in 0..Len(added) \cup 0..Total
<1> SUFFICES ASSUME TypeOK
             PROVE  /\ Len(pending) \in Nat /\ DOMAIN pending = 1..Len(pending)
                    /\ \A i \in 1..Len(pending) : pending[i].first \in 1..Total /\ pending[i].last \in 1..Total
                    /\ \A i \in 1..(Len(pending) + 1) : EndBefore(i) \in 0..Len(added) \cup 0..Total
  OBVIOUS
<1>1. Len(pending) \in Nat /\ DOMAIN pending = 1..Len(pending) /\ Len(added) \in Nat
  BY DEF TypeOK
<1>2. \A i \in 1..Len(pending) : pending[i] \in Batches
  BY <1>1 DEF TypeOK
<1>3. \A i \in 1..Len(pending) : pending[i].first \in 1..Total /\ pending[i].last \in 1..Total
  BY <1>2 DEF Batches
<1>4. ASSUME NEW i \in 1..(Len(pending) + 1)
      PROVE  EndBefore(i) \in 0..Len(added) \cup 0..Total
  <2>1. CASE i = 1
    BY <1>1, <2>1 DEF EndBefore
  <2>2. CASE i # 1
    <3>1. i - 1 \in 1..Len(pending)
      BY <1>1, <2>2
    <3> QED
      BY <1>3, <2>2, <3>1 DEF EndBefore
  <2> QED
    BY <2>1, <2>2
<1> QED
  BY <1>1, <1>3, <1>4

(***************************************************************************)
(* A batch that changes only its state disturbs neither the order of the   *)
(* batches nor their sizes.                                                *)
(***************************************************************************)
LEMMA Relabelled ==
    ASSUME TypeOK, pending' \in Seq(Batches), Len(pending') = Len(pending),
           \A i \in DOMAIN pending :
               pending'[i].first = pending[i].first /\ pending'[i].last = pending[i].last,
           UNCHANGED <<workers, read, added>>
    PROVE  (Contiguous => Contiguous') /\ (Held => Held')
<1>1. Len(pending) \in Nat /\ DOMAIN pending = 1..Len(pending) /\ DOMAIN pending' = 1..Len(pending)
  BY DEF TypeOK
<1>2. \A i \in 1..(Len(pending) + 1) : EndBefore(i)' = EndBefore(i)
  BY <1>1 DEF EndBefore
<1>3. Contiguous => Contiguous'
  BY <1>1, <1>2 DEF Contiguous
<1>4. Held => Held'
  BY <1>1, <1>2 DEF Held
<1> QED
  BY <1>3, <1>4

(***************************************************************************)
(* Batches that are no more than two for each worker hold no more blocks   *)
(* than that many full batches.                                            *)
(***************************************************************************)
LEMMA HeldIsBounded == TypeOK /\ Held => BoundedUse
<1> SUFFICES ASSUME TypeOK, Held PROVE BoundedUse
  OBVIOUS
<1>1. Len(pending) \in Nat /\ workers \in Nat /\ read \in Nat /\ Len(added) \in Nat
  BY DEF TypeOK
<1>2. read - Len(added) <= Len(pending) * BatchBlocks
  <2>1. read - EndBefore(1) <= (Len(pending) + 1 - 1) * BatchBlocks
    BY <1>1 DEF Held
  <2> QED
    BY <1>1, <2>1 DEF EndBefore
<1>3. Len(pending) * BatchBlocks <= (2 * workers) * BatchBlocks
  <2>1. 2 * workers \in Nat /\ Len(pending) <= 2 * workers
    BY <1>1 DEF Held
  <2> QED
    BY <1>1, <2>1, Monotone
<1>4. Len(pending) * BatchBlocks \in Int /\ (2 * workers) * BatchBlocks \in Int /\ read - Len(added) \in Int
  BY <1>1
<1> QED
  BY <1>2, <1>3, <1>4 DEF BoundedUse

-----------------------------------------------------------------------------
(* The invariant *)

LEMMA InitInv == Init => PipelineInv
<1> SUFFICES ASSUME Init PROVE PipelineInv
  OBVIOUS
<1>1. TypeOK
  BY DEF Init, TypeOK, NotPublished
<1>2. Contiguous /\ Held
  BY <1>1 DEF Init, TypeOK, Contiguous, Held, EndBefore
<1>3. added = Blocks(1, Len(added))
  BY DEF Init, Blocks
<1>4. BoundedUse
  BY <1>1, <1>2, HeldIsBounded
<1>5. workers > 1 => Len(pending) < 2 * workers
  BY <1>1 DEF Init, TypeOK
<1> QED
  BY <1>1, <1>2, <1>3, <1>4, <1>5 DEF PipelineInv, Init, NotPublished

(***************************************************************************)
(* A batch submitted follows on the last one and fills the room there is.  *)
(***************************************************************************)
LEMMA SubmitInv == PipelineInv /\ Submit => PipelineInv'
<1> SUFFICES ASSUME PipelineInv, Submit PROVE PipelineInv'
  OBVIOUS
<1> PICK last \in BatchEnds :
      /\ pending' = Append(pending, [first |-> read + 1, last |-> last, state |-> "queued"])
      /\ read' = last
  BY DEF Submit
<1>1. /\ workers \in Nat /\ read \in 0..Total /\ pending \in Seq(Batches) /\ Len(pending) \in Nat
      /\ last \in Nat /\ read < last /\ last <= Total /\ last - read <= BatchBlocks
      /\ DOMAIN pending = 1..Len(pending)
  BY DEF PipelineInv, TypeOK, BatchEnds
<1>2. UNCHANGED <<workers, added, published>> /\ pc = "reading" /\ workers > 1
  BY DEF Submit
<1>3. Contiguous /\ Held /\ Len(pending) < 2 * workers
  BY <1>2 DEF PipelineInv
<1>4. [first |-> read + 1, last |-> last, state |-> "queued"] \in Batches
  BY <1>1 DEF Batches
<1>5. /\ pending' \in Seq(Batches) /\ Len(pending') = Len(pending) + 1
      /\ \A i \in 1..Len(pending) : pending'[i] = pending[i]
      /\ pending'[Len(pending) + 1] = [first |-> read + 1, last |-> last, state |-> "queued"]
      /\ DOMAIN pending' = 1..(Len(pending) + 1)
  BY <1>1, <1>4
<1>6. TypeOK'
  BY <1>1, <1>2, <1>5 DEF PipelineInv, TypeOK, NotPublished, Submit
<1>7. \A i \in 1..(Len(pending) + 2) :
         EndBefore(i)' = IF i = Len(pending) + 2 THEN last ELSE EndBefore(i)
  <2> SUFFICES ASSUME NEW i \in 1..(Len(pending) + 2)
               PROVE  EndBefore(i)' = IF i = Len(pending) + 2 THEN last ELSE EndBefore(i)
    OBVIOUS
  <2>1. CASE i = 1
    BY <2>1, <1>1, <1>2 DEF EndBefore
  <2>2. CASE i = Len(pending) + 2
    BY <2>2, <1>1, <1>5 DEF EndBefore
  <2>3. CASE i # 1 /\ i # Len(pending) + 2
    <3>1. i - 1 \in 1..Len(pending) /\ pending'[i - 1] = pending[i - 1]
      BY <2>3, <1>1, <1>5
    <3> QED
      BY <2>3, <3>1 DEF EndBefore
  <2> QED
    BY <2>1, <2>2, <2>3
<1>8. Contiguous'
  <2>1. ASSUME NEW i \in 1..(Len(pending) + 2)
        PROVE  IF i > Len(pending) + 1
               THEN EndBefore(i)' = last
               ELSE pending'[i].first = EndBefore(i)' + 1 /\ EndBefore(i)' < pending'[i].last
    <3>1. CASE i = Len(pending) + 1
      <4>1. EndBefore(i)' = read
        BY <1>1, <1>3, <1>7, <3>1 DEF Contiguous
      <4>2. pending'[i].first = read + 1 /\ pending'[i].last = last
        BY <1>5, <3>1
      <4> QED
        BY <1>1, <3>1, <4>1, <4>2
    <3>2. CASE i = Len(pending) + 2
      BY <1>1, <1>7, <3>2
    <3>3. CASE i \in 1..Len(pending)
      <4>1. pending[i].first = EndBefore(i) + 1 /\ EndBefore(i) < pending[i].last
        BY <1>1, <1>3, <3>3 DEF Contiguous
      <4>2. EndBefore(i)' = EndBefore(i) /\ pending'[i] = pending[i]
        BY <1>1, <1>5, <1>7, <3>3
      <4> QED
        BY <1>1, <3>3, <4>1, <4>2
    <3> QED
      BY <1>1, <3>1, <3>2, <3>3
  <2> QED
    BY <1>1, <1>5, <2>1 DEF Contiguous
<1>9. Held'
  <2>1. \A i \in 1..(Len(pending) + 1) : EndBefore(i) \in Int
    BY BatchFields DEF PipelineInv
  <2>2. ASSUME NEW i \in 1..(Len(pending) + 2)
        PROVE  read' - EndBefore(i)' <= (Len(pending') + 1 - i) * BatchBlocks
    <3>1. CASE i = Len(pending) + 2
      BY <1>1, <1>5, <1>7, <3>1
    <3>2. CASE i # Len(pending) + 2
      <4>1. i \in 1..(Len(pending) + 1) /\ EndBefore(i)' = EndBefore(i)
        BY <1>1, <1>7, <3>2
      <4>5. read' = last
        OBVIOUS
      <4>2. read - EndBefore(i) <= (Len(pending) + 1 - i) * BatchBlocks
        BY <1>3, <4>1 DEF Held
      <4> DEFINE k == Len(pending) + 1 - i
      <4>3. k \in Nat /\ Len(pending') + 1 - i = k + 1
        BY <1>1, <1>5, <4>1
      <4>4. (k + 1) * BatchBlocks = k * BatchBlocks + BatchBlocks /\ k * BatchBlocks \in Nat
        BY <4>3, OneBatchMore
      <4> QED
        <5> HIDE DEF k
        <5> QED
          BY <1>1, <2>1, <4>1, <4>2, <4>3, <4>4, <4>5 DEF k
    <3> QED
      BY <3>1, <3>2
  <2>3. Len(pending') <= 2 * workers'
    BY <1>1, <1>2, <1>3, <1>5
  <2>4. Len(pending') + 1 = Len(pending) + 2
    BY <1>1, <1>5
  <2> QED
    BY <2>2, <2>3, <2>4 DEF Held
<1>10. BoundedUse'
  BY <1>6, <1>9, HeldIsBounded, PTL
<1>11. pc' \in {"reading", "waiting"} /\ (pc' = "reading" => Len(pending') < 2 * workers')
  BY <1>1, <1>2, <1>5 DEF Submit, PoolFull
<1>12. (added = Blocks(1, Len(added)))'
  BY <1>2 DEF PipelineInv, Blocks
<1>13. published' = NotPublished'
  BY <1>2 DEF PipelineInv, NotPublished
<1> QED
  BY <1>2, <1>6, <1>8, <1>9, <1>10, <1>11, <1>12, <1>13 DEF PipelineInv

(***************************************************************************)
(* The oldest batch holds the blocks that follow those added.              *)
(***************************************************************************)
LEMMA HeadFollows ==
    ASSUME PipelineInv, pc \in {"waiting", "draining"}, pending # <<>>
    PROVE  /\ Head(pending) = pending[1] /\ Len(pending) > 0
           /\ pending[1].first = Len(added) + 1
           /\ pending[1].last \in (Len(added) + 1)..Total
<1>1. pending \in Seq(Batches) /\ Len(pending) \in Nat /\ Len(pending) > 0 /\ Head(pending) = pending[1]
  BY EmptySeq DEF PipelineInv, TypeOK
<1>2. Contiguous /\ 1 \in 1..(Len(pending) + 1)
  BY <1>1 DEF PipelineInv
<1>3. pending[1].first = EndBefore(1) + 1 /\ EndBefore(1) < pending[1].last
  BY <1>1, <1>2 DEF Contiguous
<1>4. EndBefore(1) = Len(added) /\ Len(added) \in Nat
  BY DEF EndBefore, PipelineInv, TypeOK
<1>5. pending[1].last \in 1..Total
  BY <1>1, BatchFields DEF PipelineInv
<1> QED
  BY <1>1, <1>3, <1>4, <1>5

(***************************************************************************)
(* Taking the oldest result adds the blocks that come next.                *)
(***************************************************************************)
LEMMA TakeResultInv == PipelineInv /\ TakeResult => PipelineInv'
<1> SUFFICES ASSUME PipelineInv, TakeResult PROVE PipelineInv'
  OBVIOUS
<1> DEFINE last == pending[1].last
<1>1. /\ pc \in {"waiting", "draining"} /\ pending # <<>>
      /\ pc' \in {"reading", "draining"} /\ (pc' = "draining" => pc = "draining")
      /\ UNCHANGED <<workers, read, published>>
      /\ pending' = Tail(pending)
      /\ added' = added \o Blocks(Head(pending).first, Head(pending).last)
  BY DEF TakeResult
<1>2. /\ Head(pending) = pending[1] /\ Len(pending) > 0
      /\ pending[1].first = Len(added) + 1
      /\ last \in (Len(added) + 1)..Total
  BY <1>1, HeadFollows
<1>3. /\ pending \in Seq(Batches) /\ Len(pending) \in Nat /\ Len(added) \in 0..Total
      /\ workers \in Nat /\ read \in 0..Total /\ added \in Seq(1..Total)
  BY AddedBound DEF PipelineInv, TypeOK
<1>4. Contiguous /\ Held
  BY <1>1 DEF PipelineInv
<1>5. /\ added' = Blocks(1, last) /\ Len(added') = last
      /\ added' \in Seq(1..Total)
  <2>1. added = Blocks(1, Len(added)) /\ added' = added \o Blocks(Len(added) + 1, last)
    BY <1>1, <1>2 DEF PipelineInv
  <2>2. /\ Blocks(1, Len(added)) \o Blocks(Len(added) + 1, last) = Blocks(1, last)
        /\ Blocks(Len(added) + 1, last) \in Seq(1..Total)
        /\ Len(Blocks(1, last)) = last
    <3> HIDE DEF last
    <3>1. last \in Len(added)..Total
      BY <1>2, <1>3
    <3> QED
      BY <1>3, <3>1, BlocksJoin
  <2> QED
    <3> HIDE DEF last
    <3> QED
      BY <1>3, <2>1, <2>2, ConcatProperties
<1>6. /\ pending' \in Seq(Batches) /\ Len(pending') = Len(pending) - 1
      /\ \A i \in 1..(Len(pending) - 1) : pending'[i] = pending[i + 1]
      /\ DOMAIN pending' = 1..(Len(pending) - 1)
  BY <1>1, <1>3, HeadTailProperties
<1>7. TypeOK'
  BY <1>1, <1>5, <1>6 DEF PipelineInv, TypeOK, NotPublished
<1>8. \A i \in 1..Len(pending) : EndBefore(i)' = EndBefore(i + 1)
  <2>1. \A i \in 1..Len(pending) : EndBefore(i)' = IF i = 1 THEN Len(added') ELSE pending'[i - 1].last
    BY DEF EndBefore
  <2>2. \A i \in 1..Len(pending) : EndBefore(i + 1) = pending[i].last
    BY <1>3 DEF EndBefore
  <2>3. \A i \in 1..Len(pending) : i # 1 => pending'[i - 1] = pending[i]
    BY <1>3, <1>6
  <2> QED
    BY <1>5, <2>1, <2>2, <2>3
<1>9. Contiguous'
  <2>1. ASSUME NEW i \in 1..Len(pending)
        PROVE  IF i > Len(pending) - 1
               THEN EndBefore(i)' = read
               ELSE pending'[i].first = EndBefore(i)' + 1 /\ EndBefore(i)' < pending'[i].last
    <3>1. i + 1 \in 1..(Len(pending) + 1) /\ EndBefore(i)' = EndBefore(i + 1)
      BY <1>3, <1>8
    <3>2. IF i + 1 > Len(pending)
          THEN EndBefore(i + 1) = read
          ELSE pending[i + 1].first = EndBefore(i + 1) + 1 /\ EndBefore(i + 1) < pending[i + 1].last
      BY <1>4, <3>1 DEF Contiguous
    <3> QED
      BY <1>3, <1>6, <3>1, <3>2
  <2> QED
    BY <1>1, <1>3, <1>6, <2>1 DEF Contiguous
<1>10. Held'
  <2>1. ASSUME NEW i \in 1..Len(pending)
        PROVE  read - EndBefore(i)' <= (Len(pending) - i) * BatchBlocks
    <3>1. i + 1 \in 1..(Len(pending) + 1) /\ EndBefore(i)' = EndBefore(i + 1)
      BY <1>3, <1>8
    <3>2. read - EndBefore(i + 1) <= (Len(pending) + 1 - (i + 1)) * BatchBlocks
      BY <1>4, <3>1 DEF Held
    <3>3. Len(pending) + 1 - (i + 1) = Len(pending) - i
      BY <1>3
    <3> QED
      BY <3>1, <3>2, <3>3
  <2>2. Len(pending') <= 2 * workers' /\ Len(pending') + 1 = Len(pending)
    BY <1>1, <1>3, <1>4, <1>6 DEF Held
  <2> QED
    BY <1>1, <2>1, <2>2 DEF Held
<1>11. BoundedUse'
  BY <1>7, <1>10, HeldIsBounded, PTL
<1>12. (added = Blocks(1, Len(added)))'
  <2>1. Blocks(1, last) = Blocks(1, Len(added'))
    BY <1>5
  <2> QED
    BY <1>5, <2>1 DEF Blocks
<1>13. published' = NotPublished'
  BY <1>1 DEF PipelineInv, NotPublished
<1>14. workers # 1 /\ Len(pending') < 2 * workers'
  BY <1>1, <1>3, <1>4, <1>6 DEF PipelineInv, Held
<1>15. pc' = "draining" => read' = Total
  BY <1>1 DEF PipelineInv
<1> QED
  BY <1>1, <1>7, <1>9, <1>10, <1>11, <1>12, <1>13, <1>14, <1>15 DEF PipelineInv

(***************************************************************************)
(* Without a pool nothing is under way: what was read was added.           *)
(***************************************************************************)
LEMMA NothingUnderWay ==
    ASSUME PipelineInv, pc \in {"reading", "waiting", "draining"}, pending = <<>>
    PROVE  read = Len(added)
<1>1. Contiguous /\ Len(pending) = 0 /\ 1 \in 1..(Len(pending) + 1)
  BY DEF PipelineInv
<1>2. EndBefore(1) = read
  BY <1>1 DEF Contiguous
<1> QED
  BY <1>2 DEF EndBefore

(***************************************************************************)
(* A batch parsed by the caller is added at once.                          *)
(***************************************************************************)
LEMMA ParseHereInv == PipelineInv /\ ParseHere => PipelineInv'
<1> SUFFICES ASSUME PipelineInv, ParseHere PROVE PipelineInv'
  OBVIOUS
<1> PICK last \in BatchEnds : added' = added \o Blocks(read + 1, last) /\ read' = last
  BY DEF ParseHere
<1>1. pc = "reading" /\ workers = 1 /\ UNCHANGED <<workers, pending, pc, published>>
  BY DEF ParseHere
<1>2. pending = <<>> /\ Len(pending) = 0
  BY <1>1 DEF PipelineInv
<1>3. read = Len(added) /\ read \in 0..Total /\ last \in (read + 1)..Total
  BY <1>1, <1>2, NothingUnderWay DEF PipelineInv, TypeOK, BatchEnds
<1>4. /\ Blocks(1, read) \o Blocks(read + 1, last) = Blocks(1, last)
      /\ Blocks(read + 1, last) \in Seq(1..Total)
      /\ Len(Blocks(1, last)) = last
  <2>1. last \in read..Total
    BY <1>3
  <2> QED
    BY <1>3, <2>1, BlocksJoin
<1>5. added' = Blocks(1, last) /\ Len(added') = last /\ added' \in Seq(1..Total)
  BY <1>3, <1>4, ConcatProperties DEF PipelineInv, TypeOK
<1>6. TypeOK'
  BY <1>1, <1>3, <1>5 DEF PipelineInv, TypeOK, NotPublished
<1>7. \A i \in 1..1 : EndBefore(i)' = last
  BY <1>5 DEF EndBefore
<1>8. Contiguous' /\ Held'
  <2>1. Contiguous'
    BY <1>1, <1>2, <1>7 DEF Contiguous
  <2>2. Held'
    <3>1. Len(pending') = 0 /\ read' = last /\ last \in Nat /\ workers' = 1
      BY <1>1, <1>2, <1>3
    <3> QED
      BY <1>7, <3>1 DEF Held
  <2> QED
    BY <2>1, <2>2
<1>9. BoundedUse'
  BY <1>6, <1>8, HeldIsBounded, PTL
<1>10. (added = Blocks(1, Len(added)))'
  BY <1>5 DEF Blocks
<1>11. published' = NotPublished'
  BY <1>1 DEF PipelineInv, NotPublished
<1> QED
  BY <1>1, <1>2, <1>6, <1>8, <1>9, <1>10, <1>11 DEF PipelineInv

(***************************************************************************)
(* The end of the files changes nothing but what the caller does next.     *)
(***************************************************************************)
LEMMA ReadAllInv == PipelineInv /\ ReadAll => PipelineInv'
<1> SUFFICES ASSUME PipelineInv, ReadAll PROVE PipelineInv'
  OBVIOUS
<1>1. pc = "reading" /\ pc' = "draining" /\ read = Total /\ UNCHANGED <<workers, read, pending, added, published>>
  BY DEF ReadAll
<1>2. TypeOK'
  BY <1>1 DEF PipelineInv, TypeOK, NotPublished
<1>3. Contiguous' /\ Held'
  BY <1>1 DEF PipelineInv, Contiguous, Held, EndBefore
<1>4. (added = Blocks(1, Len(added)))' /\ BoundedUse'
  BY <1>1 DEF PipelineInv, Blocks, BoundedUse
<1>5. published' = NotPublished'
  BY <1>1 DEF PipelineInv, NotPublished
<1> QED
  BY <1>1, <1>2, <1>3, <1>4, <1>5 DEF PipelineInv

(***************************************************************************)
(* The locations are kept when every block was added.                      *)
(***************************************************************************)
LEMMA PublishInv == PipelineInv /\ Publish => PipelineInv'
<1> SUFFICES ASSUME PipelineInv, Publish PROVE PipelineInv'
  OBVIOUS
<1>1. /\ pc = "draining" /\ pc' = "done" /\ pending = <<>>
      /\ published' = Len(added) /\ UNCHANGED <<workers, read, pending, added>>
  BY DEF Publish
<1>2. Len(added) = Total
  BY <1>1, NothingUnderWay DEF PipelineInv
<1>3. TypeOK'
  BY <1>1, <1>2 DEF PipelineInv, TypeOK, NotPublished
<1>4. (added = Blocks(1, Len(added)))' /\ BoundedUse'
  BY <1>1 DEF PipelineInv, Blocks, BoundedUse
<1> QED
  BY <1>1, <1>2, <1>3, <1>4 DEF PipelineInv

(***************************************************************************)
(* A step of the pool, or the cancelling of the futures, changes only the  *)
(* states of the batches.                                                  *)
(***************************************************************************)
StatesOnly ==
    /\ pending' \in Seq(Batches) /\ Len(pending') = Len(pending)
    /\ \A i \in DOMAIN pending :
           pending'[i].first = pending[i].first /\ pending'[i].last = pending[i].last
    /\ UNCHANGED <<workers, read, added, published>>

LEMMA StatesOnlyInv ==
    ASSUME PipelineInv, StatesOnly, pc' = pc \/ (pc' = "closing" /\ published = NotPublished),
           pc \notin {"done", "failed"}
    PROVE  PipelineInv'
<1>1. TypeOK'
  BY DEF PipelineInv, TypeOK, StatesOnly, NotPublished
<1>2. pc' \in {"reading", "waiting", "draining"} => Contiguous' /\ Held'
  BY Relabelled DEF PipelineInv, StatesOnly
<1>3. (added = Blocks(1, Len(added)))' /\ BoundedUse'
  BY DEF PipelineInv, StatesOnly, Blocks, BoundedUse
<1>4. workers' = 1 => pending' = <<>>
  BY EmptySeq DEF PipelineInv, StatesOnly
<1>5. published' = NotPublished'
  BY DEF PipelineInv, StatesOnly, NotPublished
<1>6. pc' = "reading" /\ workers' > 1 => Len(pending') < 2 * workers'
  BY DEF PipelineInv, StatesOnly
<1>7. pc' = "draining" => read' = Total
  BY DEF PipelineInv, StatesOnly
<1> QED
  BY <1>1, <1>2, <1>3, <1>4, <1>5, <1>6, <1>7 DEF PipelineInv

(***************************************************************************)
(* A batch with another state is a batch of the same blocks.               *)
(***************************************************************************)
LEMMA SameBlocks ==
    ASSUME NEW b \in Batches,
           NEW state \in {"queued", "running", "parsed", "raised", "lost", "cancelled"}
    PROVE  LET c == [b EXCEPT !.state = state] IN
           c \in Batches /\ c.first = b.first /\ c.last = b.last
  BY DEF Batches

LEMMA CancelStates ==
    ASSUME PipelineInv, CancelFutures, UNCHANGED <<workers, read, added, published>>
    PROVE  StatesOnly
<1>1. pending \in Seq(Batches) /\ Len(pending) \in Nat /\ DOMAIN pending = 1..Len(pending)
  BY DEF PipelineInv, TypeOK
<1>2. ASSUME NEW i \in 1..Len(pending)
      PROVE  pending'[i] \in Batches /\ pending'[i].first = pending[i].first /\ pending'[i].last = pending[i].last
  <2>1. pending[i] \in Batches
    BY <1>1
  <2>2. pending'[i] = IF pending[i].state = "queued" THEN [pending[i] EXCEPT !.state = "cancelled"] ELSE pending[i]
    BY <1>1 DEF CancelFutures
  <2> QED
    BY <2>1, <2>2, SameBlocks
<1>3. pending' = [i \in 1..Len(pending) |-> pending'[i]] /\ DOMAIN pending' = 1..Len(pending)
  BY <1>1 DEF CancelFutures
<1>4. pending' \in Seq(Batches) /\ Len(pending') = Len(pending)
  BY <1>1, <1>2, <1>3
<1> QED
  BY <1>1, <1>2, <1>4 DEF StatesOnly

LEMMA BreakStates ==
    ASSUME PipelineInv, Break
    PROVE  StatesOnly
<1>1. pending \in Seq(Batches) /\ Len(pending) \in Nat /\ DOMAIN pending = 1..Len(pending)
  BY DEF PipelineInv, TypeOK
<1>2. ASSUME NEW i \in 1..Len(pending)
      PROVE  pending'[i] \in Batches /\ pending'[i].first = pending[i].first /\ pending'[i].last = pending[i].last
  <2>1. pending[i] \in Batches
    BY <1>1
  <2>2. pending'[i] = IF i \in Busy THEN [pending[i] EXCEPT !.state = "lost"] ELSE pending[i]
    BY <1>1 DEF Break
  <2> QED
    BY <2>1, <2>2, SameBlocks
<1>3. pending' = [i \in 1..Len(pending) |-> pending'[i]] /\ DOMAIN pending' = 1..Len(pending)
  BY <1>1 DEF Break
<1>4. pending' \in Seq(Batches) /\ Len(pending') = Len(pending)
  BY <1>1, <1>2, <1>3
<1>5. UNCHANGED <<workers, read, added, published>>
  BY DEF Break
<1> QED
  BY <1>1, <1>2, <1>4, <1>5 DEF StatesOnly

LEMMA OneState ==
    ASSUME PipelineInv, NEW k \in DOMAIN pending,
           NEW state \in {"running", "parsed", "raised"},
           pending' = [pending EXCEPT ![k].state = state],
           UNCHANGED <<workers, read, added, published>>
    PROVE  StatesOnly
<1>1. pending \in Seq(Batches) /\ Len(pending) \in Nat /\ DOMAIN pending = 1..Len(pending)
  BY DEF PipelineInv, TypeOK
<1>2. ASSUME NEW i \in 1..Len(pending)
      PROVE  pending'[i] \in Batches /\ pending'[i].first = pending[i].first /\ pending'[i].last = pending[i].last
  <2>1. pending[i] \in Batches
    BY <1>1
  <2>2. pending'[i] = IF i = k THEN [pending[i] EXCEPT !.state = state] ELSE pending[i]
    BY <1>1
  <2> QED
    BY <2>1, <2>2, SameBlocks
<1>3. [pending[k] EXCEPT !.state = state] \in Batches
  <2>1. pending[k] \in Batches
    BY <1>1
  <2> QED
    BY <2>1 DEF Batches
<1>4. pending' \in Seq(Batches) /\ Len(pending') = Len(pending)
  <2> DEFINE e == [pending[k] EXCEPT !.state = state]
  <2>1. pending' = [pending EXCEPT ![k] = e]
    OBVIOUS
  <2>2. e \in Batches /\ k \in 1..Len(pending)
    BY <1>1, <1>3
  <2> HIDE DEF e
  <2> QED
    BY <1>1, <2>1, <2>2, ExceptSeq
<1> QED
  BY <1>1, <1>2, <1>4 DEF StatesOnly

(***************************************************************************)
(* Nobody works for a scan that has ended.                                 *)
(***************************************************************************)
LEMMA BusyIsOpen ==
    ASSUME PipelineInv, NEW i \in DOMAIN pending, pending[i].state \in {"queued", "running"}
    PROVE  pc \notin {"done", "failed"}
<1>1. i \in Busy /\ pending # <<>>
  BY EmptySeq DEF Busy, PipelineInv, TypeOK
<1> QED
  BY <1>1 DEF PipelineInv

-----------------------------------------------------------------------------

(***************************************************************************)
(* Every step of the scan and of the pool keeps the invariant.             *)
(***************************************************************************)
THEOREM InvIsInductive == PipelineInv /\ [Next]_vars => PipelineInv'
<1> SUFFICES ASSUME PipelineInv, [Next]_vars PROVE PipelineInv'
  OBVIOUS
<1>1. CASE Submit
  BY <1>1, SubmitInv
<1>2. CASE ParseHere
  BY <1>2, ParseHereInv
<1>3. CASE ReadAll
  BY <1>3, ReadAllInv
<1>4. CASE TakeResult
  BY <1>4, TakeResultInv
<1>5. CASE Publish
  BY <1>5, PublishInv
<1>6. CASE TakeError \/ SubmitRaises \/ Interrupt
  <2>1. CancelFutures /\ UNCHANGED <<workers, read, added, published>>
    BY <1>6 DEF TakeError, SubmitRaises, Interrupt
  <2>2. pc' = "closing" /\ pc \in {"reading", "waiting", "draining"}
    BY <1>6 DEF TakeError, SubmitRaises, Interrupt
  <2>3. published = NotPublished
    BY <2>2 DEF PipelineInv
  <2> QED
    BY <2>1, <2>2, <2>3, CancelStates, StatesOnlyInv
<1>7. CASE Shutdown
  <2>1. pc = "closing" /\ pc' = "failed" /\ Busy = {} /\ UNCHANGED <<workers, read, pending, added, published>>
    BY <1>7 DEF Shutdown
  <2>2. TypeOK' /\ BoundedUse' /\ (added = Blocks(1, Len(added)))' /\ Busy' = {}
    BY <2>1 DEF PipelineInv, TypeOK, NotPublished, BoundedUse, Blocks, Busy
  <2>3. published' = NotPublished'
    BY <2>1 DEF PipelineInv, NotPublished
  <2> QED
    BY <2>1, <2>2, <2>3 DEF PipelineInv
<1>8. CASE Start
  <2> PICK i \in DOMAIN pending : pending[i].state = "queued" /\ pending' = [pending EXCEPT ![i].state = "running"]
    BY <1>8 DEF Start
  <2>1. UNCHANGED <<workers, read, added, pc, published>>
    BY <1>8 DEF Start
  <2>2. StatesOnly
    BY <2>1, OneState
  <2> QED
    BY <2>1, <2>2, BusyIsOpen, StatesOnlyInv
<1>9. CASE Parsed
  <2> PICK i \in DOMAIN pending : Finish(i, "parsed") \/ Finish(i, "raised")
    BY <1>9 DEF Parsed
  <2>1. pending[i].state = "running" /\ UNCHANGED <<workers, read, added, pc, published>>
    BY DEF Finish
  <2>2. StatesOnly
    BY <2>1, OneState DEF Finish
  <2> QED
    BY <2>1, <2>2, BusyIsOpen, StatesOnlyInv
<1>10. CASE Break
  <2>1. UNCHANGED <<workers, read, added, pc, published>> /\ Busy # {}
    BY <1>10 DEF Break
  <2>2. pc \notin {"done", "failed"}
    BY <2>1, BusyIsOpen DEF Busy
  <2> QED
    BY <1>10, <2>1, <2>2, BreakStates, StatesOnlyInv
<1>11. CASE UNCHANGED vars
  <2>1. UNCHANGED <<workers, read, pending, added, pc, published>>
    BY <1>11 DEF vars
  <2>2. TypeOK' /\ (added = Blocks(1, Len(added)))' /\ BoundedUse' /\ Busy' = Busy
    BY <2>1 DEF PipelineInv, TypeOK, Blocks, Busy, BoundedUse, NotPublished
  <2>3. (Contiguous => Contiguous') /\ (Held => Held')
    BY <2>1, Relabelled DEF PipelineInv, TypeOK
  <2>4. published' = published /\ NotPublished' = NotPublished
    BY <2>1 DEF NotPublished
  <2> QED
    BY <2>1, <2>2, <2>3, <2>4 DEF PipelineInv
<1> QED
  BY <1>1, <1>2, <1>3, <1>4, <1>5, <1>6, <1>7, <1>8, <1>9, <1>10, <1>11 DEF Next, Caller

THEOREM Invariance == Spec => []PipelineInv
  BY InitInv, InvIsInductive, PTL DEF Spec

(***************************************************************************)
(* Whatever the workers do, only a complete scan is kept (log_core.py:     *)
(* 1480-1485).                                                             *)
(***************************************************************************)
THEOREM OnlyCompleteIsPublished == Spec => []PublishedComplete
<1>1. PipelineInv => PublishedComplete
  BY DEF PipelineInv, PublishedComplete
<1> QED
  BY <1>1, Invariance, PTL

(***************************************************************************)
(* At most two batches for each worker are in memory (1448-1450).          *)
(***************************************************************************)
THEOREM MemoryIsBounded == Spec => []BoundedUse
<1>1. PipelineInv => BoundedUse
  BY DEF PipelineInv
<1> QED
  BY <1>1, Invariance, PTL

(***************************************************************************)
(* When a scan has ended no worker is busy with it (1453-1456).            *)
(***************************************************************************)
THEOREM NoWorkerIsLeft == Spec => []NobodyLeft
<1>1. PipelineInv => NobodyLeft
  <2>1. PipelineInv /\ pending = <<>> => Busy = {}
    BY DEF Busy, PipelineInv, TypeOK
  <2> QED
    BY <2>1 DEF PipelineInv, NobodyLeft
<1> QED
  BY <1>1, Invariance, PTL

-----------------------------------------------------------------------------
(***************************************************************************)
(* The parallel scan implements the sequential one: every step of the pool *)
(* is hidden, every result taken adds the blocks that come next.           *)
(***************************************************************************)
LEMMA StepScans == PipelineInv /\ PipelineInv' /\ [Next]_vars => [Scan!Next]_(Scan!vars)
<1> SUFFICES ASSUME PipelineInv, PipelineInv', [Next]_vars
             PROVE  [Scan!Next]_(Scan!vars)
  OBVIOUS
<1> USE DEF Scan!vars, Result
<1>1. CASE Submit
  BY <1>1 DEF Submit
<1>2. CASE ParseHere
  <2> PICK last \in BatchEnds : added' = added \o Blocks(read + 1, last)
    BY <1>2 DEF ParseHere
  <2>1. pc = "reading" /\ workers = 1 /\ pc' = pc
    BY <1>2 DEF ParseHere
  <2>2. read = Len(added)
    BY <2>1, NothingUnderWay DEF PipelineInv
  <2>3. last \in (Len(added) + 1)..Total
    BY <2>2 DEF BatchEnds
  <2>4. Scan!Add
    BY <2>1, <2>2, <2>3 DEF Scan!Add, Scan!Blocks, Blocks
  <2> QED
    BY <2>4 DEF Scan!Next
<1>3. CASE ReadAll
  BY <1>3 DEF ReadAll
<1>4. CASE TakeResult
  <2>1. /\ pc \in {"waiting", "draining"} /\ pc' \in {"reading", "draining"} /\ pending # <<>>
        /\ added' = added \o Blocks(Head(pending).first, Head(pending).last)
    BY <1>4 DEF TakeResult
  <2>2. Head(pending).first = Len(added) + 1 /\ Head(pending).last \in (Len(added) + 1)..Total
    BY <2>1, HeadFollows
  <2>3. Scan!Add
    BY <2>1, <2>2 DEF Scan!Add, Scan!Blocks, Blocks
  <2> QED
    BY <2>3 DEF Scan!Next
<1>5. CASE Publish
  <2>1. pc = "draining" /\ pc' = "done" /\ added' = added
    BY <1>5 DEF Publish
  <2>2. Len(added') = Total
    BY <2>1 DEF PipelineInv
  <2>3. Scan!Complete
    BY <2>1, <2>2 DEF Scan!Complete
  <2> QED
    BY <2>3 DEF Scan!Next
<1>6. CASE TakeError \/ SubmitRaises \/ Interrupt
  <2>1. pc \in {"reading", "waiting", "draining"} /\ pc' = "closing" /\ added' = added
    BY <1>6 DEF TakeError, SubmitRaises, Interrupt
  <2>2. Scan!Fail
    BY <2>1 DEF Scan!Fail
  <2> QED
    BY <2>2 DEF Scan!Next
<1>7. CASE Shutdown
  BY <1>7 DEF Shutdown
<1>8. CASE Start \/ Break
  BY <1>8 DEF Start, Break
<1>9. CASE Parsed
  BY <1>9 DEF Parsed, Finish
<1>10. CASE UNCHANGED vars
  BY <1>10 DEF vars
<1> QED
  BY <1>1, <1>2, <1>3, <1>4, <1>5, <1>6, <1>7, <1>8, <1>9, <1>10 DEF Next, Caller

THEOREM ImplementsSequentialScan == Spec => ScansInOrder
<1>1. Init => Scan!Init
  BY DEF Init, Scan!Init, Result
<1> QED
  BY <1>1, StepScans, Invariance, PTL DEF Spec, ScansInOrder, Scan!Spec

=============================================================================
