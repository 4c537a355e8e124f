------------------------- MODULE RemoteMirrors_proofs -------------------------
(***************************************************************************)
(* Proofs about the two mirrors of remote sources: the local copy of a     *)
(* file (FileMirror) and the snapshot of an archive (ArchiveMirror).        *)
(*                                                                         *)
(* The local copy is proved for one reader, for ends and chunks of any     *)
(* size, and for any number of contents; the snapshot for any readers and  *)
(* any members.                                                            *)
(***************************************************************************)
EXTENDS FileMirror, ArchiveMirror, TLAPS

\* There is one reader: a watcher, or a job.
OneReader == \A r, q \in Readers : r = q

LEMMA MinOfTwo == ASSUME NEW a \in Int, NEW b \in Int PROVE Min({a, b}) = IF a <= b THEN a ELSE b
<1> DEFINE m == IF a <= b THEN a ELSE b
<1>1. m \in {a, b} /\ \A y \in {a, b} : m <= y OBVIOUS
<1>2. \A x \in {a, b} : (\A y \in {a, b} : x <= y) => x = m OBVIOUS
<1> QED BY <1>1, <1>2 DEF Min

LEMMA MaxOfTwo == ASSUME NEW a \in Int, NEW b \in Int PROVE Max({a, b}) = IF a >= b THEN a ELSE b
<1> DEFINE m == IF a >= b THEN a ELSE b
<1>1. m \in {a, b} /\ \A y \in {a, b} : m >= y OBVIOUS
<1>2. \A x \in {a, b} : (\A y \in {a, b} : x >= y) => x = m OBVIOUS
<1> QED BY <1>1, <1>2 DEF Max

\* Two starts of one content agree as far as both go.
LEMMA StartsAgree ==
    ASSUME NEW c, NEW s \in Seq(Bytes), NEW t \in Seq(Bytes), StartOf(c, s), StartOf(c, t), Len(s) <= Len(t)
    PROVE  IsPrefix(s, t) /\ s = SubSeq(t, 1, Len(s))
<1>1. Len(s) \in Nat /\ Len(t) \in Nat OBVIOUS
<1>2. SubSeq(t, 1, Len(s)) \in Seq(Bytes) /\ Len(SubSeq(t, 1, Len(s))) = Len(s)
  BY <1>1
<1>3. \A i \in 1..Len(s) : SubSeq(t, 1, Len(s))[i] = s[i]
  <2> SUFFICES ASSUME NEW i \in 1..Len(s) PROVE SubSeq(t, 1, Len(s))[i] = s[i] OBVIOUS
  <2>1. SubSeq(t, 1, Len(s))[i] = t[i] BY <1>1
  <2>2. i \in 1..Len(t) BY <1>1
  <2> QED BY <2>1, <2>2 DEF StartOf
<1>4. s = SubSeq(t, 1, Len(s)) /\ s = SubSeq(s, 1, Len(s))
  BY <1>1, <1>2, <1>3
<1> QED BY <1>1, <1>4 DEF IsPrefix

\* The first byte tells the content.
LEMMA FirstByteTells ==
    ASSUME NEW c, NEW s \in Seq(Bytes), StartOf(c, s), s # <<>>
    PROVE  s[1] = <<c, 1>> /\ s[1][1] = c
BY DEF StartOf

\* More bytes of the content.
LEMMA StartGrows ==
    ASSUME NEW c, NEW s \in Seq(Bytes), NEW t \in Seq(Bytes), StartOf(c, s), StartOf(c, t), NEW n \in Nat,
           Len(s) < n, n <= Len(t)
    PROVE  LET new == s \o SubSeq(t, Len(s) + 1, n) IN
           new \in Seq(Bytes) /\ Len(new) = n /\ StartOf(c, new)
<1> DEFINE u == SubSeq(t, Len(s) + 1, n)
<1>1. u \in Seq(Bytes) /\ Len(u) = n - Len(s) /\ \A i \in 1..Len(u) : u[i] = t[Len(s) + i]
  OBVIOUS
<1> HIDE DEF u
<1>2. s \o u \in Seq(Bytes) /\ Len(s \o u) = n
  BY <1>1
<1>3. ASSUME NEW i \in 1..n PROVE (s \o u)[i] = <<c, i>>
  <2>1. CASE i <= Len(s) BY <1>1, <2>1 DEF StartOf
  <2>2. CASE i > Len(s)
    <3>1. i - Len(s) \in 1..Len(u) /\ (s \o u)[i] = u[i - Len(s)] BY <1>1, <2>2
    <3> QED BY <3>1, <1>1, <2>2 DEF StartOf
  <2> QED BY <2>1, <2>2, <1>1
<1> QED BY <1>2, <1>3 DEF StartOf, u

LEMMA AppendGrows ==
    ASSUME NEW c \in 1..MaxContents, NEW s \in Seq(Bytes), StartOf(c, s), Len(s) < MaxLength
    PROVE  LET new == Append(s, <<c, Len(s) + 1>>) IN
           new \in Seq(Bytes) /\ Len(new) = Len(s) + 1 /\ StartOf(c, new)
<1> DEFINE b == <<c, Len(s) + 1>>
<1>1. b \in Bytes BY MirrorAssumption DEF Bytes
<1> HIDE DEF b
<1>2. Append(s, b) \in Seq(Bytes) /\ Len(Append(s, b)) = Len(s) + 1 BY <1>1
<1>3. \A i \in 1..Len(s) + 1 : Append(s, b)[i] = IF i = Len(s) + 1 THEN b ELSE s[i] BY <1>1
<1> QED BY <1>2, <1>3 DEF StartOf, b

LEMMA EmptyIsStart == ASSUME NEW c PROVE StartOf(c, <<>>)
BY DEF StartOf

LEMMA NoFileIsNoBytes == NoFile \notin Seq(Bytes)
<1>1. NoFile[1] = <<0, 0>> /\ Len(NoFile) = 1 BY DEF NoFile
<1>2. \A b \in Bytes : b[1] # 0 BY MirrorAssumption DEF Bytes
<1>3. ASSUME NEW s \in Seq(Bytes), Len(s) = 1 PROVE s[1] \in Bytes
  <2>1. 1 \in 1..Len(s) BY <1>3
  <2> QED BY <2>1
<1> QED BY <1>1, <1>2, <1>3

LEMMA BoundedLength ==
    ASSUME NEW c, NEW s \in Seq(Bytes), StartOf(c, s)
    PROVE  Len(s) \in 0..MaxLength
<1>1. CASE s = <<>> BY <1>1, MirrorAssumption
<1>2. CASE s # <<>>
  <2>1. Len(s) \in 1..Len(s) BY <1>2
  <2>2. s[Len(s)] = <<c, Len(s)>> /\ s[Len(s)] \in Bytes BY <2>1 DEF StartOf
  <2> QED BY <2>2, MirrorAssumption DEF Bytes
<1> QED BY <1>1, <1>2

LEMMA IdleType == Idle \in Passes /\ [Idle EXCEPT !.pc = "done"] \in Passes
<1>1. NoStamp \in Stamps BY DEF Stamps
<1>2. <<>> \in Seq(Bytes) /\ 0 \in 0..MaxContents BY MirrorAssumption
<1> QED BY <1>1, <1>2 DEF Idle, Passes

\* A reader whose pass is over says nothing of the files.
LEMMA LeftKeeps ==
    ASSUME MirrorInv, NEW r \in Readers, Leave(r) \/ Step(r, [Idle EXCEPT !.pc = "done"])
    PROVE  reader' \in [Readers -> Passes] /\ PassInv(r)'
<1>1. reader' = [reader EXCEPT ![r] = Idle] \/ reader' = [reader EXCEPT ![r] = [Idle EXCEPT !.pc = "done"]]
  BY DEF Leave, LeaveAs, Step
<1>2. reader' \in [Readers -> Passes] /\ reader'[r].pc \in {"idle", "done"}
  BY <1>1, IdleType DEF MirrorInv, TypeOK, Idle
<1> QED BY <1>2 DEF PassInv, InPass, HasSource

LEMMA CreateKeeps == ASSUME MirrorInv, Create PROVE MirrorInv'
<1> USE DEF MirrorInv
<1>1. /\ path = 0 /\ content \in Nat /\ content < MaxContents /\ content' = content + 1 /\ path' = content'
      /\ UNCHANGED <<files, local, stamps, reader, stopped, failures>>
      /\ MaxContents \in Nat
  BY MirrorAssumption DEF Create, TypeOK
<1>2. TypeOK'
  BY <1>1, MirrorAssumption DEF Create, Touch, TypeOK
<1>3. LocalIsSnapshot'
  BY <1>1 DEF LocalIsSnapshot
<1>4. WrittenInOrder'
  <2>1. files[path'] = <<>> BY <1>1 DEF WrittenInOrder
  <2>2. StartOf(content', files'[path']) BY <1>1, <2>1, EmptyIsStart
  <2>3. ASSUME NEW f \in 1..MaxContents
        PROVE  /\ f > content' => files'[f] = <<>>
               /\ \E c \in 1..MaxContents : StartOf(c, files[f]) /\ (files[f] # <<>> => c < content')
    <3>1. PICK c \in 1..MaxContents : StartOf(c, files[f]) /\ (files[f] # <<>> => c <= content)
      <4>1. f # path BY <1>1
      <4> QED BY <4>1 DEF WrittenInOrder
    <3>2. f > content => files[f] = <<>> BY DEF WrittenInOrder
    <3>3. files[f] # <<>> => c < content' BY <1>1, <3>1
    <3>4. f > content' => files'[f] = <<>> BY <1>1, <3>2
    <3> QED BY <3>1, <3>3, <3>4
  <2>4. path' # 0 => path' <= content' BY <1>1
  <2>5. ASSUME NEW f \in 1..MaxContents
        PROVE  /\ f > content' => files'[f] = <<>>
               /\ f # path' => \E c \in 1..MaxContents :
                      StartOf(c, files'[f]) /\ (files'[f] # <<>> => c <= content' /\ (path' # 0 => c < content'))
    <3>1. PICK c \in 1..MaxContents : StartOf(c, files'[f]) /\ (files'[f] # <<>> => c < content')
      BY <1>1, <2>3
    <3>2. c < content' => c <= content' BY <1>1
    <3> QED BY <2>3, <3>1, <3>2
  <2> HIDE DEF MirrorInv
  <2> QED BY <2>2, <2>4, <2>5 DEF WrittenInOrder
<1>5. LocalIsPast'
  BY <1>1 DEF LocalIsPast, HasBytes, TypeOK, LocalIsSnapshot, StartOf
<1>6. ASSUME NEW r \in Readers PROVE PassInv(r)'
  <2>1. PassInv(r) OBVIOUS
  <2>2. HasBytes => local[1][1] \in Int /\ local[1][1] # content'
    BY <1>1 DEF LocalIsPast, HasBytes, TypeOK, LocalIsSnapshot, StartOf
  <2>3. ASSUME HasSource(r), NEW c \in 1..content, SourceOf(r, c), StagesStart(r, c), reader[r].source \in 1..content
        PROVE  c \in 1..content' /\ SourceOf(r, c)' /\ StagesStart(r, c)'
    BY <1>1, <2>3 DEF SourceOf, StagesStart, HasBytes, SizeOf
  <2> QED BY <1>1, <2>1, <2>2, <2>3 DEF PassInv, InPass, HasSource, HasBytes, SizeOf, LocalSize
<1> QED BY <1>2, <1>3, <1>4, <1>5, <1>6

LEMMA AppendByteKeeps == ASSUME MirrorInv, AppendByte PROVE MirrorInv'
<1> USE DEF MirrorInv
<1> DEFINE old == files[path]
           new == Append(old, <<content, Len(old) + 1>>)
<1>1. /\ path \in 1..MaxContents /\ path <= content /\ content \in 1..MaxContents
      /\ files' = [files EXCEPT ![path] = new]
      /\ UNCHANGED <<path, content, local, stamps, reader, stopped, failures>>
      /\ old \in Seq(Bytes) /\ StartOf(content, old) /\ Len(old) < MaxLength
  <2>1. path \in 0..MaxContents /\ path # 0 /\ path <= content /\ content \in 0..MaxContents /\ MaxContents \in Nat
    BY MirrorAssumption DEF AppendByte, TypeOK, WrittenInOrder
  <2>2. path \in 1..MaxContents /\ content \in 1..MaxContents
    BY <2>1
  <2> QED BY <2>1, <2>2 DEF AppendByte, TypeOK, WrittenInOrder
<1>2. new \in Seq(Bytes) /\ Len(new) = Len(old) + 1 /\ StartOf(content, new)
  BY <1>1, AppendGrows
<1> HIDE DEF new
<1>3. /\ files' \in [1..MaxContents -> Seq(Bytes)]
      /\ files'[path] = new /\ \A f \in 1..MaxContents \ {path} : files'[f] = files[f]
      /\ \A f \in 1..MaxContents : Len(files[f]) <= Len(files'[f])
  BY <1>1, <1>2 DEF TypeOK
<1>4. TypeOK'
  BY <1>1, <1>3 DEF AppendByte, Touch, TypeOK
<1>5. LocalIsSnapshot'
  BY <1>1 DEF LocalIsSnapshot
<1>6. WrittenInOrder'
  BY <1>1, <1>2, <1>3 DEF WrittenInOrder
<1>7. LocalIsPast'
  BY <1>1, <1>2, <1>3 DEF LocalIsPast, HasBytes, TypeOK
<1>8. ASSUME NEW r \in Readers PROVE PassInv(r)'
  <2>1. PassInv(r) OBVIOUS
  <2>2. ASSUME HasSource(r), reader[r].source \in 1..content, NEW c \in 1..content, SourceOf(r, c), StagesStart(r, c)
        PROVE  SourceOf(r, c)' /\ StagesStart(r, c)'
    <3>1. reader[r].source \in 1..MaxContents BY <1>1, <2>2, MirrorAssumption DEF TypeOK
    <3>2. StartOf(c, files'[reader[r].source])
      BY <1>2, <1>3, <2>2, <3>1 DEF SourceOf
    <3>3. SourceOf(r, c)'
      BY <1>1, <2>2, <3>2 DEF SourceOf, HasBytes, SizeOf
    <3>4. Len(files[reader[r].source]) \in Nat /\ Len(files'[reader[r].source]) \in Nat
      BY <3>1, <1>3 DEF TypeOK
    <3>5. StagesStart(r, c)'
      <4>1. reader[r].pc \in {"copy", "read", "replace"} /\ reader[r].start > 0
                => HasBytes /\ Len(local) <= Len(files'[reader[r].source])
        BY <1>3, <2>2, <3>1, <3>4 DEF StagesStart, HasBytes, TypeOK
      <4>2. reader[r].pc \in {"read", "replace"} => reader[r].offset <= Len(files'[reader[r].source])
        BY <1>3, <2>2, <3>1, <3>4 DEF StagesStart, TypeOK, Passes
      <4> QED BY <1>1, <2>2, <4>1, <4>2 DEF StagesStart, HasBytes, SizeOf
    <3> QED BY <3>3, <3>5
  <2>3. HasSource(r) => reader'[r].source \in 1..content' /\ \E c \in 1..content' : SourceOf(r, c)' /\ StagesStart(r, c)'
    BY <1>1, <2>1, <2>2 DEF PassInv
  <2> QED BY <1>1, <2>1, <2>3 DEF PassInv, InPass, HasSource, HasBytes, SizeOf, LocalSize
<1> QED BY <1>4, <1>5, <1>6, <1>7, <1>8

LEMMA RotateKeeps == ASSUME MirrorInv, Rotate PROVE MirrorInv'
<1> USE DEF MirrorInv
<1>1. /\ path \in 1..MaxContents /\ path <= content /\ content \in 1..MaxContents /\ path' = 0
      /\ UNCHANGED <<files, content, mtime, local, stamps, reader, stopped, failures>>
  BY MirrorAssumption DEF Rotate, TypeOK, WrittenInOrder
<1>2. TypeOK' /\ LocalIsSnapshot' /\ LocalIsPast'
  BY <1>1, MirrorAssumption DEF TypeOK, LocalIsSnapshot, LocalIsPast, HasBytes
<1>3. WrittenInOrder'
  BY <1>1 DEF WrittenInOrder
<1>4. ASSUME NEW r \in Readers PROVE PassInv(r)'
  <2>1. PassInv(r) OBVIOUS
  <2>2. ASSUME reader[r].source \in 1..content, NEW c \in 1..content, SourceOf(r, c), StagesStart(r, c)
        PROVE  SourceOf(r, c)' /\ StagesStart(r, c)'
    BY <1>1, <2>2 DEF SourceOf, StagesStart, HasBytes, SizeOf
  <2> QED BY <1>1, <2>1, <2>2 DEF PassInv, InPass, HasSource, HasBytes, SizeOf, LocalSize
<1> QED BY <1>2, <1>3, <1>4

LEMMA RewriteKeeps == ASSUME MirrorInv, ~RewritesInRead, Rewrite PROVE MirrorInv'
<1> USE DEF MirrorInv
<1>1. /\ \A r \in Readers : reader[r].pc \in {"idle", "done"}
      /\ path \in 1..MaxContents /\ path <= content /\ content \in 1..MaxContents
      /\ content' = content + 1 /\ content' \in 1..MaxContents
      /\ files' = [files EXCEPT ![path] = <<>>]
      /\ UNCHANGED <<path, local, stamps, reader, stopped, failures>>
  BY MirrorAssumption DEF Rewrite, TypeOK, WrittenInOrder
<1>2. /\ files' \in [1..MaxContents -> Seq(Bytes)]
      /\ files'[path] = <<>> /\ \A f \in 1..MaxContents \ {path} : files'[f] = files[f]
  BY <1>1 DEF TypeOK
<1>3. TypeOK'
  BY <1>1, <1>2 DEF Rewrite, Touch, TypeOK
<1>4. LocalIsSnapshot'
  BY <1>1 DEF LocalIsSnapshot
<1>5. WrittenInOrder'
  BY <1>1, <1>2, EmptyIsStart DEF WrittenInOrder
<1>6. LocalIsPast'
  BY <1>1 DEF LocalIsPast, HasBytes, TypeOK, LocalIsSnapshot, StartOf
<1>7. ASSUME NEW r \in Readers PROVE PassInv(r)'
  BY <1>1 DEF PassInv, InPass, HasSource
<1> QED BY <1>3, <1>4, <1>5, <1>6, <1>7

\* The parts of the invariant that a step of a reader leaves alone.
LEMMA ReaderStep ==
    ASSUME OneReader, MirrorInv, NEW r \in Readers, UNCHANGED <<serverVars, local>>,
           reader' \in [Readers -> Passes], stamps' \in [Readers -> Stamps], stopped' \subseteq Readers,
           failures' \in 0..MaxFailures, PassInv(r)'
    PROVE  MirrorInv'
<1> USE DEF MirrorInv
<1>1. TypeOK' /\ LocalIsSnapshot' /\ WrittenInOrder' /\ LocalIsPast'
  BY DEF serverVars, TypeOK, LocalIsSnapshot, WrittenInOrder, LocalIsPast, HasBytes
<1>2. \A q \in Readers : q = r BY DEF OneReader
<1> QED BY <1>1, <1>2

LEMMA LeaveKeeps ==
    ASSUME OneReader, MirrorInv, NEW r \in Readers, Leave(r) \/ Step(r, [Idle EXCEPT !.pc = "done"]),
           UNCHANGED <<serverVars, local, stamps, stopped>>, failures' \in 0..MaxFailures
    PROVE  MirrorInv'
BY LeftKeeps, ReaderStep DEF MirrorInv, TypeOK

LEMMA StatSourceKeeps ==
    ASSUME OneReader, MirrorInv, NEW r \in Readers, StatSource(r)
    PROVE  MirrorInv'
<1> USE DEF MirrorInv
<1> DEFINE stamp == <<Len(files[path]), mtime>>
<1>1. /\ path \in 1..content
      /\ reader' = [reader EXCEPT ![r] = [Idle EXCEPT !.pc = "open", !.stamp = stamp]]
      /\ UNCHANGED <<serverVars, local, stamps, stopped, failures>>
  BY MirrorAssumption DEF StatSource, Step, TypeOK, WrittenInOrder
<1>2. Len(files[path]) \in 0..MaxLength
  BY <1>1, BoundedLength DEF TypeOK, WrittenInOrder
<1>3. stamp \in Stamps /\ stamp # NoStamp /\ stamp[1] = Len(files[path])
  BY <1>2 DEF Stamps, NoStamp, TypeOK
<1> HIDE DEF stamp
<1>4. /\ reader' \in [Readers -> Passes]
      /\ reader'[r].pc = "open" /\ reader'[r].stamp = stamp
  BY <1>1, <1>3, IdleType DEF TypeOK, Idle, Passes
<1>5. PassInv(r)'
  BY <1>1, <1>3, <1>4 DEF PassInv, InPass, HasSource, LocalIsPast, HasBytes, SizeOf, serverVars
<1> QED BY <1>1, <1>4, <1>5, ReaderStep DEF TypeOK

LEMMA OpenSourceKeeps ==
    ASSUME OneReader, MirrorInv, NEW r \in Readers, OpenSource(r)
    PROVE  MirrorInv'
<1> USE DEF MirrorInv
<1>1. /\ reader[r].pc = "open" /\ path \in 1..content /\ content \in 1..MaxContents
      /\ reader' = [reader EXCEPT ![r] = [reader[r] EXCEPT !.pc = "compare", !.source = path, !.oldSize = LocalSize]]
      /\ UNCHANGED <<serverVars, local, stamps, stopped, failures>>
  BY MirrorAssumption DEF OpenSource, Step, TypeOK, WrittenInOrder
<1>2. LocalSize \in Nat
  BY DEF LocalSize, TypeOK
<1>3. /\ reader' \in [Readers -> Passes]
      /\ reader'[r].pc = "compare" /\ reader'[r].stamp = reader[r].stamp
      /\ reader'[r].source = path /\ reader'[r].oldSize = LocalSize
  BY <1>1, <1>2 DEF TypeOK, Passes
<1>4. SourceOf(r, content)'
  <2>1. StartOf(content, files[path]) BY <1>1 DEF WrittenInOrder
  <2>2. HasBytes => local[1][1] <= content /\ (local[1][1] = content => Len(local) <= SizeOf(r))
    BY <1>1 DEF PassInv, LocalIsPast
  <2> QED BY <1>1, <1>3, <2>1, <2>2 DEF SourceOf, HasBytes, SizeOf, serverVars
<1>5. StagesStart(r, content)'
  BY <1>3 DEF StagesStart
<1>6. PassInv(r)'
  BY <1>1, <1>3, <1>4, <1>5 DEF PassInv, InPass, HasSource, LocalSize, serverVars
<1> QED BY <1>1, <1>3, <1>6, ReaderStep DEF TypeOK

\* Both ends agree: the local file is the start of what is open.
LEMMA PrefixMeans ==
    ASSUME MirrorInv, NEW r \in Readers, reader[r].pc = "compare", PrefixOk(r), reader[r].oldSize > 0,
           NEW c \in 1..content, SourceOf(r, c)
    PROVE  /\ HasBytes /\ StartOf(c, local) /\ Len(local) = reader[r].oldSize
           /\ reader[r].oldSize <= Len(files[reader[r].source])
<1> USE DEF MirrorInv
<1> DEFINE old == reader[r].oldSize
           source == files[reader[r].source]
           tail == Max({0, old - Edge}) + 1
           head == SubSeq(local, 1, Min({Edge, old, Len(local)}))
<1>1. /\ local # NoFile /\ local \in Seq(Bytes) /\ old = Len(local) /\ old \in Nat \ {0}
      /\ source \in Seq(Bytes) /\ Edge \in Nat \ {0}
      /\ StartOf(c, source)
  <2>1. reader[r] \in Passes BY DEF TypeOK
  <2>2. local # NoFile /\ local \in Seq(Bytes) /\ old = Len(local)
    BY DEF PrefixOk, PassInv, LocalSize, TypeOK
  <2>3. reader[r].source \in 1..MaxContents
    BY MirrorAssumption DEF PassInv, HasSource, TypeOK
  <2> QED BY <2>2, <2>3, MirrorAssumption DEF TypeOK, SourceOf
<1>2. Len(source) >= old /\ tail \in 1..old
  <2>1. tail = (IF 0 >= old - Edge THEN 0 ELSE old - Edge) + 1
    BY <1>1, MaxOfTwo
  <2>2. tail \in 1..old
    BY <1>1, <2>1
  <2>3. Min({old, Len(source)}) = IF old <= Len(source) THEN old ELSE Len(source)
    BY <1>1, MinOfTwo
  <2>4. SubSeq(source, tail, Min({old, Len(source)})) = SubSeq(local, tail, old)
    BY <1>1 DEF PrefixOk, RemoteBytes
  <2>5. Len(SubSeq(local, tail, old)) = old - tail + 1
    BY <1>1, <2>2
  <2>6. CASE old > Len(source)
    <3>1. Min({old, Len(source)}) = Len(source) BY <1>1, <2>3, <2>6
    <3>2. Len(SubSeq(source, tail, Len(source))) = IF tail <= Len(source) THEN Len(source) - tail + 1 ELSE 0
      BY <1>1, <2>2
    <3> QED BY <1>1, <2>2, <2>4, <2>5, <2>6, <3>1, <3>2
  <2> QED BY <1>1, <2>2, <2>6
<1>3. source[1] = local[1]
  <2>1. Min({Edge, old, Len(local)}) \in 1..old
    <3>1. {Edge, old, Len(local)} = {Edge, old} BY <1>1
    <3> QED BY <1>1, <3>1, MinOfTwo
  <2>2. head \in Seq(Bytes) /\ Len(head) \in 1..old /\ head[1] = local[1]
    <3> DEFINE m == Min({Edge, old, Len(local)})
    <3>1. m \in 1..old BY <2>1
    <3> HIDE DEF m
    <3>2. SubSeq(local, 1, m) \in Seq(Bytes) /\ Len(SubSeq(local, 1, m)) = m /\ SubSeq(local, 1, m)[1] = local[1]
      BY <1>1, <3>1
    <3> QED BY <3>1, <3>2 DEF m
  <2>3. SubSeq(source, 1, Min({Len(head), Len(source)})) = head
    BY <1>1 DEF PrefixOk, RemoteBytes
  <2>4. Min({Len(head), Len(source)}) = Len(head)
    <3>1. Len(head) \in Int /\ Len(source) \in Int /\ Len(head) <= Len(source)
      BY <1>1, <1>2, <2>2
    <3> QED BY <3>1, MinOfTwo
  <2>5. SubSeq(source, 1, Len(head))[1] = source[1]
    BY <1>1, <1>2, <2>2
  <2> QED BY <2>2, <2>3, <2>4, <2>5
<1>4. local # <<>> /\ source # <<>>
  BY <1>1, <1>2
<1>5. PICK d \in 1..MaxContents : StartOf(d, local)
  BY <1>1 DEF LocalIsSnapshot
<1>6. d = c
  BY <1>1, <1>3, <1>4, <1>5, FirstByteTells
<1> QED BY <1>1, <1>2, <1>4, <1>5, <1>6 DEF HasBytes

LEMMA CompareKeeps ==
    ASSUME OneReader, MirrorInv, NEW r \in Readers, Compare(r)
    PROVE  MirrorInv'
<1> USE DEF MirrorInv
<1> DEFINE start == IF PrefixOk(r) /\ reader[r].oldSize < SizeOf(r) THEN reader[r].oldSize ELSE 0
<1>1. /\ reader[r].pc = "compare" /\ reader[r] \in Passes
      /\ reader' = [reader EXCEPT ![r] = [reader[r] EXCEPT !.pc = "copy", !.start = start]]
      /\ UNCHANGED <<serverVars, local, stamps, stopped, failures>>
  BY DEF Compare, Step, TypeOK
<1>2. start \in Nat
  BY <1>1 DEF Passes
<1>3. start > 0 => PrefixOk(r) /\ reader[r].oldSize > 0 /\ start = reader[r].oldSize /\ start <= SizeOf(r)
  <2>1. reader[r].stamp # NoStamp /\ reader[r].stamp \in Stamps BY <1>1 DEF PassInv, InPass, Passes
  <2>2. SizeOf(r) \in Nat BY <2>1, MirrorAssumption DEF Stamps, SizeOf
  <2> QED BY <1>1, <2>2 DEF Passes
<1> HIDE DEF start
<1>4. /\ reader' \in [Readers -> Passes]
      /\ reader'[r].pc = "copy" /\ reader'[r].stamp = reader[r].stamp
      /\ reader'[r].source = reader[r].source /\ reader'[r].start = start
  BY <1>1, <1>2 DEF TypeOK, Passes
<1>5. PICK c \in 1..content : SourceOf(r, c) /\ reader[r].source \in 1..content
  BY <1>1 DEF PassInv, HasSource
<1>6. SourceOf(r, c)'
  BY <1>1, <1>4, <1>5 DEF SourceOf, HasBytes, SizeOf, serverVars
<1>7. StagesStart(r, c)'
  <2>1. start > 0 => /\ HasBytes /\ Len(local) = start /\ StartOf(c, local)
                     /\ Len(local) <= SizeOf(r) /\ Len(local) <= Len(files[reader[r].source])
    BY <1>1, <1>3, <1>5, PrefixMeans
  <2> QED BY <1>1, <1>4, <2>1 DEF StagesStart, HasBytes, SizeOf, serverVars
<1>8. PassInv(r)'
  BY <1>1, <1>4, <1>5, <1>6, <1>7 DEF PassInv, InPass, HasSource, serverVars
<1> QED BY <1>1, <1>4, <1>8, ReaderStep DEF TypeOK

LEMMA CopyKeeps ==
    ASSUME OneReader, MirrorInv, NEW r \in Readers, Copy(r)
    PROVE  MirrorInv'
<1> USE DEF MirrorInv
<1> DEFINE staged == IF reader[r].start > 0 THEN local ELSE <<>>
<1>1. /\ reader[r].pc = "copy" /\ reader[r] \in Passes
      /\ reader' = [reader EXCEPT ![r] = [reader[r] EXCEPT !.pc = "read", !.offset = reader[r].start, !.staged = staged]]
      /\ UNCHANGED <<serverVars, local, stamps, stopped, failures>>
  BY DEF Copy, Step, TypeOK
<1>2. PICK c \in 1..content : SourceOf(r, c) /\ StagesStart(r, c) /\ reader[r].source \in 1..content
  BY <1>1 DEF PassInv, HasSource
<1>3. reader[r].start \in Nat /\ SizeOf(r) \in Nat
  <2>1. reader[r].stamp # NoStamp BY <1>1 DEF PassInv, InPass
  <2> QED BY <1>1, <2>1, MirrorAssumption DEF Passes, Stamps, SizeOf
<1>4. staged \in Seq(Bytes) /\ StartOf(c, staged) /\ Len(staged) = reader[r].start
      /\ Len(staged) <= SizeOf(r) /\ Len(staged) <= Len(files[reader[r].source])
  <2>1. CASE reader[r].start > 0
    BY <1>1, <1>2, <2>1 DEF StagesStart, HasBytes, TypeOK
  <2>2. CASE reader[r].start = 0
    <3>1. Len(files[reader[r].source]) \in Nat
      BY <1>2, MirrorAssumption DEF TypeOK
    <3> QED BY <1>3, <2>2, <3>1, EmptyIsStart
  <2> QED BY <1>3, <2>1, <2>2
<1> HIDE DEF staged
<1>5. /\ reader' \in [Readers -> Passes]
      /\ reader'[r].pc = "read" /\ reader'[r].stamp = reader[r].stamp
      /\ reader'[r].source = reader[r].source /\ reader'[r].start = reader[r].start
      /\ reader'[r].staged = staged /\ reader'[r].offset = reader[r].start
  BY <1>1, <1>3, <1>4 DEF TypeOK, Passes
<1>6. SourceOf(r, c)'
  BY <1>1, <1>2, <1>5 DEF SourceOf, HasBytes, SizeOf, serverVars
<1>7. StagesStart(r, c)'
  BY <1>1, <1>2, <1>3, <1>4, <1>5 DEF StagesStart, HasBytes, SizeOf, serverVars
<1>8. PassInv(r)'
  BY <1>1, <1>2, <1>5, <1>6, <1>7 DEF PassInv, InPass, HasSource, serverVars
<1> QED BY <1>1, <1>5, <1>8, ReaderStep DEF TypeOK

LEMMA ReadKeeps ==
    ASSUME OneReader, MirrorInv, NEW r \in Readers, Read(r)
    PROVE  MirrorInv'
<1> USE DEF MirrorInv
<1> DEFINE chunk == NextChunk(r)
           source == files[reader[r].source]
           staged == reader[r].staged \o chunk
           offset == reader[r].offset + Len(chunk)
<1>1. /\ reader[r].pc = "read" /\ reader[r] \in Passes /\ reader[r].offset < SizeOf(r) /\ chunk # <<>>
      /\ reader' = [reader EXCEPT ![r] = [reader[r] EXCEPT !.staged = staged, !.offset = offset]]
      /\ UNCHANGED <<serverVars, local, stamps, stopped, failures>>
  BY DEF Read, Step, TypeOK
<1>2. PICK c \in 1..content : SourceOf(r, c) /\ StagesStart(r, c) /\ reader[r].source \in 1..content
  BY <1>1 DEF PassInv, HasSource
<1>3. /\ source \in Seq(Bytes) /\ StartOf(c, source)
      /\ reader[r].offset \in Nat /\ reader[r].offset <= Len(source) /\ reader[r].start \in Nat
      /\ reader[r].staged \in Seq(Bytes) /\ StartOf(c, reader[r].staged) /\ Len(reader[r].staged) = reader[r].offset
      /\ reader[r].start <= reader[r].offset
      /\ SizeOf(r) \in Nat /\ Chunk \in Nat \ {0}
  <2>1. reader[r].stamp # NoStamp BY <1>1 DEF PassInv, InPass
  <2>2. SizeOf(r) \in Nat BY <1>1, <2>1, MirrorAssumption DEF Passes, Stamps, SizeOf
  <2>3. source \in Seq(Bytes) BY <1>2, MirrorAssumption DEF TypeOK
  <2>4. reader[r].offset \in Nat /\ reader[r].start \in Nat /\ reader[r].staged \in Seq(Bytes) BY <1>1 DEF Passes
  <2>5. /\ StartOf(c, reader[r].staged) /\ Len(reader[r].staged) = reader[r].offset
        /\ reader[r].offset \in reader[r].start..SizeOf(r) /\ reader[r].offset <= Len(source)
    BY <1>1, <1>2 DEF StagesStart
  <2> QED BY <1>2, <2>2, <2>3, <2>4, <2>5, MirrorAssumption DEF SourceOf
<1> DEFINE last == Min({Min({reader[r].offset + Chunk, SizeOf(r)}), Len(source)})
<1>4. /\ last \in Nat /\ last <= SizeOf(r) /\ last <= Len(source)
      /\ chunk = SubSeq(source, reader[r].offset + 1, last)
  <2>1. Min({reader[r].offset + Chunk, SizeOf(r)}) \in Nat /\ Min({reader[r].offset + Chunk, SizeOf(r)}) <= SizeOf(r)
    BY <1>3, MinOfTwo
  <2>2. last \in Nat /\ last <= SizeOf(r) /\ last <= Len(source)
    <3> DEFINE m == Min({reader[r].offset + Chunk, SizeOf(r)})
               n == Len(source)
    <3>1. m \in Nat /\ m <= SizeOf(r) /\ n \in Nat BY <1>3, <2>1
    <3> HIDE DEF m, n
    <3>2. Min({m, n}) = IF m <= n THEN m ELSE n BY <3>1, MinOfTwo
    <3>3. last = Min({m, n}) BY DEF m, n
    <3> QED BY <1>3, <3>1, <3>2, <3>3 DEF n
  <2> QED BY <2>2 DEF NextChunk, RemoteBytes
<1> HIDE DEF last, chunk
<1>5. last > reader[r].offset
  BY <1>1, <1>3, <1>4
<1>6. Len(chunk) = last - reader[r].offset
  BY <1>3, <1>4, <1>5
<1>7. staged \in Seq(Bytes) /\ Len(staged) = last /\ StartOf(c, staged)
  <2> DEFINE s == reader[r].staged
             t == source
  <2>1. /\ s \in Seq(Bytes) /\ t \in Seq(Bytes) /\ StartOf(c, s) /\ StartOf(c, t)
        /\ Len(s) < last /\ last <= Len(t) /\ last \in Nat
        /\ staged = s \o SubSeq(t, Len(s) + 1, last)
    BY <1>3, <1>4, <1>5
  <2> HIDE DEF s, t, staged
  <2> QED BY <2>1, StartGrows
<1>8. offset = last
  BY <1>3, <1>4, <1>6
<1> HIDE DEF staged, offset
<1>9. /\ reader' \in [Readers -> Passes]
      /\ reader'[r].pc = "read" /\ reader'[r].stamp = reader[r].stamp
      /\ reader'[r].source = reader[r].source /\ reader'[r].start = reader[r].start
      /\ reader'[r].staged = staged /\ reader'[r].offset = last
  BY <1>1, <1>4, <1>7, <1>8 DEF TypeOK, Passes
<1>10. SourceOf(r, c)'
  BY <1>1, <1>2, <1>9 DEF SourceOf, HasBytes, SizeOf, serverVars
<1>11. StagesStart(r, c)'
  BY <1>1, <1>2, <1>3, <1>4, <1>5, <1>7, <1>9 DEF StagesStart, HasBytes, SizeOf, serverVars
<1>12. PassInv(r)'
  BY <1>1, <1>2, <1>9, <1>10, <1>11 DEF PassInv, InPass, HasSource, serverVars
<1> QED BY <1>1, <1>9, <1>12, ReaderStep DEF TypeOK

LEMMA ReadAllKeeps ==
    ASSUME OneReader, MirrorInv, NEW r \in Readers, ReadAll(r)
    PROVE  MirrorInv'
<1> USE DEF MirrorInv
<1>1. /\ reader[r].pc = "read" /\ reader[r].offset = SizeOf(r)
      /\ reader' = [reader EXCEPT ![r] = [reader[r] EXCEPT !.pc = "replace"]]
      /\ UNCHANGED <<serverVars, local, stamps, stopped, failures>>
  BY DEF ReadAll, Step
<1>2. /\ reader' \in [Readers -> Passes]
      /\ reader'[r].pc = "replace" /\ reader'[r].stamp = reader[r].stamp
      /\ reader'[r].source = reader[r].source /\ reader'[r].start = reader[r].start
      /\ reader'[r].staged = reader[r].staged /\ reader'[r].offset = reader[r].offset
  BY <1>1 DEF TypeOK, Passes
<1>3. PICK c \in 1..content : SourceOf(r, c) /\ StagesStart(r, c) /\ reader[r].source \in 1..content
  BY <1>1 DEF PassInv, HasSource
<1>4. SourceOf(r, c)' /\ StagesStart(r, c)'
  BY <1>1, <1>2, <1>3 DEF SourceOf, StagesStart, HasBytes, SizeOf, serverVars
<1>5. PassInv(r)'
  BY <1>1, <1>2, <1>3, <1>4 DEF PassInv, InPass, HasSource, serverVars
<1> QED BY <1>1, <1>2, <1>5, ReaderStep DEF TypeOK

\* What is put in place is all of the size that was asked for.
LEMMA ReplaceKeeps ==
    ASSUME OneReader, MirrorInv, NEW r \in Readers, Replace(r)
    PROVE  MirrorInv'
<1> USE DEF MirrorInv
<1>1. /\ reader[r].pc = "replace" /\ local' = reader[r].staged
      /\ reader[r].staged \in Seq(Bytes) /\ reader[r].stamp \in Stamps
      /\ UNCHANGED <<serverVars, stopped, failures>>
      /\ reader' \in [Readers -> Passes] /\ PassInv(r)'
  BY LeftKeeps DEF Replace, TypeOK, Passes
<1>2. PICK c \in 1..content : SourceOf(r, c) /\ StagesStart(r, c) /\ reader[r].source \in 1..content
  BY <1>1 DEF PassInv, HasSource
<1>3. StartOf(c, local') /\ Len(local') <= Len(files[reader[r].source])
  BY <1>1, <1>2 DEF StagesStart
<1>4. TypeOK'
  BY <1>1 DEF Replace, TypeOK, serverVars
<1>5. LocalIsSnapshot'
  <2>1. c \in 1..MaxContents BY <1>2, MirrorAssumption DEF TypeOK
  <2> QED BY <1>3, <2>1 DEF LocalIsSnapshot
<1>6. LocalIsPast'
  <2>1. HasBytes' => local'[1][1] = c
    BY <1>1, <1>3, FirstByteTells DEF HasBytes
  <2>2. c <= content /\ (path # 0 /\ c = content => reader[r].source = path)
    BY <1>2 DEF SourceOf, TypeOK
  <2> QED BY <1>1, <1>3, <2>1, <2>2 DEF LocalIsPast, serverVars
<1>7. WrittenInOrder'
  BY <1>1 DEF WrittenInOrder, serverVars
<1>8. \A q \in Readers : q = r BY DEF OneReader
<1> QED BY <1>1, <1>4, <1>5, <1>6, <1>7, <1>8

\* With one reader, of a file that is not truncated while it is read, the local
\* file is at all times the start of one content that the server has written
\* (_mirror_file, 412-470).
THEOREM MirrorInvariant ==
    ASSUME OneReader, ~RewritesInRead
    PROVE  Spec => []MirrorInv
<1>1. Init => MirrorInv
  <2> SUFFICES ASSUME Init PROVE MirrorInv OBVIOUS
  <2>1. TypeOK BY IdleType, MirrorAssumption, ReadersAssumption DEF Init, TypeOK, Stamps
  <2>2. LocalIsSnapshot /\ ~HasBytes BY DEF Init, LocalIsSnapshot, HasBytes
  <2>3. WrittenInOrder BY EmptyIsStart, MirrorAssumption DEF Init, WrittenInOrder
  <2>4. \A r \in Readers : PassInv(r) BY DEF Init, PassInv, InPass, HasSource, Idle
  <2> QED BY <2>1, <2>2, <2>3, <2>4 DEF MirrorInv, LocalIsPast
<1>2. MirrorInv /\ [Next]_vars => MirrorInv'
  <2> SUFFICES ASSUME MirrorInv, [Next]_vars PROVE MirrorInv' OBVIOUS
  <2>1. CASE Server
    BY <2>1, CreateKeeps, AppendByteKeeps, RotateKeeps, RewriteKeeps DEF Server
  <2>2. ASSUME NEW r \in Readers, SourceGone(r) \/ Skip(r) \/ SourceShrunk(r) \/ Ends(r) PROVE MirrorInv'
    <3>1. failures' = failures /\ failures \in 0..MaxFailures
      BY <2>2 DEF SourceGone, Skip, SourceShrunk, Ends, MirrorInv, TypeOK
    <3> QED BY <2>2, <3>1, LeaveKeeps DEF SourceGone, Skip, SourceShrunk, Ends
  <2>3. ASSUME NEW r \in Readers, LoseConnection(r) PROVE MirrorInv'
    <3>1. failures' \in 0..MaxFailures
      BY <2>3, ReadersAssumption DEF LoseConnection, LoseRead, MirrorInv, TypeOK
    <3> QED BY <2>3, <3>1, LeaveKeeps DEF LoseConnection
  <2>4. ASSUME NEW r \in Readers, Stop(r) PROVE MirrorInv'
    <3>1. PassInv(r)'
      BY <2>4 DEF Stop, SetStop, MirrorInv, PassInv, InPass, HasSource, SourceOf, StagesStart, HasBytes, SizeOf, LocalSize,
                  serverVars
    <3> QED BY <2>4, <3>1, ReaderStep DEF Stop, SetStop, MirrorInv, TypeOK
  <2>5. ASSUME NEW r \in Readers, Mirror(r) PROVE MirrorInv'
    BY <2>2, <2>5, StatSourceKeeps, OpenSourceKeeps, CompareKeeps, CopyKeeps, ReadKeeps, ReadAllKeeps, ReplaceKeeps
    DEF Mirror
  <2>6. CASE UNCHANGED vars
    BY <2>6 DEF vars, serverVars, MirrorInv, TypeOK, LocalIsSnapshot, WrittenInOrder, LocalIsPast, HasBytes,
                PassInv, InPass, HasSource, SourceOf, StagesStart, SizeOf, LocalSize
  <2> QED BY <2>1, <2>3, <2>4, <2>5, <2>6 DEF Next
<1> QED BY <1>1, <1>2, PTL DEF Spec

\* A file that is skipped is the remote one at the size that was asked for.
LEMMA SkippedKeeps ==
    ASSUME MirrorInv, NEW r \in Readers, Skip(r)
    PROVE  local = RemoteBytes(r, 1, SizeOf(r))
<1> USE DEF MirrorInv
<1> DEFINE source == files[reader[r].source]
<1>1. /\ reader[r].pc = "compare" /\ PrefixOk(r) /\ reader[r].oldSize = SizeOf(r)
      /\ local # NoFile /\ local \in Seq(Bytes) /\ Len(local) = SizeOf(r)
  BY DEF Skip, Unchanged, PrefixOk, PassInv, LocalSize, TypeOK
<1>2. PICK c \in 1..content : SourceOf(r, c) /\ reader[r].source \in 1..content
  BY <1>1 DEF PassInv, HasSource
<1>3. source \in Seq(Bytes) /\ StartOf(c, source)
  BY <1>2, MirrorAssumption DEF TypeOK, SourceOf
<1>4. RemoteBytes(r, 1, SizeOf(r)) = SubSeq(source, 1, Min({SizeOf(r), Len(source)}))
  BY DEF RemoteBytes
<1> HIDE DEF source
<1>5. CASE SizeOf(r) = 0
  <2>1. Min({SizeOf(r), Len(source)}) = 0 BY <1>3, <1>5, MinOfTwo
  <2> QED BY <1>1, <1>3, <1>4, <1>5, <2>1
<1>6. CASE SizeOf(r) # 0
  <2>1. StartOf(c, local) /\ Len(local) <= Len(source)
    BY <1>1, <1>2, <1>6, PrefixMeans DEF source
  <2>2. Min({SizeOf(r), Len(source)}) = Len(local) BY <1>1, <1>3, <2>1, MinOfTwo
  <2> QED BY <1>1, <1>3, <1>4, <2>1, <2>2, StartsAgree
<1> QED BY <1>5, <1>6

\* What replaces the local file has all of it, or is of a later content.
LEMMA ReplaceForward ==
    ASSUME MirrorInv, NEW r \in Readers, Replace(r)
    PROVE  Forward(local, local')
<1> USE DEF MirrorInv
<1>1. /\ reader[r].pc = "replace" /\ local' = reader[r].staged
      /\ local' \in Seq(Bytes) /\ reader[r].stamp \in Stamps
  BY DEF Replace, TypeOK, Passes
<1>2. PICK c \in 1..content : SourceOf(r, c) /\ StagesStart(r, c)
  BY <1>1 DEF PassInv, HasSource
<1>3. StartOf(c, local') /\ Len(local') = SizeOf(r)
  BY <1>1, <1>2 DEF StagesStart
<1>4. CASE HasBytes /\ local' # <<>>
  <2>1. local \in Seq(Bytes) /\ local # <<>> /\ local'[1][1] = c
    BY <1>1, <1>3, <1>4, FirstByteTells DEF HasBytes, TypeOK
  <2>2. PICK d \in 1..MaxContents : StartOf(d, local)
    BY <1>4 DEF LocalIsSnapshot, HasBytes
  <2>3. local[1][1] = d
    BY <2>1, <2>2, FirstByteTells
  <2>4. CASE d = c
    BY <1>1, <1>2, <1>3, <1>4, <2>1, <2>2, <2>3, <2>4, StartsAgree DEF SourceOf, Forward
  <2>5. CASE d # c
    BY <1>2, <1>4, <2>1, <2>3, <2>5 DEF SourceOf, Forward, TypeOK
  <2> QED BY <2>4, <2>5
<1>5. CASE ~HasBytes \/ local' = <<>>
  BY <1>5 DEF HasBytes, Forward
<1> QED BY <1>4, <1>5

\* No pass takes the local file for current when it is not, nor anything away
\* from it (412-470), under the same conditions.
THEOREM MirrorLosesNothing ==
    ASSUME OneReader, ~RewritesInRead
    PROVE  Spec => NothingLost
<1>1. MirrorInv /\ [Next]_vars => [Forward(local, local') /\ \A r \in Readers : SkippedIsCurrent(r)]_vars
  <2> SUFFICES ASSUME MirrorInv, Next PROVE Forward(local, local') /\ \A r \in Readers : SkippedIsCurrent(r)
    BY DEF vars
  <2>1. \A r \in Readers : SkippedIsCurrent(r)
    BY SkippedKeeps DEF SkippedIsCurrent
  <2>2. CASE local' = local
    <3>1. local # NoFile => IsPrefix(local, local) BY DEF IsPrefix, MirrorInv, TypeOK
    <3> QED BY <2>1, <2>2, <3>1 DEF Forward
  <2>3. CASE \E r \in Readers : Replace(r)
    BY <2>1, <2>3, ReplaceForward
  <2>4. local' = local \/ \E r \in Readers : Replace(r)
    BY DEF Next, Server, Create, AppendByte, Rotate, Rewrite, Mirror, StatSource, OpenSource, SourceGone, Skip, Compare,
           Copy, Read, SourceShrunk, ReadAll, Ends, LoseConnection, Stop, SetStop, serverVars
  <2> QED BY <2>1, <2>2, <2>3, <2>4
<1> QED BY <1>1, MirrorInvariant, PTL DEF Spec, NothingLost

-----------------------------------------------------------------------------
(* The snapshot of an archive *)

\* What the members of a snapshot are.
LEMMA GroupsAre ==
    ASSUME NEW g
    PROVE  g \in Groups <=> \E ms \in SUBSET Members : g \in [ms -> 1..MaxVersions]
BY DEF Groups

LEMMA NoGroupIs == NoGroup \in Groups /\ DOMAIN NoGroup = {}
<1>1. NoGroup \in [{} -> 1..MaxVersions] BY DEF NoGroup
<1> QED BY <1>1 DEF Groups, NoGroup

LEMMA ArchiveIdleType == ArchiveIdle \in ArchiveReads
BY NoGroupIs, ArchiveAssumption DEF ArchiveIdle, ArchiveReads

LEMMA ArchiveLeft ==
    ASSUME ArchiveInv, NEW r \in Readers, UNCHANGED version,
           LeaveArchive(r) \/ Step(r, [ArchiveIdle EXCEPT !.pc = "done"])
    PROVE  /\ reader' \in [Readers -> ArchiveReads]
           /\ ReadSinceStamp' /\ PublishesStamp'
<1>1. \/ reader' = [reader EXCEPT ![r] = ArchiveIdle]
      \/ reader' = [reader EXCEPT ![r] = [ArchiveIdle EXCEPT !.pc = "done"]]
  BY DEF LeaveArchive, LeaveAs, Step
<1>2. /\ reader' \in [Readers -> ArchiveReads]
      /\ reader'[r].pc \in {"idle", "done"}
      /\ \A p \in Readers \ {r} : reader'[p] = reader[p]
  BY <1>1, ArchiveIdleType DEF ArchiveInv, ArchiveTypeOK, ArchiveIdle, ArchiveReads
<1> QED BY <1>2 DEF ArchiveInv, ReadSinceStamp, PublishesStamp

LEMMA ReadMemberKeeps ==
    ASSUME ArchiveInv, NEW r \in Readers, ReadMember(r)
    PROVE  ArchiveInv'
<1> USE DEF ArchiveInv
<1>1. PICK m \in Members \ DOMAIN reader[r].files :
          reader' = [reader EXCEPT ![r] = [reader[r] EXCEPT !.files =
                        [n \in DOMAIN @ \union {m} |-> IF n = m THEN version ELSE @[n]]]]
  BY DEF ReadMember, Step
<1> DEFINE old == reader[r].files
           new == [n \in DOMAIN old \union {m} |-> IF n = m THEN version ELSE old[n]]
<1>2. /\ reader[r].pc = "read" /\ reader[r].stamp \in 1..version
      /\ version \in 1..MaxVersions
      /\ UNCHANGED <<version, group, stamps, stopped, failures>>
  BY ArchiveAssumption DEF ReadMember, ReadSinceStamp, ArchiveTypeOK
<1>3. new \in Groups
  <2>1. PICK ms \in SUBSET Members : old \in [ms -> 1..MaxVersions]
    BY GroupsAre DEF ArchiveTypeOK, ArchiveReads
  <2>2. new \in [ms \union {m} -> 1..MaxVersions]
    BY <1>2, <2>1
  <2> QED BY <2>2, GroupsAre
<1>4. \A n \in DOMAIN new : new[n] \in reader[r].stamp..version
  BY <1>2 DEF ReadSinceStamp, ArchiveTypeOK
<1>5. reader' = [reader EXCEPT ![r] = [reader[r] EXCEPT !.files = new]]
  BY <1>1 DEF ArchiveTypeOK
<1> HIDE DEF new
<1>6. /\ reader'[r] = [reader[r] EXCEPT !.files = new]
      /\ \A p \in Readers \ {r} : reader'[p] = reader[p]
      /\ reader' \in [Readers -> ArchiveReads]
  BY <1>3, <1>5 DEF ArchiveTypeOK, ArchiveReads
<1>7. ArchiveTypeOK' /\ SnapshotIsVersion'
  BY <1>2, <1>6 DEF ArchiveTypeOK, SnapshotIsVersion
<1>8. reader'[r].pc = "read" /\ reader'[r].stamp = reader[r].stamp /\ reader'[r].files = new
  BY <1>2, <1>6 DEF ArchiveTypeOK
<1> QED BY <1>2, <1>4, <1>6, <1>7, <1>8 DEF ReadSinceStamp, PublishesStamp

LEMMA StatAgainKeeps ==
    ASSUME ArchiveInv, NEW r \in Readers, StatAgain(r)
    PROVE  ArchiveInv'
<1> USE DEF ArchiveInv
<1>1. /\ reader[r].pc = "read" /\ DOMAIN reader[r].files = Members
      /\ version = reader[r].stamp
      /\ reader' = [reader EXCEPT ![r] = [reader[r] EXCEPT !.pc = "publish"]]
      /\ UNCHANGED <<version, group, stamps, stopped, failures>>
  BY DEF StatAgain, Step, AllRead
<1>2. version \in Nat /\ version # 0 /\ \A m \in Members : reader[r].files[m] = version
  <2>1. version \in Nat /\ version # 0 BY <1>1 DEF ReadSinceStamp, ArchiveTypeOK
  <2>2. \A m \in Members : reader[r].files[m] \in version..version BY <1>1 DEF ReadSinceStamp
  <2> QED BY <2>1, <2>2
<1>3. reader[r].files = Snapshot(reader[r].stamp)
  <2>1. \E ms \in SUBSET Members : reader[r].files \in [ms -> 1..MaxVersions]
    BY GroupsAre DEF ArchiveTypeOK, ArchiveReads
  <2> QED BY <1>1, <1>2, <2>1 DEF Snapshot
<1>4. /\ ArchiveTypeOK'
      /\ reader'[r].pc = "publish" /\ reader'[r].stamp = reader[r].stamp
      /\ reader'[r].files = reader[r].files
      /\ \A p \in Readers \ {r} : reader'[p] = reader[p]
  BY <1>1 DEF ArchiveTypeOK, ArchiveReads
<1> QED BY <1>1, <1>2, <1>3, <1>4 DEF ReadSinceStamp, PublishesStamp, SnapshotIsVersion

\* The members of an archive that a parser finds in memory are all of one
\* version of it, however many watchers and jobs read it and publish
\* (_read_archive, 361-367).
THEOREM ArchiveInvariant == ArchiveSpec => []ArchiveInv
<1>1. ArchiveInit => ArchiveInv
  <2> SUFFICES ASSUME ArchiveInit PROVE ArchiveInv OBVIOUS
  <2>1. ArchiveTypeOK BY ArchiveIdleType, NoGroupIs, ArchiveAssumption, ReadersAssumption DEF ArchiveInit, ArchiveTypeOK
  <2>2. \A r \in Readers : reader[r].pc = "idle" BY DEF ArchiveInit, ArchiveIdle
  <2> QED BY <2>1, <2>2 DEF ArchiveInit, ArchiveInv, SnapshotIsVersion, ReadSinceStamp, PublishesStamp
<1>2. ArchiveInv /\ [ArchiveNext]_archiveVars => ArchiveInv'
  <2> SUFFICES ASSUME ArchiveInv, [ArchiveNext]_archiveVars PROVE ArchiveInv' OBVIOUS
  <2> USE DEF ArchiveInv
  <2>1. CASE Change
    BY <2>1, ArchiveAssumption DEF Change, ArchiveTypeOK, SnapshotIsVersion, ReadSinceStamp, PublishesStamp
  <2>2. ASSUME NEW r \in Readers, StatArchive(r) PROVE ArchiveInv'
    <3>1. /\ reader' = [reader EXCEPT ![r] = [ArchiveIdle EXCEPT !.pc = "read", !.stamp = version]]
          /\ version \in 1..MaxVersions
          /\ UNCHANGED <<version, group, stamps, stopped, failures>>
      BY <2>2, ArchiveAssumption DEF StatArchive, Step, ArchiveTypeOK
    <3>2. /\ ArchiveTypeOK'
          /\ reader'[r].pc = "read" /\ reader'[r].stamp = version /\ reader'[r].files = NoGroup
          /\ \A p \in Readers \ {r} : reader'[p] = reader[p]
      BY <3>1, ArchiveIdleType DEF ArchiveTypeOK, ArchiveIdle, ArchiveReads
    <3> QED BY <3>1, <3>2, NoGroupIs DEF ArchiveTypeOK, SnapshotIsVersion, ReadSinceStamp, PublishesStamp
  <2>3. ASSUME NEW r \in Readers, ReadMember(r) PROVE ArchiveInv'
    BY <2>3, ReadMemberKeeps
  <2>4. ASSUME NEW r \in Readers, StatAgain(r) PROVE ArchiveInv'
    BY <2>4, StatAgainKeeps
  <2>5. ASSUME NEW r \in Readers, ArchiveChanged(r) \/ EndsArchive(r) PROVE ArchiveInv'
    BY <2>5, ArchiveLeft DEF ArchiveChanged, EndsArchive, ArchiveTypeOK, SnapshotIsVersion
  <2>6. ASSUME NEW r \in Readers, Publish(r) PROVE ArchiveInv'
    <3>1. /\ group' = Snapshot(reader[r].stamp) /\ reader[r].stamp \in 1..MaxVersions
          /\ group' \in Groups /\ stamps' \in [Readers -> 0..MaxVersions]
          /\ UNCHANGED <<version, stopped, failures>>
          /\ LeaveArchive(r)
      BY <2>6 DEF Publish, PublishesStamp, ArchiveTypeOK, ArchiveReads
    <3> QED BY <3>1, ArchiveLeft DEF ArchiveTypeOK, SnapshotIsVersion
  <2>7. ASSUME NEW r \in Readers, FailArchive(r) PROVE ArchiveInv'
    <3>1. failures' \in 0..MaxFailures /\ LeaveArchive(r) /\ UNCHANGED <<version, group, stamps, stopped>>
      BY <2>7, ReadersAssumption DEF FailArchive, LoseRead, ArchiveTypeOK
    <3> QED BY <3>1, ArchiveLeft DEF ArchiveTypeOK, SnapshotIsVersion
  <2>8. ASSUME NEW r \in Readers, StopArchiveReader(r) PROVE ArchiveInv'
    BY <2>8 DEF StopArchiveReader, SetStop, ArchiveTypeOK, SnapshotIsVersion, ReadSinceStamp, PublishesStamp
  <2>9. CASE UNCHANGED archiveVars
    BY <2>9 DEF archiveVars, ArchiveTypeOK, SnapshotIsVersion, ReadSinceStamp, PublishesStamp
  <2> QED BY <2>1, <2>2, <2>3, <2>4, <2>5, <2>6, <2>7, <2>8, <2>9 DEF ArchiveNext, ReadsOn
<1> QED BY <1>1, <1>2, PTL DEF ArchiveSpec
=============================================================================
