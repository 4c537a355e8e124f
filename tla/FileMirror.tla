----------------------------- MODULE FileMirror -----------------------------
(***************************************************************************)
(* The local copy of a remote source file (remote_logs.py, 296-311 and     *)
(* 414-521).  The server appends to the file, rotates it or rewrites it;   *)
(* readers bring the local file up to date: the watcher of a live session  *)
(* again and again, a background job once.  A reader compares both ends of *)
(* the local file with the remote one, reads only what was appended if     *)
(* they agree and else all of it, and puts a private staging file in place.*)
(*                                                                         *)
(* A byte is the pair of the content it was written for and its position:  *)
(* two ends of a log agree only where it is the same log.                  *)
(***************************************************************************)
EXTENDS RemoteReaders, Sequences, SequencesExt, FiniteSetsExt

CONSTANTS
    Edge,           \* bytes compared at each end (256)
    Chunk,          \* bytes of a read (262144)
    RewritesInRead, \* whether the server may truncate a file that is being read
    MaxContents,    \* bound: contents the file has one after another
    MaxLength,      \* bound: its length
    MaxSeconds      \* bound: changes of its modification time

ASSUME MirrorAssumption ==
    /\ {Edge, Chunk, MaxContents} \subseteq Nat \ {0}
    /\ {MaxLength, MaxSeconds} \subseteq Nat
    /\ RewritesInRead \in BOOLEAN

VARIABLES
    files,          \* what the server's disk has: by the content first written to it
    path,           \* the file the remote name stands for, 0 for none
    content,        \* the last content begun
    mtime,          \* the modification time of that file, in seconds
    local           \* the local file, or NoFile

serverVars == <<files, path, content, mtime>>
vars == <<serverVars, local, stamps, reader, stopped, failures>>

Bytes == (1..MaxContents) \X (1..MaxLength)
NoFile == <<<<0, 0>>>>
NoStamp == <<-1, -1>>
Stamps == {NoStamp} \union ((0..MaxLength) \X (0..MaxSeconds))

Idle == [pc |-> "idle", stamp |-> NoStamp, source |-> 0, oldSize |-> 0, start |-> 0, staged |-> <<>>, offset |-> 0]
Passes == [pc : {"idle", "open", "compare", "copy", "read", "replace", "done"}, stamp : Stamps, source : 0..MaxContents,
           oldSize : Nat, start : Nat, staged : Seq(Bytes), offset : Nat]

TypeOK ==
    /\ files \in [1..MaxContents -> Seq(Bytes)]
    /\ path \in 0..MaxContents
    /\ content \in 0..MaxContents
    /\ mtime \in 0..MaxSeconds
    /\ local = NoFile \/ local \in Seq(Bytes)
    /\ stamps \in [Readers -> Stamps]
    /\ reader \in [Readers -> Passes]
    /\ stopped \subseteq Readers
    /\ failures \in 0..MaxFailures

Init ==
    /\ files = [f \in 1..MaxContents |-> <<>>]
    /\ path = 0 /\ content = 0 /\ mtime = 0
    /\ local = NoFile
    /\ stamps = [r \in Readers |-> NoStamp]
    /\ reader = [r \in Readers |-> Idle]
    /\ stopped = {} /\ failures = 0

-----------------------------------------------------------------------------
(* The server *)

\* A change in the same second as the last, or in a later one.
Touch == mtime' \in {mtime, mtime + 1} /\ mtime' <= MaxSeconds

Create ==
    /\ path = 0 /\ content < MaxContents
    /\ content' = content + 1 /\ path' = content + 1
    /\ Touch
    /\ UNCHANGED <<files, local, stamps, reader, stopped, failures>>

AppendByte ==
    /\ path # 0 /\ Len(files[path]) < MaxLength
    /\ files' = [files EXCEPT ![path] = Append(@, <<content, Len(@) + 1>>)]
    /\ Touch
    /\ UNCHANGED <<path, content, local, stamps, reader, stopped, failures>>

\* The file gets another name; whoever has it open still reads it.
Rotate ==
    /\ path # 0
    /\ path' = 0
    /\ UNCHANGED <<files, content, mtime, local, stamps, reader, stopped, failures>>

\* The file is truncated to be written anew.
Rewrite ==
    /\ RewritesInRead \/ \A r \in Readers : reader[r].pc \in {"idle", "done"}
    /\ path # 0 /\ content < MaxContents
    /\ content' = content + 1
    /\ files' = [files EXCEPT ![path] = <<>>]
    /\ Touch
    /\ UNCHANGED <<path, local, stamps, reader, stopped, failures>>

Server == Create \/ AppendByte \/ Rotate \/ Rewrite

-----------------------------------------------------------------------------
(* The readers *)

\* _mirror_file returns or raises.
Leave(r) == LeaveAs(r, Idle)

StatSource(r) ==
    /\ reader[r].pc = "idle" /\ r \notin stopped
    /\ path # 0
    /\ Step(r, [Idle EXCEPT !.pc = "open", !.stamp = <<Len(files[path]), mtime>>])
    /\ UNCHANGED <<serverVars, local, stamps, stopped, failures>>

LocalSize == IF local = NoFile THEN 0 ELSE Len(local)

OpenSource(r) ==
    /\ reader[r].pc = "open"
    /\ path # 0
    /\ Step(r, [reader[r] EXCEPT !.pc = "compare", !.source = path, !.oldSize = LocalSize])
    /\ UNCHANGED <<serverVars, local, stamps, stopped, failures>>

\* "Rotation can remove a file between listing and open."  A job may also
\* find it gone when it asks for its size.
SourceGone(r) ==
    /\ reader[r].pc \in (IF r \in Jobs THEN {"idle", "open"} ELSE {"open"})
    /\ path = 0
    /\ Leave(r)
    /\ UNCHANGED <<serverVars, local, stamps, stopped, failures>>

SizeOf(r) == reader[r].stamp[1]
RemoteBytes(r, first, last) == SubSeq(files[reader[r].source], first, Min({last, Len(files[reader[r].source])}))

\* Mutant: only the sizes are compared.
PrefixBySize(r) == local # NoFile /\ reader[r].oldSize <= SizeOf(r)

\* Both ends of the local file are those of the remote one at its size.
PrefixOk(r) ==
    LET old == reader[r].oldSize
        tail == Max({0, old - Edge}) + 1
    IN  /\ local # NoFile /\ old <= SizeOf(r)
        /\ LET head == SubSeq(local, 1, Min({Edge, old, Len(local)})) IN RemoteBytes(r, 1, Len(head)) = head
        /\ RemoteBytes(r, tail, old) = SubSeq(local, tail, Len(local))

\* Mutant: an unchanged stamp is enough.
UnchangedByStamp(r) == stamps[r] = reader[r].stamp

\* Nothing to read.
Unchanged(r) == PrefixOk(r) /\ reader[r].oldSize = SizeOf(r) /\ stamps[r] = reader[r].stamp

Skip(r) ==
    /\ reader[r].pc = "compare"
    /\ Unchanged(r)
    /\ Leave(r)
    /\ UNCHANGED <<serverVars, local, stamps, stopped, failures>>

\* Mutant: what is there is appended to, whatever the server has now.
CompareNothing(r) ==
    /\ reader[r].pc = "compare"
    /\ ~Unchanged(r)
    /\ Step(r, [reader[r] EXCEPT !.pc = "copy", !.start = Min({reader[r].oldSize, SizeOf(r)})])
    /\ UNCHANGED <<serverVars, local, stamps, stopped, failures>>

\* Only what was appended is read, or everything.
Compare(r) ==
    /\ reader[r].pc = "compare"
    /\ ~Unchanged(r)
    /\ Step(r, [reader[r] EXCEPT !.pc = "copy",
                   !.start = IF PrefixOk(r) /\ reader[r].oldSize < SizeOf(r) THEN reader[r].oldSize ELSE 0])
    /\ UNCHANGED <<serverVars, local, stamps, stopped, failures>>

\* The staging file starts as a copy of the local file.
Copy(r) ==
    /\ reader[r].pc = "copy"
    /\ Step(r, [reader[r] EXCEPT !.pc = "read", !.offset = reader[r].start,
                   !.staged = IF reader[r].start > 0 THEN local ELSE <<>>])
    /\ UNCHANGED <<serverVars, local, stamps, stopped, failures>>

NextChunk(r) == RemoteBytes(r, reader[r].offset + 1, Min({reader[r].offset + Chunk, SizeOf(r)}))

Read(r) ==
    /\ reader[r].pc = "read" /\ r \notin stopped
    /\ reader[r].offset < SizeOf(r)
    /\ NextChunk(r) # <<>>
    /\ Step(r, [reader[r] EXCEPT !.staged = @ \o NextChunk(r), !.offset = @ + Len(NextChunk(r))])
    /\ UNCHANGED <<serverVars, local, stamps, stopped, failures>>

\* "Remote file changed while reading; retrying"
SourceShrunk(r) ==
    /\ reader[r].pc = "read" /\ r \notin stopped
    /\ reader[r].offset < SizeOf(r)
    /\ NextChunk(r) = <<>>
    /\ Leave(r)
    /\ UNCHANGED <<serverVars, local, stamps, stopped, failures>>

ReadAll(r) ==
    /\ reader[r].pc = "read" /\ r \notin stopped
    /\ reader[r].offset = SizeOf(r)
    /\ Step(r, [reader[r] EXCEPT !.pc = "replace"])
    /\ UNCHANGED <<serverVars, local, stamps, stopped, failures>>

\* staged.replace(local); the watcher remembers the stamp.
Replace(r) ==
    /\ reader[r].pc = "replace"
    /\ local' = reader[r].staged
    /\ stamps' = IF r \in Watchers THEN [stamps EXCEPT ![r] = reader[r].stamp] ELSE stamps
    /\ Leave(r)
    /\ UNCHANGED <<serverVars, stopped, failures>>

\* The connection is lost: the staging file is removed and a watcher connects
\* again with the stamps it has.
LoseConnection(r) ==
    /\ reader[r].pc \in {"open", "compare", "read"}
    /\ LoseRead
    /\ Leave(r)
    /\ UNCHANGED <<serverVars, local, stamps, stopped>>

Stop(r) ==
    /\ SetStop(r)
    /\ UNCHANGED <<serverVars, local>>

\* Mutant: a reader notices only between its passes.
EndsIdle(r) ==
    /\ r \in stopped
    /\ reader[r].pc = "idle"
    /\ Step(r, [Idle EXCEPT !.pc = "done"])
    /\ UNCHANGED <<serverVars, local, stamps, stopped, failures>>

\* A reader notices between its passes and before each chunk; close() also
\* closes the connection of a watcher.
Ends(r) ==
    /\ r \in stopped
    /\ reader[r].pc \in {"idle", "read"} \union (IF r \in Watchers THEN {"open", "compare"} ELSE {})
    /\ Step(r, [Idle EXCEPT !.pc = "done"])
    /\ UNCHANGED <<serverVars, local, stamps, stopped, failures>>

Mirror(r) ==
    StatSource(r) \/ OpenSource(r) \/ SourceGone(r) \/ Skip(r) \/ Compare(r) \/ Copy(r)
    \/ Read(r) \/ SourceShrunk(r) \/ ReadAll(r) \/ Replace(r) \/ Ends(r)

Next == Server \/ \E r \in Readers : Mirror(r) \/ LoseConnection(r) \/ Stop(r)

Spec == Init /\ [][Next]_vars

\* A reader goes on by itself: a remote read ends or times out (15 or 30 s).
LiveSpec == Spec /\ \A r \in Readers : WF_vars(Mirror(r))
-----------------------------------------------------------------------------
\* These bytes are the start of content c.
StartOf(c, bytes) == \A i \in 1..Len(bytes) : bytes[i] = <<c, i>>

(***************************************************************************)
(* "publish only complete, bounded snapshots" (remote_logs.py:297): what   *)
(* the parser reads is the start of one content the server has written,    *)
(* never parts of two, nor one part twice.                                 *)
(***************************************************************************)
LocalIsSnapshot == local # NoFile => \E c \in 1..MaxContents : StartOf(c, local)

\* The file of the remote name is the start of the last content, the others
\* are starts of older ones.
WrittenInOrder ==
    /\ path # 0 => path <= content /\ StartOf(content, files[path])
    /\ \A f \in 1..MaxContents :
           /\ f > content => files[f] = <<>>
           /\ f # path => \E c \in 1..MaxContents :
                  StartOf(c, files[f]) /\ (files[f] # <<>> => c <= content /\ (path # 0 => c < content))

HasBytes == local \notin {NoFile, <<>>}

\* The local file is never ahead of the remote one.
LocalIsPast ==
    HasBytes => /\ local[1][1] <= content
                /\ path # 0 /\ local[1][1] = content => Len(local) <= Len(files[path])

InPass(r) == reader[r].pc \in {"open", "compare", "copy", "read", "replace"}
HasSource(r) == reader[r].pc \in {"compare", "copy", "read", "replace"}

\* What a reader has opened is the start of content c, and the local file is of
\* an older one or, of the same, not longer than the size that was asked for ...
SourceOf(r, c) ==
    /\ StartOf(c, files[reader[r].source])
    /\ IF reader[r].source = path THEN c = content ELSE path # 0 => c < content
    /\ HasBytes => local[1][1] <= c /\ (local[1][1] = c => Len(local) <= SizeOf(r))

\* ... and the staging file is the start of it too: what was appended goes on
\* where the local file ends.
StagesStart(r, c) ==
    /\ reader[r].pc \in {"copy", "read", "replace"} /\ reader[r].start > 0 =>
           /\ HasBytes /\ Len(local) = reader[r].start /\ StartOf(c, local)
           /\ Len(local) <= SizeOf(r) /\ Len(local) <= Len(files[reader[r].source])
    /\ reader[r].pc \in {"read", "replace"} =>
           /\ StartOf(c, reader[r].staged)
           /\ reader[r].offset = Len(reader[r].staged)
           /\ reader[r].offset \in reader[r].start..SizeOf(r)
           /\ reader[r].offset <= Len(files[reader[r].source])
    /\ reader[r].pc = "replace" => reader[r].offset = SizeOf(r)

PassInv(r) ==
    /\ InPass(r) => reader[r].stamp # NoStamp
    /\ reader[r].pc = "open" /\ path # 0 /\ HasBytes /\ local[1][1] = content => Len(local) <= SizeOf(r)
    /\ HasSource(r) =>
           /\ reader[r].source \in 1..content
           /\ \E c \in 1..content : SourceOf(r, c) /\ StagesStart(r, c)
    /\ reader[r].pc = "compare" => reader[r].oldSize = LocalSize

(***************************************************************************)
(* The parser's file is such a snapshot, while a reader stats, compares,   *)
(* copies and reads in its own staging file (412-470).  This holds with    *)
(* one reader, of a file that is not truncated while it is read.           *)
(***************************************************************************)
MirrorInv == TypeOK /\ LocalIsSnapshot /\ WrittenInOrder /\ LocalIsPast /\ \A r \in Readers : PassInv(r)

(***************************************************************************)
(* A reader that finds nothing new has found a local file that is the      *)
(* remote one at the size it asked for, however coarse the server's times. *)
(***************************************************************************)
SkippedIsCurrent(r) == Skip(r) => local = RemoteBytes(r, 1, SizeOf(r))

(***************************************************************************)
(* "A private staging file prevents the parser from seeing an interrupted  *)
(* read" (417): with one reader the local file only goes forward, to more  *)
(* of its content or to a later one.                                       *)
(***************************************************************************)
Forward(old, new) ==
    \/ old = NoFile \/ old = <<>>
    \/ IsPrefix(old, new)
    \/ new # <<>> /\ old[1][1] < new[1][1]
    \/ new = <<>>

(***************************************************************************)
(* No pass loses what the server has written: it neither takes the local   *)
(* file for current when it is not, nor takes anything away from it.       *)
(***************************************************************************)
NothingLost == [][Forward(local, local') /\ \A r \in Readers : SkippedIsCurrent(r)]_vars

(***************************************************************************)
(* "updates the list for the selected bank as its source files change"     *)
(* (README.md:94): while a watcher runs, the local file becomes the remote *)
(* one when the server stops writing, whatever was mirrored before.        *)
(***************************************************************************)
Follows ==
    \A r \in Watchers : []<>(r \in stopped \/ path = 0 \/ local = files[path])

(***************************************************************************)
(* close() and the end of the day end a reader.                            *)
(***************************************************************************)
StopEnds == \A r \in Readers : r \in stopped ~> reader[r].pc = "done"
=============================================================================
