----------------------------- MODULE ExportFiles -----------------------------
(***************************************************************************)
(* The files that transactions are exported to (split_audit_files,         *)
(* write_outputs, export_logs).  A uid is a record                         *)
(*   id      which one of those that are cleaned to the same name          *)
(*   name    cleaned and in lower case: its parts between underscores      *)
(*   upper   whether the cleaned uid has capitals                          *)
(* and a block of an audit [owner (a uid), process, direction, time].      *)
(***************************************************************************)
EXTENDS Naturals, Sequences, SequencesExt, FiniteSetsExt, TLC

FirstIndex(blocks, uid) == Min({i \in DOMAIN blocks : blocks[i].owner = uid})

\* build_filenames: of uids with one name only the first gets it.
FileNames(blocks, uids) ==
    LET inOrder == SetToSortSeq(uids, LAMBDA u, v : FirstIndex(blocks, u) < FirstIndex(blocks, v))
        Named(files, uid) ==
            LET used == \E other \in DOMAIN files : files[other].name = uid.name
                first == ToString(FirstIndex(blocks, uid))
            IN  (uid :> [name |-> IF used THEN Append(uid.name, first) ELSE uid.name, upper |-> uid.upper]) @@ files
    IN  FoldLeft(Named, <<>>, inOrder)

\* The options of an export.
Selected(block, options) ==
    /\ options.protocol = "SPDH" => block.process = "PTMS"
    /\ options.protocol = "ISO" => block.process = "OPN"
    /\ block.direction \in options.directions

\* Blocks of one file are in order of time, those without one last.
WrittenBefore(blocks, i, j) ==
    LET time(k) == IF blocks[k].time = 0 THEN 1 ELSE 0
    IN  \/ time(i) < time(j)
        \/ time(i) = time(j) /\ (blocks[i].time < blocks[j].time \/ (blocks[i].time = blocks[j].time /\ i < j))

\* write_outputs: the files, each the indexes of its blocks; a selected
\* transaction has a file even if no block of it is.
Files(blocks, uids, options) ==
    LET names == FileNames(blocks, uids)
        of(file) == {i \in DOMAIN blocks : blocks[i].owner \in uids /\ names[blocks[i].owner] = file /\ Selected(blocks[i], options)}
    IN  [file \in {names[uid] : uid \in uids} |-> SetToSortSeq(of(file), LAMBDA i, j : WrittenBefore(blocks, i, j))]

\* export_logs: what is shown of a uid is the file of its cleaned
\* name, whatever name the export has given.
PathOf(uid) == [name |-> uid.name, upper |-> uid.upper]
CanExport(blocks, uids) == \A uid \in uids : PathOf(uid) \in {FileNames(blocks, uids)[u] : u \in uids}
=============================================================================
