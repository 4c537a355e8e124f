---------------------------- MODULE ArchiveMirror ----------------------------
(***************************************************************************)
(* The snapshot of a compressed remote archive of the current day          *)
(* (_read_archive of remote_logs.py and source_memory.py).  A reader asks  *)
(* for size and time, reads the members one after another, asks again, and *)
(* publishes all members at once if the archive has not changed meanwhile. *)
(*                                                                         *)
(* The server's archive is known by its version; every version has another *)
(* size or time.                                                           *)
(***************************************************************************)
EXTENDS RemoteReaders

CONSTANTS
    Members,        \* the members of the archive
    MaxVersions     \* bound: versions of the archive

ASSUME ArchiveAssumption == Members # {} /\ MaxVersions \in Nat

NoGroup == [m \in {} |-> 0]
Groups == UNION {[ms -> 1..MaxVersions] : ms \in SUBSET Members}

VARIABLES
    version,        \* the server's archive, 0 for none
    group           \* the archive's entry in _GROUPS, or NoGroup

archiveVars == <<version, group, stamps, reader, stopped, failures>>

ArchiveIdle == [pc |-> "idle", stamp |-> 0, files |-> NoGroup]
ArchiveReads == [pc : {"idle", "read", "publish", "done"}, stamp : 0..MaxVersions, files : Groups]

ArchiveTypeOK ==
    /\ version \in 0..MaxVersions
    /\ group \in Groups
    /\ stamps \in [Readers -> 0..MaxVersions]
    /\ reader \in [Readers -> ArchiveReads]
    /\ stopped \subseteq Readers
    /\ failures \in 0..MaxFailures

\* All members as they are in one version of the archive.
Snapshot(v) == [m \in Members |-> v]

ArchiveInit ==
    /\ version = 0
    /\ group = NoGroup
    /\ stamps = [r \in Readers |-> 0]
    /\ reader = [r \in Readers |-> ArchiveIdle]
    /\ stopped = {} /\ failures = 0

\* The server replaces or rewrites the archive.
Change ==
    /\ version < MaxVersions
    /\ version' = version + 1
    /\ UNCHANGED <<group, stamps, reader, stopped, failures>>

\* _read_archive returns or raises.
LeaveArchive(r) == LeaveAs(r, ArchiveIdle)

\* "previous == stamp": nothing new.
SameArchive(r) == stamps[r] = version

StatArchive(r) ==
    /\ reader[r].pc = "idle" /\ r \notin stopped
    /\ version > 0 /\ ~SameArchive(r)
    /\ Step(r, [ArchiveIdle EXCEPT !.pc = "read", !.stamp = version])
    /\ UNCHANGED <<version, group, stamps, stopped, failures>>

ReadMember(r) ==
    /\ reader[r].pc = "read" /\ r \notin stopped
    /\ \E m \in Members \ DOMAIN reader[r].files :
           Step(r, [reader[r] EXCEPT !.files = [n \in DOMAIN @ \union {m} |-> IF n = m THEN version ELSE @[n]]])
    /\ UNCHANGED <<version, group, stamps, stopped, failures>>

AllRead(r) == DOMAIN reader[r].files = Members

\* Mutant: the archive is not asked for again.
CheckNothingAgain(r) ==
    /\ reader[r].pc = "read" /\ r \notin stopped
    /\ AllRead(r)
    /\ Step(r, [reader[r] EXCEPT !.pc = "publish"])
    /\ UNCHANGED <<version, group, stamps, stopped, failures>>

\* The archive has still the size and time it had before the read.
StatAgain(r) ==
    /\ reader[r].pc = "read" /\ r \notin stopped
    /\ AllRead(r)
    /\ version = reader[r].stamp
    /\ Step(r, [reader[r] EXCEPT !.pc = "publish"])
    /\ UNCHANGED <<version, group, stamps, stopped, failures>>

\* Mutant: the new stamp is remembered although nothing was published.
ChangedRemembering(r) ==
    /\ reader[r].pc = "read" /\ r \notin stopped
    /\ AllRead(r)
    /\ version # reader[r].stamp
    /\ stamps' = [stamps EXCEPT ![r] = version]
    /\ LeaveArchive(r)
    /\ UNCHANGED <<version, group, stopped, failures>>

\* "Remote archive changed while reading; retrying"
ArchiveChanged(r) ==
    /\ reader[r].pc = "read" /\ r \notin stopped
    /\ AllRead(r)
    /\ version # reader[r].stamp
    /\ LeaveArchive(r)
    /\ UNCHANGED <<version, group, stamps, stopped, failures>>

\* source_memory.publish; the watcher remembers the stamp.
Publish(r) ==
    /\ reader[r].pc = "publish"
    /\ group' = reader[r].files
    /\ stamps' = IF r \in Watchers THEN [stamps EXCEPT ![r] = reader[r].stamp] ELSE stamps
    /\ LeaveArchive(r)
    /\ UNCHANGED <<version, stopped, failures>>

\* The connection is lost, or what was read is corrupt.
FailArchive(r) ==
    /\ reader[r].pc = "read"
    /\ LoseRead
    /\ LeaveArchive(r)
    /\ UNCHANGED <<version, group, stamps, stopped>>

StopArchiveReader(r) ==
    /\ SetStop(r)
    /\ UNCHANGED <<version, group>>

\* A reader notices between passes, members and chunks.
EndsArchive(r) ==
    /\ r \in stopped
    /\ reader[r].pc \in {"idle", "read"}
    /\ Step(r, [ArchiveIdle EXCEPT !.pc = "done"])
    /\ UNCHANGED <<version, group, stamps, stopped, failures>>

ReadsOn(r) ==
    StatArchive(r) \/ ReadMember(r) \/ StatAgain(r) \/ ArchiveChanged(r) \/ Publish(r) \/ EndsArchive(r)

ArchiveNext == Change \/ \E r \in Readers : ReadsOn(r) \/ FailArchive(r) \/ StopArchiveReader(r)

ArchiveSpec == ArchiveInit /\ [][ArchiveNext]_archiveVars

\* A reader goes on by itself: a remote read ends or times out (15 s).
ArchiveLiveSpec == ArchiveSpec /\ \A r \in Readers : WF_archiveVars(ReadsOn(r))
-----------------------------------------------------------------------------
(***************************************************************************)
(* "publish only complete, bounded snapshots" (remote_logs.py:297): the    *)
(* members a parser finds in memory are all those of one version of the    *)
(* archive, although they were read one after another.                     *)
(***************************************************************************)
SnapshotIsVersion ==
    group # NoGroup => \E v \in 1..MaxVersions : group = Snapshot(v)

\* What a reader has read of the archive is at least as new as its stamp ...
ReadSinceStamp ==
    \A r \in Readers : reader[r].pc = "read" =>
        /\ reader[r].stamp \in 1..version
        /\ \A m \in DOMAIN reader[r].files : reader[r].files[m] \in reader[r].stamp..version

\* ... and what it is about to publish is the version of its stamp.
PublishesStamp ==
    \A r \in Readers : reader[r].pc = "publish" =>
        /\ reader[r].stamp # 0
        /\ reader[r].files = Snapshot(reader[r].stamp)

(***************************************************************************)
(* The group in memory is such a snapshot, while several readers read the  *)
(* archive and any of them may publish (361-367).                          *)
(***************************************************************************)
ArchiveInv == ArchiveTypeOK /\ SnapshotIsVersion /\ ReadSinceStamp /\ PublishesStamp

(***************************************************************************)
(* "updates the list for the selected bank as its source files change"     *)
(* (README.md:94): once the background job has ended, a version that the   *)
(* watcher has not read becomes the snapshot, or the archive has changed   *)
(* again.  (While the job runs it may publish an older version last.)      *)
(***************************************************************************)
ArchiveFollows ==
    \A r \in Watchers, v \in 1..MaxVersions :
        (version = v /\ stamps[r] # v /\ \A j \in Jobs : reader[j].pc = "done")
            ~> (r \in stopped \/ version # v \/ group = Snapshot(v))
=============================================================================
