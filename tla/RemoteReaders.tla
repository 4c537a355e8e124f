----------------------------- MODULE RemoteReaders -----------------------------
(***************************************************************************)
(* The threads that read remote sources (remote_logs.py): the watcher of a *)
(* live session, pass after pass, and the job of an import, once.  What    *)
(* they read is in FileMirror and ArchiveMirror.                           *)
(***************************************************************************)
EXTENDS Integers

CONSTANTS
    Watchers,       \* RemoteSourceWatcher threads that read the source
    Jobs,           \* RemoteAuditJob threads that read it once
    MaxFailures     \* bound: lost connections and corrupt reads

ASSUME ReadersAssumption == Watchers \intersect Jobs = {} /\ MaxFailures \in Nat

Readers == Watchers \union Jobs

VARIABLES
    stamps,         \* what a reader remembers of the source it has read
    reader,         \* what each reader is doing
    stopped,        \* readers whose stop_event or cancel_event is set, or whose day is over
    failures        \* failed reads so far

Step(r, fields) == reader' = [reader EXCEPT ![r] = fields]

\* The read returns or raises: a watcher goes on to its next pass.
LeaveAs(r, idle) == Step(r, IF r \in Watchers THEN idle ELSE [idle EXCEPT !.pc = "done"])

LoseRead ==
    /\ failures < MaxFailures
    /\ failures' = failures + 1

SetStop(r) ==
    /\ r \notin stopped
    /\ stopped' = stopped \union {r}
    /\ UNCHANGED <<stamps, reader, failures>>
=============================================================================
