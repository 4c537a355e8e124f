----------------------------- MODULE LoadService -----------------------------
(***************************************************************************)
(* Loading the rows of a bank (web_services.py).  Browser sessions load    *)
(* and export in the foreground; background jobs prepare the other banks   *)
(* of the day (prepare_bank_results).  One lock, CORE_LOCK, serialises the *)
(* parser; a counter of foreground requests makes background jobs give     *)
(* way; finished rows are kept in LOADED_CACHE under the signature of the  *)
(* source files, parsed audits in SCAN_CACHE under the stamps of the       *)
(* audits.  The files change at any moment.                                *)
(*                                                                         *)
(* Each step is one access to something another thread can change: a stat  *)
(* or listing of the folder, the read of one file, a cache or the lock.    *)
(***************************************************************************)
EXTENDS LogSources, Sequences, SequencesExt

CONSTANTS
    Callers,      \* browser sessions
    Workers,      \* background preparation jobs
    NoOne,        \* nobody holds CORE_LOCK
    BankOrder,    \* the banks a background job prepares, in order
    ScanLimit,    \* entries SCAN_CACHE keeps (4)
    ReadyLimit,   \* entries LOADED_CACHE keeps (one per bank code)
    RowCount,     \* table rows of each bank
    ReadyRowLimit \* rows LOADED_CACHE keeps in all (250 000)

Procs == Callers \union Workers

ASSUME ServiceAssumption ==
    /\ Callers \intersect Workers = {}
    /\ IsFiniteSet(Callers)
    /\ NoOne \notin Procs
    /\ BankOrder \in Seq(Banks)
    /\ ScanLimit \in Nat \ {0}
    /\ ReadyLimit \in Nat \ {0}
    /\ RowCount \in [Banks -> Nat]
    /\ ReadyRowLimit \in Nat

VARIABLES
    version,            \* content of every source file
    coreLock,           \* CORE_LOCK: its owner
    foregroundRequests, \* foreground_requests
    foregroundPending,  \* FOREGROUND_PENDING.is_set()
    scanCache,          \* SCAN_CACHE, least recently used first
    loadedCache,        \* LOADED_CACHE, least recently used first
    pc,                 \* where each thread is
    bank,               \* the bank of its call
    asked,              \* the bank's sources when the call began
    signature,          \* its local `signature`
    listed,             \* its local `logs` and `audits`
    key,                \* its local `scan_key`
    seen,               \* the content its transactions and findings are from
    answer,             \* the last result each session was given
    todo,               \* the banks each job has yet to prepare
    cancelled           \* jobs whose cancel_event is set

locals == <<bank, asked, signature, listed, key, seen>>
priority == <<foregroundRequests, foregroundPending>>
caches == <<scanCache, loadedCache>>
vars == <<version, coreLock, priority, caches, pc, locals, answer, todo, cancelled>>

\* Phases under CORE_LOCK in which _load_logs may raise.
Loading == {"list", "sign", "key", "scan", "diagnose"}
Critical == Loading \union {"publish", "release", "export"}
\* Phases inside foreground_request().
Foreground == {"wait", "exportwait", "exit"} \union Critical
Phases == {"idle", "next", "lookup", "enter", "gate", "try", "pause", "finished"}
          \union Foreground

ReadyEntry == [bank : Banks, signature : Stamps, rows : Stamps]
ScanEntry == [key : Stamps, seen : Stamps]

TypeOK ==
    /\ version \in Stamps
    /\ coreLock \in Procs \union {NoOne}
    /\ foregroundRequests \in Nat
    /\ foregroundPending \in BOOLEAN
    /\ scanCache \in Seq(ScanEntry)
    /\ loadedCache \in Seq(ReadyEntry)
    /\ pc \in [Procs -> Phases]
    /\ bank \in [Procs -> Banks]
    /\ asked \in [Procs -> Stamps]
    /\ signature \in [Procs -> Stamps]
    /\ listed \in [Procs -> SUBSET Files]
    /\ key \in [Procs -> Stamps]
    /\ seen \in [Procs -> Stamps]
    /\ answer \in [Callers -> Answers \union {NoAnswer}]
    /\ todo \in [Workers -> Seq(Banks)]
    /\ cancelled \in SUBSET Workers

Init ==
    /\ version = [f \in Files |-> IF f \in LateFiles THEN 0 ELSE 1]
    /\ coreLock = NoOne
    /\ foregroundRequests = 0
    /\ foregroundPending = FALSE
    /\ scanCache = <<>>
    /\ loadedCache = <<>>
    /\ pc = [p \in Procs |-> IF p \in Callers THEN "idle" ELSE "next"]
    /\ bank = [p \in Procs |-> SomeBank]
    /\ asked = [p \in Procs |-> Nothing]
    /\ signature = [p \in Procs |-> Nothing]
    /\ listed = [p \in Procs |-> {}]
    /\ key = [p \in Procs |-> Nothing]
    /\ seen = [p \in Procs |-> Nothing]
    /\ answer = [c \in Callers |-> NoAnswer]
    /\ todo = [w \in Workers |-> BankOrder]
    /\ cancelled = {}

-----------------------------------------------------------------------------
(* Helpers *)

Goto(p, phase) == pc' = [pc EXCEPT ![p] = phase]

\* checkpoint(): a background job raises PreparationInterrupted when it has
\* been cancelled or a foreground request is pending.
MayProceed(p) == p \in Workers => p \notin cancelled /\ ~foregroundPending

MovedToEnd(cache, i) == Append(RemoveAt(cache, i), cache[i])

\* OrderedDict: setting bank b's result puts it last, in place of the old one.
Stored(cache, entry) ==
    IF \E i \in DOMAIN cache : cache[i].bank = entry.bank
    THEN Append(RemoveAt(cache, CHOOSE i \in DOMAIN cache : cache[i].bank = entry.bank), entry)
    ELSE Append(cache, entry)

RowsHeld(cache) == FoldSeq(LAMBDA entry, n : RowCount[entry.bank] + n, 0, cache)

ReadyFits(cache) ==
    Len(cache) > 1 => Len(cache) <= ReadyLimit /\ RowsHeld(cache) <= ReadyRowLimit

\* Mutant: the bank's result is reused whatever it was read from.
ReadyForBank(p, s) == {i \in DOMAIN loadedCache : loadedCache[i].bank = bank[p]}

ReadyHits(p, s) ==
    {i \in DOMAIN loadedCache : loadedCache[i].bank = bank[p] /\ loadedCache[i].signature = s}

\* load_logs has a result: the session is given it, or the job is done with
\* this bank.
Return(p, rows) ==
    IF p \in Callers
    THEN /\ answer' = [answer EXCEPT ![p] = [bank |-> bank[p], rows |-> rows]]
         /\ UNCHANGED todo
    ELSE /\ todo' = [todo EXCEPT ![p] = Tail(@)]
         /\ UNCHANGED answer

\* The call is over: its locals are gone.
Forget(p) ==
    /\ asked' = [asked EXCEPT ![p] = Nothing]
    /\ signature' = [signature EXCEPT ![p] = Nothing]
    /\ listed' = [listed EXCEPT ![p] = {}]
    /\ key' = [key EXCEPT ![p] = Nothing]
    /\ seen' = [seen EXCEPT ![p] = Nothing]
    /\ UNCHANGED bank

-----------------------------------------------------------------------------
(* Source files and cancellation *)

\* The outside world appends to, replaces or creates a file.
ChangeFile(f) ==
    /\ version[f] < MaxVersion
    /\ version' = [version EXCEPT ![f] = @ + 1]
    /\ UNCHANGED <<coreLock, priority, caches, pc, locals, answer, todo, cancelled>>

\* A session closes its job: a new source, another date, or it disconnects.
Cancel(w) ==
    /\ w \notin cancelled
    /\ cancelled' = cancelled \union {w}
    /\ UNCHANGED <<version, coreLock, priority, caches, pc, locals, answer, todo>>

-----------------------------------------------------------------------------
(* load_logs up to the lock *)

\* The call computes the source signature of its bank.
Begin(p, b) ==
    /\ Goto(p, "lookup")
    /\ bank' = [bank EXCEPT ![p] = b]
    /\ asked' = [asked EXCEPT ![p] = Signature(version, b)]
    /\ signature' = [signature EXCEPT ![p] = Signature(version, b)]
    /\ UNCHANGED <<version, coreLock, priority, caches, listed, key, seen, answer, todo, cancelled>>

Ask(c, b) == pc[c] = "idle" /\ Begin(c, b)

\* prepare_bank_results: the next bank, unless cancelled or none is left.
NextBank(w) ==
    /\ pc[w] = "next"
    /\ IF w \in cancelled \/ todo[w] = <<>>
       THEN Goto(w, "finished") /\ UNCHANGED <<version, coreLock, priority, caches, locals, answer, todo, cancelled>>
       ELSE Begin(w, Head(todo[w]))

\* cancel_event.wait(0.1), then the same bank again.
Retry(w) ==
    /\ pc[w] = "pause"
    /\ IF w \in cancelled
       THEN Goto(w, "finished") /\ UNCHANGED <<version, coreLock, priority, caches, locals, answer, todo, cancelled>>
       ELSE Begin(w, Head(todo[w]))

\* _ready_result without CORE_LOCK: rows stored under the same signature.
LookupHit(p) ==
    /\ pc[p] = "lookup"
    /\ \E i \in ReadyHits(p, signature[p]) :
          /\ loadedCache' = MovedToEnd(loadedCache, i)
          /\ Return(p, loadedCache[i].rows)
    /\ Goto(p, IF p \in Callers THEN "idle" ELSE "next")
    /\ Forget(p)
    /\ UNCHANGED <<version, coreLock, priority, scanCache, cancelled>>

LookupMiss(p) ==
    /\ pc[p] = "lookup"
    /\ ReadyHits(p, signature[p]) = {}
    /\ Goto(p, IF p \in Callers THEN "enter" ELSE "gate")
    /\ UNCHANGED <<version, coreLock, priority, caches, locals, answer, todo, cancelled>>

\* foreground_request(): count the request, then wait for the parser.
EnterForeground(c, phase) ==
    /\ foregroundRequests' = foregroundRequests + 1
    /\ foregroundPending' = TRUE
    /\ Goto(c, phase)
    /\ UNCHANGED <<version, coreLock, caches, locals, answer, todo, cancelled>>

Enter(c) == pc[c] = "enter" /\ EnterForeground(c, "wait")

\* export_logs takes the same priority and the same lock.
Export(c) == pc[c] = "idle" /\ answer[c] # NoAnswer /\ EnterForeground(c, "exportwait")

Acquire(c) ==
    /\ pc[c] \in {"wait", "exportwait"}
    /\ coreLock = NoOne
    /\ coreLock' = c
    /\ Goto(c, IF pc[c] = "wait" THEN "list" ELSE "export")
    /\ UNCHANGED <<version, priority, caches, locals, answer, todo, cancelled>>

\* The background call gives up at once while a foreground request waits ...
Gate(w) ==
    /\ pc[w] = "gate"
    /\ Goto(w, IF foregroundPending THEN "pause" ELSE "try")
    /\ UNCHANGED <<version, coreLock, priority, caches, locals, answer, todo, cancelled>>

\* ... or when the parser is busy.
TryLock(w) ==
    /\ pc[w] = "try"
    /\ IF coreLock = NoOne
       THEN coreLock' = w /\ Goto(w, "list")
       ELSE Goto(w, "pause") /\ UNCHANGED coreLock
    /\ UNCHANGED <<version, priority, caches, locals, answer, todo, cancelled>>

-----------------------------------------------------------------------------
(* _load_logs, under CORE_LOCK *)

AuditsListed(p) == listed[p] \intersect AuditsOf[bank[p]]

Unread(p, fs) == {f \in listed[p] \intersect fs : seen[p][f] = 0}

\* list_local_logs and list_local_audits; a bank without audits is an error.
ListFiles(p) ==
    /\ pc[p] = "list"
    /\ MayProceed(p)
    /\ Existing(version) \intersect AuditsOf[bank[p]] # {}
    /\ listed' = [listed EXCEPT ![p] = Existing(version) \intersect SourcesOf(bank[p])]
    /\ seen' = [seen EXCEPT ![p] = Nothing]
    /\ Goto(p, "sign")
    /\ UNCHANGED <<version, coreLock, priority, caches, bank, asked, signature, key, answer, todo, cancelled>>

\* The signature again, and the second look into LOADED_CACHE.
SignHit(p) ==
    /\ pc[p] = "sign"
    /\ MayProceed(p)
    /\ \E i \in ReadyHits(p, Signature(version, bank[p])) :
          /\ loadedCache' = MovedToEnd(loadedCache, i)
          /\ Return(p, loadedCache[i].rows)
    /\ Goto(p, "release")
    /\ Forget(p)
    /\ UNCHANGED <<version, coreLock, priority, scanCache, cancelled>>

SignMiss(p) ==
    /\ pc[p] = "sign"
    /\ signature' = [signature EXCEPT ![p] = Signature(version, bank[p])]
    /\ ReadyHits(p, Signature(version, bank[p])) = {}
    /\ Goto(p, "key")
    /\ UNCHANGED <<version, coreLock, priority, caches, bank, asked, listed, key, seen, answer, todo, cancelled>>

\* scan_key: the transactions of these audits may have been parsed already.
ScanKey(p) == Only(version, AuditsListed(p))

KeyHit(p) ==
    /\ pc[p] = "key"
    /\ key' = [key EXCEPT ![p] = ScanKey(p)]
    /\ \E i \in DOMAIN scanCache :
          /\ scanCache[i].key = ScanKey(p)
          /\ scanCache' = MovedToEnd(scanCache, i)
          /\ seen' = [seen EXCEPT ![p] = scanCache[i].seen]
    /\ Goto(p, "diagnose")
    /\ UNCHANGED <<version, coreLock, priority, loadedCache, bank, asked, signature, listed, answer, todo, cancelled>>

KeyMiss(p) ==
    /\ pc[p] = "key"
    /\ key' = [key EXCEPT ![p] = ScanKey(p)]
    /\ \A i \in DOMAIN scanCache : scanCache[i].key # ScanKey(p)
    /\ Goto(p, "scan")
    /\ UNCHANGED <<version, coreLock, priority, caches, bank, asked, signature, listed, seen, answer, todo, cancelled>>

ReadFile(p, f) ==
    /\ seen' = [seen EXCEPT ![p][f] = version[f]]
    /\ UNCHANGED <<version, coreLock, priority, caches, pc, bank, asked, signature, listed, key, answer, todo, cancelled>>

\* scan_transactions_for_list reads the audits, checking for interruption.
ReadAudit(p, f) ==
    /\ pc[p] = "scan"
    /\ MayProceed(p)
    /\ f \in Unread(p, AuditsOf[bank[p]])
    /\ ReadFile(p, f)

\* Mutant: the scan is filed under the audits as they are after reading.
StoreScanUnderNewKey(p) ==
    /\ pc[p] = "scan"
    /\ MayProceed(p)
    /\ Unread(p, AuditsOf[bank[p]]) = {}
    /\ LET cache == Append(scanCache, [key |-> ScanKey(p), seen |-> seen[p]])
       IN  scanCache' = IF Len(cache) > ScanLimit THEN Tail(cache) ELSE cache
    /\ Goto(p, "diagnose")
    /\ UNCHANGED <<version, coreLock, priority, loadedCache, locals, answer, todo, cancelled>>

StoreScan(p) ==
    /\ pc[p] = "scan"
    /\ MayProceed(p)
    /\ Unread(p, AuditsOf[bank[p]]) = {}
    /\ LET cache == Append(scanCache, [key |-> key[p], seen |-> seen[p]])
       IN  scanCache' = IF Len(cache) > ScanLimit THEN Tail(cache) ELSE cache
    /\ Goto(p, "diagnose")
    /\ UNCHANGED <<version, coreLock, priority, loadedCache, locals, answer, todo, cancelled>>

\* scan_tango_diagnostics reads the Tango logs.
ReadTango(p, f) ==
    /\ pc[p] = "diagnose"
    /\ MayProceed(p)
    /\ f \in Unread(p, TangoLogs)
    /\ ReadFile(p, f)

\* The checks run and the table rows are built, up to the last checkpoint.
BuildRows(p) ==
    /\ pc[p] = "diagnose"
    /\ MayProceed(p)
    /\ Unread(p, TangoLogs) = {}
    /\ Goto(p, "publish")
    /\ UNCHANGED <<version, coreLock, priority, caches, locals, answer, todo, cancelled>>

\* The rows go into LOADED_CACHE under the signature taken before they were
\* read; the oldest results leave until the rest fits.
Publish(p) ==
    /\ pc[p] = "publish"
    /\ LET cache == Stored(loadedCache, [bank |-> bank[p], signature |-> signature[p], rows |-> seen[p]])
       IN  \E i \in DOMAIN cache :
              /\ ReadyFits(SubSeq(cache, i, Len(cache)))
              /\ \A j \in 1..(i - 1) : ~ReadyFits(SubSeq(cache, j, Len(cache)))
              /\ loadedCache' = SubSeq(cache, i, Len(cache))
    /\ Return(p, seen[p])
    /\ Forget(p)
    /\ Goto(p, "release")
    /\ UNCHANGED <<version, coreLock, priority, scanCache, cancelled>>

\* Mutant: an interrupted job starts the bank again without leaving CORE_LOCK.
InterruptRestarting(w) ==
    /\ pc[w] \in {"list", "scan", "diagnose"}
    /\ ~MayProceed(w)
    /\ Goto(w, "list")
    /\ Forget(w)
    /\ UNCHANGED <<version, coreLock, priority, caches, answer, todo, cancelled>>

\* Mutant: an interrupted bank is given up.
InterruptGivingUp(w) ==
    /\ pc[w] \in {"list", "scan", "diagnose"}
    /\ ~MayProceed(w)
    /\ coreLock' = NoOne
    /\ Goto(w, "pause")
    /\ Forget(w)
    /\ todo' = [todo EXCEPT ![w] = Tail(@)]
    /\ UNCHANGED <<version, priority, caches, answer, cancelled>>

\* PreparationInterrupted: nothing is published, the same bank is retried.
Interrupt(w) ==
    /\ pc[w] \in {"list", "scan", "diagnose"}
    /\ ~MayProceed(w)
    /\ coreLock' = NoOne
    /\ Goto(w, "pause")
    /\ Forget(w)
    /\ UNCHANGED <<version, priority, caches, answer, todo, cancelled>>

\* The same where rows were ready, which the job has moved to the end by then.
SignHitInterrupted(w) ==
    /\ pc[w] = "sign"
    /\ ~MayProceed(w)
    /\ \E i \in ReadyHits(w, Signature(version, bank[w])) : loadedCache' = MovedToEnd(loadedCache, i)
    /\ coreLock' = NoOne
    /\ Goto(w, "pause")
    /\ Forget(w)
    /\ UNCHANGED <<version, priority, scanCache, answer, todo, cancelled>>

\* Any other exception: no audits, a file gone or unreadable, a full disk.
\* A job reports it and goes on with its next bank.
Raise(p) ==
    /\ pc[p] \in {"lookup"} \union Loading
    /\ coreLock' = IF coreLock = p THEN NoOne ELSE coreLock
    /\ IF p \in Callers
       THEN Goto(p, IF coreLock = p THEN "exit" ELSE "idle") /\ UNCHANGED todo
       ELSE Goto(p, "next") /\ todo' = [todo EXCEPT ![p] = Tail(@)]
    /\ Forget(p)
    /\ UNCHANGED <<version, priority, caches, answer, cancelled>>

\* The end of `with CORE_LOCK` and of the background call; an export ends
\* the same way whether it wrote its files or failed.
Release(p) ==
    /\ pc[p] \in {"release", "export"}
    /\ coreLock' = NoOne
    /\ Goto(p, IF p \in Callers THEN "exit" ELSE "next")
    /\ UNCHANGED <<version, priority, caches, locals, answer, todo, cancelled>>

\* Mutant: the first request that ends clears the event for all.
ExitClearing(c) ==
    /\ pc[c] = "exit"
    /\ foregroundRequests' = foregroundRequests - 1
    /\ foregroundPending' = FALSE
    /\ Goto(c, "idle")
    /\ UNCHANGED <<version, coreLock, caches, locals, answer, todo, cancelled>>

\* Mutant: FOREGROUND_PENDING stays set after the last request.
ExitPending(c) ==
    /\ pc[c] = "exit"
    /\ foregroundRequests' = foregroundRequests - 1
    /\ Goto(c, "idle")
    /\ UNCHANGED <<version, coreLock, foregroundPending, caches, locals, answer, todo, cancelled>>

\* The end of foreground_request().
Exit(c) ==
    /\ pc[c] = "exit"
    /\ foregroundRequests' = foregroundRequests - 1
    /\ foregroundPending' = (foregroundPending /\ foregroundRequests' # 0)
    /\ Goto(c, "idle")
    /\ UNCHANGED <<version, coreLock, caches, locals, answer, todo, cancelled>>

-----------------------------------------------------------------------------
\* What p does by itself, without a user and without a failure.
LoadStep(p) ==
    \/ LookupHit(p) \/ LookupMiss(p)
    \/ ListFiles(p) \/ SignHit(p) \/ SignMiss(p) \/ KeyHit(p) \/ KeyMiss(p)
    \/ \E f \in Files : ReadAudit(p, f) \/ ReadTango(p, f)
    \/ StoreScan(p) \/ BuildRows(p) \/ Publish(p) \/ Release(p)

CallerStep(c) == LoadStep(c) \/ Enter(c) \/ Acquire(c) \/ Exit(c)

WorkerStep(w) ==
    LoadStep(w) \/ NextBank(w) \/ Retry(w) \/ Gate(w) \/ TryLock(w) \/ Interrupt(w) \/ SignHitInterrupted(w)

Next ==
    \/ \E f \in Files : ChangeFile(f)
    \/ \E w \in Workers : Cancel(w) \/ WorkerStep(w)
    \/ \E c \in Callers : CallerStep(c) \/ Export(c)
    \/ \E c \in Callers, b \in Banks : Ask(c, b)
    \/ \E p \in Procs : Raise(p)

Spec == Init /\ [][Next]_vars

\* Threads are scheduled; a mutex that stays free is taken by its waiter.
Fairness ==
    /\ \A c \in Callers : WF_vars(CallerStep(c))
    /\ \A w \in Workers : WF_vars(WorkerStep(w))

FairSpec == Spec /\ Fairness

-----------------------------------------------------------------------------
(* Properties *)

(***************************************************************************)
(* Every result in LOADED_CACHE was read from files at least as new as the *)
(* signature it is filed under, every scan in SCAN_CACHE from audits at    *)
(* least as new as its key: the signature is taken before the files are    *)
(* read (lines 346 and 354), and they may grow at any moment in between.   *)
(* A result filed under a newer signature would be served, unchanged and   *)
(* without its newest transactions, until the files change again.  Only a  *)
(* file created between the listing and the signature may be left out.     *)
(***************************************************************************)
CachesFresh ==
    /\ \A i \in DOMAIN loadedCache :
          NoOlder(loadedCache[i].rows, loadedCache[i].signature)
    /\ \A i \in DOMAIN scanCache :
          \A f \in Files : scanCache[i].seen[f] >= scanCache[i].key[f]

(***************************************************************************)
(* CORE_LOCK: whoever is inside _load_logs or split_audit_files, and only  *)
(* that thread, owns the lock; every way out - a result, an exception, an  *)
(* interruption - gives it back once.                                      *)
(***************************************************************************)
ParserExclusive == \A p \in Procs : coreLock = p <=> pc[p] \in Critical

Requesting == {c \in Callers : pc[c] \in Foreground}

\* However the requests overlap and fail (lines 39-51).
PendingMeansRequested ==
    /\ foregroundRequests = Cardinality(Requesting)
    /\ foregroundPending <=> Requesting # {}

(***************************************************************************)
(* While any session waits for or uses the parser, also one that came      *)
(* first or last of several, a job inside it reads no file, files no scan  *)
(* and builds no rows: the only step it takes is out (283-291).            *)
(***************************************************************************)
JobsGiveWay ==
    [][\A w \in Workers :
          Requesting # {} /\ pc[w] \in {"list", "scan", "diagnose"}
              => \/ pc'[w] = pc[w] /\ seen'[w] = seen[w]
                 \/ pc'[w] \in {"pause", "next"} /\ coreLock' # w]_vars

(***************************************************************************)
(* A session's load or export ends, with rows or an error: a job that owns *)
(* the parser, or takes it between the session's count and its wait for    *)
(* the lock, gives it back (checkpoint, lines 283-291).  The lock promises *)
(* nothing to one of several sessions that want it again and again.        *)
(***************************************************************************)
RequestsEnd ==
    \A c \in Callers : <>[](Requesting \subseteq {c}) => (pc[c] # "idle") ~> (pc[c] = "idle")

(***************************************************************************)
(* Once sessions leave the parser alone, every job ends, having prepared   *)
(* its banks one after the other or been cancelled, interruptions          *)
(* notwithstanding (README 56).                                            *)
(***************************************************************************)
PreparationEnds ==
    \A w \in Workers : <>[](Requesting = {}) => <>(pc[w] = "finished")

(***************************************************************************)
(* The service implements LogQuery: caches and interruptions are invisible *)
(* except in how long a call takes.                                        *)
(***************************************************************************)
Asking == {c \in Callers : pc[c] \in {"lookup", "enter", "wait", "publish"} \union Loading}

Query == INSTANCE LogQuery WITH
    asking <- Asking,
    bank   <- [c \in Callers |-> bank[c]],
    asked  <- [c \in Callers |-> asked[c]]

ImplementsLogQuery == Query!QuerySpec
=============================================================================
