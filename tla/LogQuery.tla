------------------------------ MODULE LogQuery ------------------------------
(***************************************************************************)
(* What a bank load promises to whoever asks for it, with no cache, lock   *)
(* or background job in sight: the rows it returns were read from source   *)
(* files no older than they were when the call began and no newer than     *)
(* they are when it returns.  LoadService is shown to implement this.      *)
(***************************************************************************)
EXTENDS LogSources

CONSTANTS
    Callers       \* the browser sessions that load banks

VARIABLES
    version,   \* content of every source file
    asking,    \* sessions whose call has not produced its rows yet
    bank,      \* the bank of each session's latest call
    asked,     \* the bank's sources as they were when that call began
    answer     \* the last rows each session was given

queryVars == <<version, asking, bank, asked, answer>>

QueryTypeOK ==
    /\ version \in Stamps
    /\ asking \in SUBSET Callers
    /\ bank \in [Callers -> Banks]
    /\ asked \in [Callers -> Stamps]
    /\ answer \in [Callers -> Answers \union {NoAnswer}]

-----------------------------------------------------------------------------
QueryInit ==
    /\ version = [f \in Files |-> IF f \in LateFiles THEN 0 ELSE 1]
    /\ asking = {}
    /\ bank = [c \in Callers |-> SomeBank]
    /\ asked = [c \in Callers |-> Nothing]
    /\ answer = [c \in Callers |-> NoAnswer]

\* The outside world appends to, replaces or creates a file.
ChangeFile(f) ==
    /\ version[f] < MaxVersion
    /\ version' = [version EXCEPT ![f] = @ + 1]
    /\ UNCHANGED <<asking, bank, asked, answer>>

Ask(c, b) ==
    /\ c \notin asking
    /\ asking' = asking \union {c}
    /\ bank' = [bank EXCEPT ![c] = b]
    /\ asked' = [asked EXCEPT ![c] = Signature(version, b)]
    /\ UNCHANGED <<version, answer>>

\* Rows a call may return: of the bank's own files, each as it was at some
\* moment between the call's beginning and now.
Answerable(c, rows) ==
    /\ rows = Only(rows, SourcesOf(bank[c]))
    /\ NoOlder(rows, asked[c])
    /\ \A f \in Files : rows[f] <= version[f]

Answer(c, rows) ==
    /\ c \in asking
    /\ Answerable(c, rows)
    /\ asking' = asking \ {c}
    /\ asked' = [asked EXCEPT ![c] = Nothing]
    /\ answer' = [answer EXCEPT ![c] = [bank |-> bank[c], rows |-> rows]]
    /\ UNCHANGED <<version, bank>>

\* The load raises: the session keeps what it had.
Fail(c) ==
    /\ c \in asking
    /\ asking' = asking \ {c}
    /\ asked' = [asked EXCEPT ![c] = Nothing]
    /\ UNCHANGED <<version, bank, answer>>

QueryNext ==
    \/ \E f \in Files : ChangeFile(f)
    \/ \E c \in Callers, b \in Banks : Ask(c, b)
    \/ \E c \in Callers, rows \in Stamps : Answer(c, rows)
    \/ \E c \in Callers : Fail(c)

QuerySpec == QueryInit /\ [][QueryNext]_queryVars

-----------------------------------------------------------------------------
(***************************************************************************)
(* A session that loads the same bank again never gets older rows than it  *)
(* already had: live update (load_source with live set) may only move      *)
(* forward, whichever cache or job the rows came from.                     *)
(***************************************************************************)
Advances(old, new) ==
    (old # NoAnswer /\ new # NoAnswer /\ old.bank = new.bank)
        => \A f \in Files \ LateFiles : new.rows[f] >= old.rows[f]

NeverBackwards == [][\A c \in Callers : Advances(answer[c], answer'[c])]_queryVars
=============================================================================
