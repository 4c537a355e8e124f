----------------------------- MODULE LogSources -----------------------------
(***************************************************************************)
(* The source files of one selected day, shared by every module about      *)
(* loading a bank.  A file's content is its version, a number that only    *)
(* grows (the logs are appended to, replaced or rotated); version 0 is a   *)
(* file that does not exist yet.  Rows, scans and signatures are stamps:   *)
(* the version of each file they come from, 0 for a file they leave out.   *)
(***************************************************************************)
EXTENDS Naturals

CONSTANTS
    Files,        \* the audit and Tango logs of the selected day
    LateFiles,    \* the files that may appear while the application runs
    Banks,        \* the banks/acquirers
    AuditsOf,     \* the audit names that belong to each bank
    TangoLogs,    \* the Tango logs of the day, read for every bank
    NoAnswer,     \* a session that has no result yet
    MaxVersion    \* bound: how often a file changes

ASSUME SourcesAssumption ==
    /\ LateFiles \subseteq Files
    /\ TangoLogs \subseteq Files
    /\ Banks # {}
    /\ AuditsOf \in [Banks -> SUBSET Files]
    /\ \A b \in Banks : AuditsOf[b] \intersect TangoLogs = {}
    /\ MaxVersion \in Nat \ {0}

Stamps == [Files -> 0..MaxVersion]

\* What a load returns: the rows of a bank, and the content they are from.
Answers == [bank : Banks, rows : Stamps]

ASSUME NoAnswerAssumption == NoAnswer \notin Answers

Nothing == [f \in Files |-> 0]

\* Any bank: the value of `bank` before the first call.
SomeBank == CHOOSE b \in Banks : TRUE

SourcesOf(b) == AuditsOf[b] \union TangoLogs

\* The part of stamp v that files fs account for.
Only(v, fs) == [f \in Files |-> IF f \in fs THEN v[f] ELSE 0]

\* source_signature: the files a load of bank b depends on, as they are in v.
Signature(v, b) == Only(v, SourcesOf(b))

\* The files that exist at v.
Existing(v) == {f \in Files : v[f] > 0}

\* Stamp new comes from content at least as new as stamp old, file by file.
\* Only a late file, created after the folder was listed, may be left out.
NoOlder(new, old) ==
    \A f \in Files : new[f] >= old[f] \/ (f \in LateFiles /\ new[f] = 0)
=============================================================================
