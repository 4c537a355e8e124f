---------------------------- MODULE SourceNames ----------------------------
(***************************************************************************)
(* Which source files belong to which day and bank.  The name decides, and *)
(* it is taken apart in several places: the listing of a server, the one   *)
(* of a local folder, the loader and the watcher of a folder.              *)
(*                                                                         *)
(* A name is a record:                                                     *)
(*   family  what it begins with: "tango" (tango.log), "OPN" and "PTMS"    *)
(*           (audit.OPN, audit.PTMS), "audit" (another audit)              *)
(*   code    the process after "audit.", without its last two digits       *)
(*   parts   whether a dot follows the code                                *)
(*   dates   the days in it, in order: of a Tango log the one after the    *)
(*           name, if it is one                                            *)
(*   alone   the places in "dates" of those with no digit before or after  *)
(*   packed  "" or the suffix of a compressed file: "gz", "gzip", "tgz"    *)
(*           (which stands for tar.gz too)                                 *)
(***************************************************************************)
EXTENDS Naturals, Sequences, SequencesExt, FiniteSetsExt

CONSTANTS
    BankCodes,      \* BANK_AUDIT_CODES without the two digits at the end
    Today           \* current_log_date()

NoDay == 0

IsSourceFile(name) ==
    /\ name \in [family : {"tango", "OPN", "PTMS", "audit"}, code : STRING, parts : BOOLEAN,
                 dates : Seq(Nat), alone : SUBSET Nat, packed : {"", "gz", "gzip", "tgz"}]
    /\ name.alone \subseteq DOMAIN name.dates
    \* BANK_AUDIT_CODES all begin with OPN.
    /\ name.family = "audit" => \A bank \in DOMAIN BankCodes : name.code # BankCodes[bank]

IsGzip(name) == name.packed \in {"gz", "gzip"}

\* source_file_key: the name without the suffix of a gzip file.
SourceKey(name) == IF IsGzip(name) THEN [name EXCEPT !.packed = ""] ELSE name

IsAudit(name) == name.family \in {"OPN", "PTMS"}
Names(name, day) == day \in ToSet(name.dates)

\* parse_log_date; the log without a date is the current one.
LogDate(name) ==
    IF name.family # "tango" THEN NoDay
    ELSE IF name.dates = <<>> THEN (IF name.packed = "" THEN Today ELSE NoDay)
    ELSE name.dates[1]

\* bank_audit_code_matches: any process of the family.
CodeMatches(bank, code) == code = BankCodes[bank]

-----------------------------------------------------------------------------
(* A local folder *)

\* Mutant: the compressed file is preferred.
UniqueCompressed(names) == {n \in names : IsGzip(n) \/ ~\E m \in names : IsGzip(m) /\ SourceKey(m) = SourceKey(n)}

\* unique_source_files: of a file and its compressed copies one, the last by
\* name among the latter ("gz" before "gzip").
UniqueSources(names) ==
    {n \in names : ~\E m \in names : SourceKey(m) = SourceKey(n) /\ m # n
                       /\ (~IsGzip(m) \/ (IsGzip(n) /\ m.packed = "gzip"))}

LocalLogs(names) == UniqueSources({n \in names : n.packed # "tgz" /\ LogDate(n) # NoDay})

MatchesPtms(name, day) == name.family = "PTMS" /\ Names(name, day)

LocalAudits(names, day, bank) ==
    UniqueSources({n \in names : n.packed # "tgz" /\
        (MatchesPtms(n, day) \/ (Names(n, day) /\ n.family # "tango" /\ n.parts /\ CodeMatches(bank, n.code)))})

\* source_signature: the files whose change means a change of the list.
SignedFiles(names, day, bank) ==
    {n \in LocalLogs(names) : LogDate(n) = day} \union LocalAudits(names, day, bank)

AvailableBanks(names) ==
    {bank \in DOMAIN BankCodes : \E n \in names : n.family = "OPN" /\ n.parts /\ CodeMatches(bank, n.code)}

\* SourceWatcher: whether a change of one of these files is reported.
Reports(changed, day, bank) ==
    day = Today /\ \E n \in changed :
        \/ LogDate(n) = Today
        \/ IsAudit(n) /\ Names(n, Today) /\ (MatchesPtms(n, Today) \/ CodeMatches(bank, n.code))

-----------------------------------------------------------------------------
(* A server *)

\* audit_date: the first day that stands alone.
AuditDate(name) ==
    IF name.alone = {} THEN NoDay ELSE name.dates[Min(name.alone)]

\* list_remote_audits, list_local_source_files
ListedAudits(names) == {n \in names : IsAudit(n) /\ AuditDate(n) # NoDay}

\* banks_for_audits: with nothing but shared audits, any bank.
BanksForAudits(names) ==
    LET dotted == {n \in names : IsAudit(n) /\ n.parts}
    IN  IF {n.family : n \in dotted} = {"PTMS"} THEN DOMAIN BankCodes
        ELSE {bank \in DOMAIN BankCodes : \E n \in dotted : n.family = "OPN" /\ CodeMatches(bank, n.code)}

NamesForBank(names, bank) == {n \in names : n.family = "PTMS" \/ bank \in BanksForAudits({n})}
=============================================================================
