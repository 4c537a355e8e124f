----------------------------- MODULE RemoteListing -----------------------------
(***************************************************************************)
(* The dialog that lists the logs of the remote server and imports a day   *)
(* of them (remote_import_dialog, web_app.py, 976-1096), the connection it *)
(* makes in a thread of its own (remote_logs.py, 82-198 and 231-242), and  *)
(* the reads of the import, over the connection that was listed.           *)
(*                                                                         *)
(* The address may be answered by several hosts, one at a time: a host is  *)
(* known by the fingerprint of its key.  What is listed is labelled with   *)
(* the host it was listed on.  The password is right or refused as the     *)
(* server sees fit.                                                        *)
(***************************************************************************)
EXTENDS Integers, Sequences, FiniteSets, FiniteSetsExt

CONSTANTS
    Hosts,          \* the hosts that may answer
    Sources,        \* source files: records of kind ("audit" or "log"), day and code
    SourcesAt,      \* those a host has at first
    Banks, BankOf,  \* banks; the banks whose audits have a code
    Ptms,           \* the code of the shared audits
    SelectedBank,   \* the bank selected in the workspace
    MaxAttempts,    \* attempts to list before the user is asked
    MaxChanges,     \* bound: changes of the host that answers
    MaxSources,     \* bound: files a host has
    MaxClicks       \* bound: clicks on Retry listing under way

NoHost == 0
NoDay == 0
CONSTANT NoBank

ASSUME ListingAssumption ==
    /\ Hosts \subseteq Nat \ {NoHost}
    /\ SourcesAt \in [Hosts -> SUBSET Sources]
    /\ SelectedBank \in Banks /\ NoBank \notin Banks
    /\ MaxAttempts \in Nat \ {0}
    /\ MaxChanges \in Nat /\ MaxClicks \in Nat

VARIABLES
    host,       \* the host that answers now
    files,      \* the files each host has
    changes,    \* changes of the host so far
    dialog,     \* "closed" before it is opened, "open", "deleted"
    listed,     \* listed_connection
    names,      \* the files listed: names and log_names
    trusted,    \* trusted_fingerprint
    listing,    \* inspect_remote is under way
    calendar,   \* the day chosen
    bank,       \* the bank chosen
    retry,      \* whether Retry listing is shown
    clicks,     \* clicks on it that have not arrived
    task,       \* inspect_remote
    tried,      \* how its attempts ended: with an error, or with none
    logins,     \* how often it has authenticated
    request,    \* the RemoteImportRequest
    got         \* the files read for it

server == <<host, files, changes>>
closure == <<listed, names, trusted, listing, calendar, bank, retry>>
listingVars == <<task, tried, logins>>
import == <<request, got>>
vars == <<server, dialog, closure, clicks, listingVars, import>>

Days == {s.day : s \in Sources}

\* A RemoteConnection: the fingerprint it is made with and the one it has
\* accepted from a host.
NoConnection == [fingerprint |-> -1, accepted |-> NoHost]
Connection(fingerprint) == [fingerprint |-> fingerprint, accepted |-> NoHost]
Connections == {NoConnection} \union [fingerprint : Hosts \union {NoHost}, accepted : Hosts \union {NoHost}]
Effective(c) == IF c.fingerprint # NoHost THEN c.fingerprint ELSE c.accepted

Listed == [host : Hosts, source : Sources]
NoRequest == [connection |-> NoConnection, names |-> {}, day |-> NoDay, bank |-> NoBank]
NoTask == [pc |-> "idle", attempt |-> 0, candidate |-> NoConnection, tcp |-> 0, host |-> NoHost, found |-> {}, error |-> {}]

\* An error is the set of its causes: that of a TCP connection has one for
\* each address that was tried.  Every cause is of some exception classes.
Causes == {"timeout", "unreachable", "ssh", "login", "hostkey", "denied"}
ClassesOf == [timeout |-> {"TimeoutError"}, unreachable |-> {"NetworkErrno"}, ssh |-> {"SSHException"},
              login |-> {"SSHException", "AuthenticationException"}, hostkey |-> {"ValueError"}, denied |-> {"OSError"}]

Calls == {"tcp", "auth", "sftp", "audits", "logs"}
Tasks == [pc : Calls \union {"idle", "raised", "returned", "sleep"}, attempt : 0..MaxAttempts, candidate : Connections,
          tcp : 0..1, host : Hosts \union {NoHost}, found : SUBSET Listed, error : SUBSET Causes]

TypeOK ==
    /\ host \in Hosts /\ changes \in 0..MaxChanges
    /\ files \in [Hosts -> SUBSET Sources]
    /\ dialog \in {"closed", "open", "deleted"}
    /\ listed \in Connections /\ names \subseteq Listed
    /\ trusted \in Hosts \union {NoHost}
    /\ listing \in BOOLEAN /\ retry \in BOOLEAN
    /\ calendar \in Days \union {NoDay} /\ bank \in Banks \union {NoBank}
    /\ clicks \in 0..MaxClicks
    /\ task \in Tasks
    /\ tried \in Seq(SUBSET Causes) /\ logins \in Nat
    /\ request \in [connection : Connections, names : SUBSET Listed, day : Days \union {NoDay}, bank : Banks \union {NoBank}]
    /\ got \subseteq Listed

Init ==
    /\ host \in Hosts /\ files = SourcesAt /\ changes = 0
    /\ dialog = "closed"
    /\ listed = NoConnection /\ names = {} /\ trusted = NoHost /\ listing = FALSE
    /\ calendar = NoDay /\ bank = NoBank /\ retry = FALSE /\ clicks = 0
    /\ task = NoTask /\ tried = <<>> /\ logins = 0
    /\ request = NoRequest /\ got = {}

-----------------------------------------------------------------------------
(* The server *)

ChangeHost(h) ==
    /\ changes < MaxChanges /\ h # host
    /\ host' = h /\ changes' = changes + 1
    /\ UNCHANGED <<files, dialog, closure, clicks, listingVars, import>>

NewSource(h, s) ==
    /\ s \notin files[h] /\ Cardinality(files[h]) < MaxSources
    /\ files' = [files EXCEPT ![h] = @ \union {s}]
    /\ UNCHANGED <<host, changes, dialog, closure, clicks, listingVars, import>>

-----------------------------------------------------------------------------
(* The calendar and the banks *)

AuditsOf(ns, day) == {n \in ns : n.source.kind = "audit" /\ n.source.day = day}
LogsOf(ns, day) == {n \in ns : n.source.kind = "log" /\ n.source.day = day}

\* banks_for_audits: the shared audits alone may be of any bank.
BanksForAudits(ns) ==
    LET codes == {n.source.code : n \in ns} IN
    IF codes = {Ptms} THEN Banks ELSE {b \in Banks : \E c \in codes \ {Ptms} : b \in BankOf[c]}

\* names_for_bank.
NamesForBank(ns, b) == {n \in ns : n.source.code = Ptms \/ b \in BanksForAudits({n})}

Available(ns, day) == BanksForAudits(AuditsOf(ns, day))

\* update_banks: the bank of the workspace, or the first, of those there are.
Chosen(ns, day) ==
    LET available == Available(ns, day) IN
    CASE SelectedBank \in available -> SelectedBank
      [] available = {} -> NoBank
      [] OTHER -> CHOOSE b \in available : TRUE

\* What the user does in the dialog once there was a listing; it may arrive
\* while another is under way.
PickDay(day) ==
    /\ dialog = "open" /\ trusted # NoHost
    /\ calendar' = day
    /\ bank' = Chosen(names, day)
    /\ UNCHANGED <<server, dialog, listed, names, trusted, listing, retry, clicks, listingVars, import>>

PickBank(b) ==
    /\ dialog = "open" /\ b \in Available(names, calendar)
    /\ bank' = b
    /\ UNCHANGED <<server, dialog, listed, names, trusted, listing, calendar, retry, clicks, listingVars, import>>

Cancel ==
    /\ dialog = "open"
    /\ dialog' = "deleted"
    /\ UNCHANGED <<server, closure, clicks, listingVars, import>>

-----------------------------------------------------------------------------
(* inspect_remote, on the event loop *)

Attempt(n) == [NoTask EXCEPT !.pc = "tcp", !.attempt = n, !.candidate = Connection(trusted)]

StartListing ==
    /\ listing' = TRUE
    /\ listed' = NoConnection /\ names' = {}
    /\ bank' = NoBank /\ retry' = FALSE
    /\ task' = Attempt(1) /\ tried' = <<>> /\ logins' = 0
    /\ UNCHANGED <<server, trusted, calendar, import>>

Open ==
    /\ dialog = "closed"
    /\ dialog' = "open"
    /\ StartListing
    /\ UNCHANGED clicks

ClickRetry ==
    /\ dialog = "open" /\ retry /\ clicks < MaxClicks
    /\ clicks' = clicks + 1
    /\ UNCHANGED <<server, dialog, closure, listingVars, import>>

\* A click arrives: nothing happens while a listing is under way, or when the
\* dialog is gone.
Retry ==
    /\ clicks > 0
    /\ clicks' = clicks - 1
    /\ UNCHANGED dialog
    /\ IF listing \/ dialog = "deleted"
       THEN UNCHANGED <<server, closure, listingVars, import>>
       ELSE StartListing

\* Mutant: without the finally.
ReturnListing == task' = NoTask /\ UNCHANGED listing

Return ==
    /\ listing' = FALSE
    /\ task' = NoTask

\* Retry listing is shown when an attempt has failed for good.
OffersRetry(error) == TRUE

NeverRetried == {"UnknownHostKey", "AuthenticationException", "BadHostKeyException", "ValueError"}
Transport == {"TimeoutError", "EOFError", "ConnectionError", "SSHException", "NetworkErrno"}

\* Mutant: a refused login is an SSHException, and is tried again.
IsAnySshError(error) == error # {} /\ \A cause \in error : ClassesOf[cause] \intersect Transport # {}

\* is_transient_ssh_error: of several addresses all must have failed so.
IsTransient(error) ==
    /\ error # {}
    /\ \A cause \in error :
           /\ ClassesOf[cause] \intersect NeverRetried = {}
           /\ ClassesOf[cause] \intersect Transport # {}

TriesAgain(attempt) == attempt < MaxAttempts

\* The exception of an attempt.
Failed ==
    /\ task.pc = "raised"
    /\ tried' = Append(tried, task.error)
    /\ IF dialog = "deleted" THEN Return /\ UNCHANGED retry
       ELSE IF TriesAgain(task.attempt) /\ IsTransient(task.error)
       THEN task' = [task EXCEPT !.pc = "sleep"] /\ UNCHANGED <<listing, retry>>
       ELSE Return /\ retry' = OffersRetry(task.error)
    /\ UNCHANGED <<server, dialog, listed, names, trusted, calendar, bank, clicks, logins, import>>

\* The pause before the next attempt is over.
WakeUp ==
    /\ task.pc = "sleep"
    /\ IF dialog = "deleted" THEN Return
       ELSE task' = Attempt(task.attempt + 1) /\ UNCHANGED listing
    /\ UNCHANGED <<server, dialog, listed, names, trusted, calendar, bank, retry, clicks, tried, logins, import>>

\* Mutant: the host is forgotten.
LearnsNothing == trusted

\* The host that was listed; the import will use a connection to it.
Learns == Effective(task.candidate)

\* The day of the workspace is not in the model: it is any day that is listed,
\* or the last one.
Succeeded ==
    /\ task.pc = "returned"
    /\ tried' = Append(tried, {})
    /\ names' = task.found
    /\ Return
    /\ IF dialog = "deleted" THEN UNCHANGED <<listed, trusted, calendar, bank>>
       ELSE LET days == {n.source.day : n \in task.found} IN
            /\ trusted' = Learns
            /\ listed' = Connection(Learns)
            /\ IF days = {} THEN calendar' = NoDay ELSE calendar' \in days
            /\ bank' = Chosen(task.found, calendar')
    /\ UNCHANGED <<server, dialog, retry, clicks, logins, import>>

-----------------------------------------------------------------------------
(* list_remote_sources, in a thread *)

OnlyTask == UNCHANGED <<server, dialog, closure, clicks, tried, import>>
Raises(error) == task' = [task EXCEPT !.pc = "raised", !.error = error]

\* A TCP connection that is not answered is tried once more.
TcpTimesOut ==
    /\ task.pc = "tcp"
    /\ IF task.tcp = 0 THEN task' = [task EXCEPT !.tcp = 1] ELSE Raises({"timeout"})
    /\ OnlyTask /\ UNCHANGED logins

\* PinnedHostKey: the first host is accepted, after that no other.
Accepts(c, h) == Effective(c) \in {NoHost, h}

\* The host that answers shows its key, and the login begins.
Handshake ==
    /\ task.pc = "tcp"
    /\ IF Accepts(task.candidate, host)
       THEN /\ task' = [task EXCEPT !.pc = "auth", !.host = host, !.candidate.accepted =
                            IF Effective(task.candidate) = NoHost THEN host ELSE @]
            /\ logins' = logins + 1
       ELSE Raises({"hostkey"}) /\ UNCHANGED logins
    /\ OnlyTask

\* Login and sudo go through ...
Proceed ==
    /\ \/ task.pc = "auth" /\ task' = [task EXCEPT !.pc = "sftp"]
       \/ task.pc = "sftp" /\ task' = [task EXCEPT !.pc = "audits"]
    /\ OnlyTask /\ UNCHANGED logins

\* ... or are refused, or a folder cannot be read ...
Refuse ==
    /\ task.pc \in Calls \ {"tcp"}
    /\ Raises(IF task.pc = "auth" THEN {"login"} ELSE {"denied"})
    /\ OnlyTask /\ UNCHANGED logins

\* ... or the connection is lost, or a deadline passes.  Of two addresses one
\* may be unreachable and the other forbidden.
Losses(pc) ==
    CASE pc = "tcp" -> {{"unreachable"}, {"unreachable", "denied"}}
      [] pc = "auth" -> {{"ssh"}}
      [] OTHER -> {{"timeout"}}

Lose ==
    /\ task.pc \in Calls
    /\ \E error \in Losses(task.pc) : Raises(error)
    /\ OnlyTask /\ UNCHANGED logins

\* The folders are listed one after the other.
ListFolder(kind, next) ==
    /\ task' = [task EXCEPT !.pc = next, !.found = @ \union
                   {[host |-> task.host, source |-> s] : s \in {f \in files[task.host] : f.kind = kind}}]
    /\ OnlyTask /\ UNCHANGED logins

ListAudits == task.pc = "audits" /\ ListFolder("audit", "logs")
ListLogs == task.pc = "logs" /\ ListFolder("log", "returned")

-----------------------------------------------------------------------------
(* The import *)

\* import_remote, when nothing else is under way (Workspace has that).
Import ==
    /\ dialog = "open"
    /\ listed # NoConnection /\ Connection(trusted) = listed
    /\ bank # NoBank /\ AuditsOf(names, calendar) # {}
    /\ bank \in Available(names, calendar)
    /\ request' = [connection |-> listed, names |-> AuditsOf(names, calendar) \union LogsOf(names, calendar),
                   day |-> calendar, bank |-> bank]
    /\ dialog' = "deleted"
    /\ UNCHANGED <<server, closure, clicks, listingVars, got>>

Foreground == NamesForBank(AuditsOf(request.names, request.day), request.bank)
Background == AuditsOf(request.names, request.day) \ Foreground

\* Every read connects anew: files of the same name are read from the host
\* that answers, if that is accepted.
Read(batch) ==
    /\ request # NoRequest /\ batch # {}
    /\ Accepts(request.connection, host)
    /\ got' = got \union {[n EXCEPT !.host = host] : n \in {m \in batch : m.source \in files[host]}}
    /\ request' = [request EXCEPT !.connection.accepted = IF Effective(request.connection) = NoHost THEN host ELSE @]
    /\ UNCHANGED <<server, dialog, closure, clicks, listingVars>>

-----------------------------------------------------------------------------
User == Open \/ Cancel \/ ClickRetry \/ Import \/ (\E d \in Days \union {NoDay} : PickDay(d)) \/ (\E b \in Banks : PickBank(b))
Server == (\E h \in Hosts : ChangeHost(h)) \/ (\E h \in Hosts, s \in Sources : NewSource(h, s))
Thread == TcpTimesOut \/ Handshake \/ Proceed \/ Refuse \/ Lose \/ ListAudits \/ ListLogs
Loop == Failed \/ WakeUp \/ Succeeded
Reading == Read(Foreground) \/ Read(LogsOf(request.names, request.day)) \/ Read(Background)

Next == User \/ Server \/ Retry \/ Thread \/ Loop \/ Reading

\* Every wait of the thread has a deadline, and the loop goes on.
Spec == Init /\ [][Next]_vars /\ WF_vars(Thread) /\ WF_vars(Loop)

-----------------------------------------------------------------------------
(***************************************************************************)
(* Whatever host answers the address later on, all that is read for an     *)
(* import comes from the host whose files the user chose from.             *)
(***************************************************************************)
OneServer ==
    request # NoRequest => \E h \in Hosts : \A n \in request.names \union got : n.host = h

(***************************************************************************)
(* An import never finds "No audit files available for the selected bank"  *)
(* (web_app.py:622), however the day, the bank and the listing changed     *)
(* before the click.                                                       *)
(***************************************************************************)
BankHasAudits == request # NoRequest => Foreground # {}

(***************************************************************************)
(* "If listing fails ... use Retry listing" (README.md:69): the dialog is  *)
(* never left without a listing, one under way, or the offer of another.   *)
(***************************************************************************)
CanGoOn == dialog = "open" => listing \/ retry \/ listed # NoConnection

\* While the thread runs nothing is listed; what it has found is of the host
\* whose key it has accepted.
TaskInv ==
    /\ listing <=> task.pc # "idle"
    /\ listing => listed = NoConnection /\ names = {} /\ task.candidate # NoConnection
    /\ task.pc = "tcp" => task.found = {}
    /\ task.pc \in {"auth", "sftp", "audits", "logs", "returned"} =>
           task.host \in Hosts /\ Effective(task.candidate) = task.host /\ \A n \in task.found : n.host = task.host

\* What is listed is of the host that the import will accept.
ListedInv ==
    listed # NoConnection =>
        listed.fingerprint \in Hosts /\ \A n \in names : n.host = listed.fingerprint

RequestInv ==
    /\ dialog # "deleted" => request = NoRequest
    /\ request = NoRequest => got = {}
    /\ request # NoRequest =>
           /\ request.connection.fingerprint \in Hosts
           /\ \A n \in request.names \union got : n.host = request.connection.fingerprint

\* The attempts are counted, and the logins are not more than them.
Calling == task.pc \notin {"idle", "sleep"}
AttemptsInv ==
    /\ listing => \A i \in 1..Len(tried) : IsTransient(tried[i])
    /\ Calling => task.attempt = Len(tried) + 1
    /\ task.pc = "sleep" => task.attempt = Len(tried) /\ task.attempt < MaxAttempts
    /\ task.pc = "raised" => task.error # {}
    /\ logins <= Len(tried) + (IF Calling /\ task.pc # "tcp" THEN 1 ELSE 0)

(***************************************************************************)
(* Whatever was listed, tried again and picked before, an import reads the *)
(* files of one host, and some of the selected bank, and the user has a    *)
(* way on from every failure (1022-1056).                                  *)
(***************************************************************************)
ListingInv ==
    TypeOK /\ OneServer /\ BankHasAudits /\ CanGoOn /\ TaskInv /\ ListedInv /\ RequestInv /\ AttemptsInv

Refusals == {"login", "hostkey", "denied"}

(***************************************************************************)
(* "Retry transport failures, never credentials, permissions or host-key   *)
(* checks" (remote_logs.py:124); "never repeat authentication or sudo"     *)
(* (100): on its own the dialog tries again at most twice, only after      *)
(* transport failures, and logs in once in each attempt.                   *)
(***************************************************************************)
RetriesAreSafe ==
    /\ \A i \in 1..Len(tried) :
           tried[i] = {} \/ tried[i] \intersect Refusals # {} => i = Len(tried) /\ ~listing
    /\ Len(tried) + (IF Calling THEN 1 ELSE 0) <= MaxAttempts
    /\ logins <= Len(tried) + (IF Calling THEN 1 ELSE 0)

(***************************************************************************)
(* A listing ends, whatever the network does.                              *)
(***************************************************************************)
ListingEnds == listing ~> ~listing
=============================================================================
