------------------------------ MODULE Workspace ------------------------------
(***************************************************************************)
(* One browser session of the web interface (index() of web_app.py): what  *)
(* is loaded, what the table and the labels show, which bank waits to be   *)
(* opened, the background job and the live watcher.                        *)
(*                                                                         *)
(* The handlers run on one event loop: what stands between two awaits is   *)
(* one step, and between the steps of an operation (perform) every other   *)
(* handler may run.  A handler started by a control's on_change is a task  *)
(* of its own: "changes" counts the calls of change_bank not yet run.      *)
(*                                                                         *)
(* A source folder is the local one or one of the mirrors that remote      *)
(* imports make.  Every day has a shared PTMS audit; "audits" of a folder  *)
(* are the banks whose own OPN audit is in it, "content" counts what has   *)
(* been appended to its files.                                             *)
(***************************************************************************)
EXTENDS Naturals, Sequences

CONSTANTS
    Banks,          \* BANK_AUDIT_CODES
    FirstBank,      \* the bank the selector starts with
    LocalAudits,    \* banks with an OPN audit in the local folder
    LateAudits,     \* banks whose OPN audit appears on the server later
    LocalDays,      \* days with local files
    RemoteDays,     \* days with files on the server
    LastDay,        \* bound: the day the model ends on
    MaxContent,     \* bound: times the source files grow
    MaxImports,     \* bound: remote imports
    MaxChanges,     \* bound: calls of change_bank waiting to run
    Local,          \* the local folder
    NoBank, NoLogs, NoJob, NoWatcher

Days == 1..LastDay
NoDay == 0      \* source_day before anything is loaded
Folders == {Local} \union (1..MaxImports)

ASSUME WorkspaceAssumption ==
    /\ FirstBank \in Banks /\ NoBank \notin Banks
    /\ LocalAudits \subseteq Banks /\ LateAudits \subseteq Banks
    /\ LastDay \in Nat \ {0} /\ LocalDays \subseteq Days /\ RemoteDays \subseteq Days
    /\ MaxContent \in Nat /\ MaxImports \in Nat /\ MaxChanges \in Nat
    /\ Local \notin Nat

Mirrors == [audits : SUBSET Banks, content : 0..MaxContent]
Logs == [bank : Banks, day : Days, folder : Folders, audits : Folders, content : 0..MaxContent]
Ops == [phase : {"idle", "download", "sign", "load", "list", "export"},
        kind : {"open", "live", "local", "remote", "export"}, bank : Banks, day : Days \union {NoDay},
        folder : Folders, audits : Folders, names : SUBSET Banks, content : 0..MaxContent]
Jobs == [folder : Folders, day : Days, remote : BOOLEAN, names : SUBSET Banks, banks : SUBSET Banks, done : BOOLEAN]
Watchers == [remote : BOOLEAN, folder : Folders, day : Days, bank : Banks, connected : BOOLEAN]
Labels == [day : Days \union {NoDay}, bank : Banks, loading : BOOLEAN]
Views == [rows : Logs \union {NoLogs}, label : Labels]

ASSUME NothingAssumption == NoLogs \notin Logs /\ NoJob \notin Jobs /\ NoWatcher \notin Watchers

VARIABLES
    today,          \* current_log_date()
    content,        \* how often the source files have grown
    server,         \* banks with an OPN audit on the server
    mirrors,        \* the folders of the remote imports so far
    bank,           \* bank.value, the selected bank
    loaded,         \* loaded
    sourceDay,      \* source_day
    sourceFolder,   \* source_folder
    auditFolder,    \* audit_source_folder
    remote,         \* source_is_remote
    pending,        \* pending_bank
    changes,        \* calls of change_bank not yet run
    op,             \* the operation perform() runs, with its locals; busy unless Idle
    job,            \* background_job
    live,           \* live_enabled.value
    watcher,        \* source_watcher
    signature,      \* last_source_signature
    view            \* table.rows and the selected_date label

world == <<today, content, server>>
source == <<sourceDay, sourceFolder, auditFolder>>
liveVars == <<live, watcher>>
vars == <<world, mirrors, bank, loaded, source, remote, pending, changes, op, job, liveVars, signature, view>>

NoRows == NoLogs

Idle == [phase |-> "idle", kind |-> "open", bank |-> FirstBank, day |-> NoDay, folder |-> Local,
         audits |-> Local, names |-> {}, content |-> 0]

busy == op.phase # "idle"

\* The banks with an OPN audit in a folder, and how often its files have grown.
AuditsIn(folder) == IF folder = Local THEN LocalAudits ELSE mirrors[folder].audits
ContentOf(folder) == IF folder = Local THEN content ELSE mirrors[folder].content

\* available_banks_for_folder(loaded.audit_folder)
Available == AuditsIn(loaded.audits)

\* banks_for_audits: with nothing but the shared audit, every bank.
BanksFor(names) == IF names = {} THEN Banks ELSE names

TypeOK ==
    /\ today \in Days /\ content \in 0..MaxContent /\ server \subseteq Banks
    /\ mirrors \in Seq(Mirrors) /\ Len(mirrors) <= MaxImports
    /\ bank \in Banks
    /\ loaded \in Logs \union {NoLogs}
    /\ sourceDay \in Days \union {NoDay} /\ sourceFolder \in Folders /\ auditFolder \in Folders
    /\ remote \in BOOLEAN
    /\ pending \in Banks \union {NoBank}
    /\ changes \in 0..MaxChanges
    /\ op \in Ops
    /\ job \in Jobs \union {NoJob}
    /\ live \in BOOLEAN /\ watcher \in Watchers \union {NoWatcher}
    /\ signature \in Logs \union {NoLogs}
    /\ view \in Views

Init ==
    /\ today = 1 /\ content = 0 /\ server = Banks \ LateAudits /\ mirrors = <<>>
    /\ bank = FirstBank /\ loaded = NoLogs
    /\ sourceDay = NoDay /\ sourceFolder = Local /\ auditFolder = Local /\ remote = FALSE
    /\ pending = NoBank /\ changes = 0 /\ op = Idle /\ job = NoJob
    /\ live = FALSE /\ watcher = NoWatcher /\ signature = NoLogs
    /\ view = [rows |-> NoRows, label |-> [day |-> NoDay, bank |-> FirstBank, loading |-> FALSE]]

-----------------------------------------------------------------------------
(* What the handlers share.  Each helper is given the values the handler   *)
(* has assigned so far.                                                    *)

\* clear_bank_results, with bank b selected and source_day day.
Cleared(v, b, day) ==
    [rows |-> NoRows, label |-> IF day = NoDay THEN v.label ELSE [day |-> day, bank |-> b, loading |-> TRUE]]

\* refresh
Refreshed(v, l, b, day) ==
    IF l = NoLogs THEN v ELSE IF l.bank # b THEN Cleared(v, b, day) ELSE [v EXCEPT !.rows = l]

\* selected_date.set_text
Labelled(v, day, b) == [v EXCEPT !.label = [day |-> day, bank |-> b, loading |-> FALSE]]

\* configure_live, the checkbox being on or off.
ConfigureLive(on, l, day, isRemote, b) ==
    IF l # NoLogs /\ day # today
    THEN live' = FALSE /\ watcher' = NoWatcher
    ELSE /\ live' = on
         /\ watcher' = IF on /\ l # NoLogs
                       THEN [remote |-> isRemote, folder |-> l.folder, day |-> day, bank |-> b, connected |-> FALSE]
                       ELSE NoWatcher

\* Mutant: the bank that waits is left to itself.
FinishForgetting(l, b, p, day, v, n) ==
    /\ op' = Idle
    /\ pending' = p
    /\ changes' = n
    /\ view' = v

\* Mutant: the list is shown again whatever bank is selected.
FinishShowing(l, b, p, day, v, n) ==
    /\ op' = Idle
    /\ pending' = NoBank
    /\ changes' = n
    /\ view' = IF p # NoBank /\ l # NoLogs THEN [v EXCEPT !.rows = l] ELSE v

\* The "finally" of perform: a bank that waits is shown or opened.
Finish(l, b, p, day, v, n) ==
    LET waits == p # NoBank /\ l # NoLogs
        shown == waits /\ b = l.bank IN
    /\ waits /\ ~shown => n < MaxChanges
    /\ op' = Idle
    /\ pending' = IF shown THEN NoBank ELSE p
    /\ changes' = IF waits /\ ~shown THEN n + 1 ELSE n
    /\ view' = IF shown THEN Refreshed(v, l, b, day) ELSE v

\* A load of other files, or a local import, cancels the background job.
StopsJob(kind, folder) == job # NoJob /\ (kind = "local" \/ folder # job.folder)

\* load_source up to its first await, for files that are there already.
StartLoad(kind, b, day, folder, audits) ==
    /\ op' = [Idle EXCEPT !.phase = "sign", !.kind = kind, !.bank = b, !.day = day, !.folder = folder, !.audits = audits]
    /\ job' = IF StopsJob(kind, folder) THEN NoJob ELSE job

\* ... for the selected bank, from change_bank and live_tick.
StartOpening(kind) == StartLoad(kind, bank, sourceDay, sourceFolder, auditFolder)

-----------------------------------------------------------------------------
(* The user *)

SelectBank(b) ==
    /\ loaded # NoLogs
    /\ b # bank
    /\ changes < MaxChanges
    /\ bank' = b
    /\ changes' = changes + 1
    /\ UNCHANGED <<world, mirrors, loaded, source, remote, pending, op, job, liveVars, signature, view>>

\* choose_path of the local import dialog; perform refuses the load while busy.
ImportLocal(b, day) ==
    /\ day <= today
    /\ changes < MaxChanges
    /\ sourceDay' = day
    /\ sourceFolder' = Local
    /\ auditFolder' = Local
    /\ bank' = b
    /\ changes' = IF b # bank THEN changes + 1 ELSE changes
    /\ view' = Cleared(view, b, day)
    /\ IF busy
       THEN UNCHANGED <<op, job, pending>>
       ELSE /\ StartLoad("local", b, day, Local, Local)
            /\ pending' = IF StopsJob("local", Local) THEN NoBank ELSE pending
    /\ UNCHANGED <<world, mirrors, loaded, remote, liveVars, signature>>

\* Mutant: the audits are looked for where the last ones were.
MirrorOpElsewhere(m, b, day, names) ==
    [Idle EXCEPT !.phase = "download", !.kind = "remote", !.bank = b, !.day = day, !.folder = m, !.audits = auditFolder, !.names = names]

\* A remote import into the new mirror m.
MirrorOp(m, b, day, names) ==
    [Idle EXCEPT !.phase = "download", !.kind = "remote", !.bank = b, !.day = day, !.folder = m, !.audits = m, !.names = names]

\* import_remote: the audits "names" were listed for this day.
ImportRemote(b, day, names) ==
    /\ ~busy
    /\ Len(mirrors) < MaxImports
    /\ day <= today
    /\ names \subseteq server
    /\ b \in BanksFor(names)
    /\ mirrors' = Append(mirrors, [audits |-> {}, content |-> 0])
    /\ op' = MirrorOp(Len(mirrors) + 1, b, day, names)
    /\ job' = NoJob
    /\ pending' = NoBank
    /\ view' = Refreshed(view, loaded, bank, sourceDay)
    /\ UNCHANGED <<world, bank, loaded, source, remote, changes, liveVars, signature>>

\* live_enabled is ticked or unticked.
ToggleLive ==
    /\ ConfigureLive(~live, loaded, sourceDay, remote, bank)
    /\ UNCHANGED <<world, mirrors, bank, loaded, source, remote, pending, changes, op, job, signature, view>>

\* A filter changes.
ChangeFilter ==
    /\ view' = Refreshed(view, loaded, bank, sourceDay)
    /\ UNCHANGED <<world, mirrors, bank, loaded, source, remote, pending, changes, op, job, liveVars, signature>>

\* export_action, export_results
Export ==
    /\ ~busy
    /\ loaded # NoLogs /\ view.rows # NoRows
    /\ op' = [Idle EXCEPT !.phase = "export", !.kind = "export"]
    /\ UNCHANGED <<world, mirrors, bank, loaded, source, remote, pending, changes, job, liveVars, signature, view>>

-----------------------------------------------------------------------------
(* change_bank, run once for every change of the selector *)

\* The call takes its turn; the list of another load is cleared.
TakesTurn(b) ==
    /\ changes > 0
    /\ view' = IF loaded = NoLogs THEN view ELSE Cleared(view, b, sourceDay)
    /\ UNCHANGED <<world, mirrors, loaded, source, remote, signature>>

QueueBank ==
    /\ TakesTurn(bank)
    /\ busy
    /\ pending' = bank
    /\ changes' = changes - 1
    /\ UNCHANGED <<bank, op, job, liveVars>>

NothingToOpen ==
    /\ TakesTurn(bank)
    /\ ~busy
    /\ loaded = NoLogs
    /\ changes' = changes - 1
    /\ UNCHANGED <<bank, pending, op, job, liveVars>>

ShowLoaded ==
    /\ changes > 0
    /\ ~busy
    /\ loaded # NoLogs /\ bank = loaded.bank
    /\ pending' = NoBank
    /\ changes' = changes - 1
    /\ view' = Labelled(Refreshed(view, loaded, bank, sourceDay), sourceDay, bank)
    /\ UNCHANGED <<world, mirrors, bank, loaded, source, remote, op, job, liveVars, signature>>

\* Another bank: the watcher is set up for it first.
Switches ==
    /\ TakesTurn(bank)
    /\ ~busy
    /\ loaded # NoLogs /\ bank # loaded.bank
    /\ ConfigureLive(live, loaded, sourceDay, remote, bank)

AuditsMayCome == (job # NoJob /\ ~job.done) \/ (remote /\ live')

WaitForAudits ==
    /\ Switches
    /\ bank \notin Available /\ AuditsMayCome
    /\ pending' = bank
    /\ changes' = changes - 1
    /\ UNCHANGED <<bank, op, job>>

\* No audits: the selector goes back, which calls change_bank once more.
RefuseBank ==
    /\ Switches
    /\ bank \notin Available /\ ~AuditsMayCome
    /\ pending' = NoBank
    /\ bank' = loaded.bank
    /\ UNCHANGED <<changes, op, job>>

OpenBank ==
    /\ Switches
    /\ bank \in Available
    /\ StartOpening("open")
    /\ pending' = NoBank
    /\ changes' = changes - 1
    /\ UNCHANGED bank

ChangeBank == QueueBank \/ NothingToOpen \/ ShowLoaded \/ WaitForAudits \/ RefuseBank \/ OpenBank

-----------------------------------------------------------------------------
(* The operation of perform, from await to await *)

\* Any step of it raises: the error is shown and the workspace is free.
Fail ==
    /\ busy
    /\ Finish(loaded, bank, pending, sourceDay, view, changes)
    /\ UNCHANGED <<world, mirrors, bank, loaded, source, remote, job, liveVars, signature>>

EndExport ==
    /\ op.phase = "export"
    /\ Finish(loaded, bank, pending, sourceDay, view, changes)
    /\ UNCHANGED <<world, mirrors, bank, loaded, source, remote, job, liveVars, signature>>

\* download_audits and download_tango_logs of the bank asked for.
Download ==
    /\ op.phase = "download"
    /\ mirrors' = [mirrors EXCEPT ![op.folder] = [audits |-> op.names \intersect {op.bank}, content |-> content]]
    /\ op' = [op EXCEPT !.phase = "sign"]
    /\ UNCHANGED <<world, bank, loaded, source, remote, pending, changes, job, liveVars, signature, view>>

\* The files an operation loads, as they are now.
SignatureNow ==
    [bank |-> op.bank, day |-> op.day, folder |-> op.folder, audits |-> op.audits, content |-> ContentOf(op.audits)]

\* source_signature; a live update with nothing new ends here.
Sign ==
    /\ op.phase = "sign"
    /\ IF op.kind = "live" /\ SignatureNow = signature
       THEN Finish(loaded, bank, pending, sourceDay, view, changes)
       ELSE /\ op' = [op EXCEPT !.phase = "load", !.content = ContentOf(op.audits)]
            /\ UNCHANGED <<pending, changes, view>>
    /\ UNCHANGED <<world, mirrors, bank, loaded, source, remote, job, liveVars, signature>>

\* Mutant: the signature is taken again after the files are read.
SignatureAfter == SignatureNow

\* The signature that is kept: taken before the files are read.
SignatureKept == [SignatureNow EXCEPT !.content = op.content]

\* The other banks of a remote import, read and prepared in the background.
RemoteJob ==
    LET others == BanksFor(op.names) \ {op.bank} IN
    IF others = {} THEN job
    ELSE [folder |-> op.folder, day |-> op.day, remote |-> TRUE, names |-> op.names \ {op.bank}, banks |-> others, done |-> FALSE]

\* live_enabled after a load.
LiveAfter == live /\ op.kind \notin {"remote", "local"}

\* load_logs returns rows of the audits as they are between the signature and
\* now, and the workspace takes them.
Load ==
    /\ op.phase = "load"
    /\ \E read \in op.content..ContentOf(op.audits) :
       LET result == [SignatureNow EXCEPT !.content = read]
           isRemote == op.kind = "remote" \/ (remote /\ op.kind # "local")
           selects == op.kind = "remote" /\ pending = NoBank /\ bank # op.bank
           b == IF selects THEN op.bank ELSE bank
           scheduled == IF selects THEN changes + 1 ELSE changes
           shown == Refreshed(Labelled(view, op.day, op.bank), result, b, op.day) IN
       /\ scheduled <= MaxChanges
       /\ loaded' = result
       /\ remote' = isRemote
       /\ bank' = b
       /\ sourceFolder' = IF op.kind = "remote" THEN op.folder ELSE sourceFolder
       /\ auditFolder' = op.audits
       /\ sourceDay' = op.day
       /\ signature' = SignatureKept
       /\ IF op.kind = "live"
          THEN UNCHANGED liveVars
          ELSE ConfigureLive(LiveAfter, result, op.day, isRemote, b)
       /\ job' = IF op.kind = "remote" THEN RemoteJob ELSE job
       /\ IF op.kind = "local"
          THEN /\ op' = [op EXCEPT !.phase = "list"]
               /\ view' = shown
               /\ changes' = scheduled
               /\ UNCHANGED pending
          ELSE Finish(result, b, pending, op.day, shown, scheduled)
    /\ UNCHANGED <<world, mirrors>>

\* list_local_source_files; every bank has the shared audit.
StartLocalJob ==
    /\ op.phase = "list"
    /\ job' = IF Banks = {op.bank} THEN job
              ELSE [folder |-> loaded.folder, day |-> sourceDay, remote |-> FALSE, names |-> {}, banks |-> Banks \ {op.bank}, done |-> FALSE]
    /\ Finish(loaded, bank, pending, sourceDay, view, changes)
    /\ UNCHANGED <<world, mirrors, bank, loaded, source, remote, liveVars, signature>>

-----------------------------------------------------------------------------
(* Timers *)

\* poll_progress: the job is done, the bank that waited for it is tried.
PollProgress ==
    /\ pending # NoBank
    /\ job # NoJob /\ job.done
    /\ ~busy
    /\ changes < MaxChanges
    /\ changes' = changes + 1
    /\ UNCHANGED <<world, mirrors, bank, loaded, source, remote, pending, op, job, liveVars, signature, view>>

\* live_tick, the first branch: the day is over.
LiveTickStop ==
    /\ loaded # NoLogs /\ sourceDay # today
    /\ live \/ watcher # NoWatcher
    /\ ConfigureLive(live, loaded, sourceDay, remote, bank)
    /\ UNCHANGED <<world, mirrors, bank, loaded, source, remote, pending, changes, op, job, signature, view>>

\* live_tick: the selected bank is loaded again, or the bank that waits is
\* opened when its audit has arrived.
LiveTick ==
    /\ loaded # NoLogs /\ sourceDay = today
    /\ ~busy /\ live /\ watcher # NoWatcher
    /\ IF pending # NoBank
       THEN pending \in Available /\ StartOpening("open")
       ELSE StartOpening("live")
    /\ pending' = NoBank
    /\ UNCHANGED <<world, mirrors, bank, loaded, source, remote, changes, liveVars, signature, view>>

-----------------------------------------------------------------------------
(* The background job and the watcher of a mirror *)

\* RemoteAuditJob reads the audit of one more bank.
JobReads ==
    /\ job # NoJob /\ ~job.done
    /\ \E b \in job.names :
       /\ mirrors' = [mirrors EXCEPT ![job.folder].audits = @ \union {b}]
       /\ job' = [job EXCEPT !.names = @ \ {b}]
    /\ UNCHANGED <<world, bank, loaded, source, remote, pending, changes, op, liveVars, signature, view>>

\* It has read and prepared everything, or failed.
JobEnds ==
    /\ job # NoJob /\ ~job.done
    /\ job' = [job EXCEPT !.done = TRUE]
    /\ UNCHANGED <<world, mirrors, bank, loaded, source, remote, pending, changes, op, liveVars, signature, view>>

\* RemoteSourceWatcher connects ...
WatcherConnects ==
    /\ watcher # NoWatcher /\ watcher.remote /\ ~watcher.connected
    /\ watcher.day = today
    /\ watcher' = [watcher EXCEPT !.connected = TRUE]
    /\ UNCHANGED <<world, mirrors, bank, loaded, source, remote, pending, changes, op, job, live, signature, view>>

\* ... and mirrors the audits of its bank ...
WatcherMirrors ==
    /\ watcher # NoWatcher /\ watcher.connected
    /\ watcher.day = today
    /\ watcher.folder # Local
    /\ mirrors' = [mirrors EXCEPT ![watcher.folder] = [audits |-> @.audits \union (server \intersect {watcher.bank}), content |-> content]]
    /\ UNCHANGED <<world, bank, loaded, source, remote, pending, changes, op, job, liveVars, signature, view>>

\* ... until the connection is lost.
WatcherDisconnects ==
    /\ watcher # NoWatcher /\ watcher.connected
    /\ watcher' = [watcher EXCEPT !.connected = FALSE]
    /\ UNCHANGED <<world, mirrors, bank, loaded, source, remote, pending, changes, op, job, live, signature, view>>

-----------------------------------------------------------------------------
(* The source files *)

GrowFiles ==
    /\ content < MaxContent
    /\ content' = content + 1
    /\ UNCHANGED <<today, server, mirrors, bank, loaded, source, remote, pending, changes, op, job, liveVars, signature, view>>

NewServerAudit ==
    /\ server # Banks
    /\ \E b \in Banks \ server : server' = server \union {b}
    /\ UNCHANGED <<today, content, mirrors, bank, loaded, source, remote, pending, changes, op, job, liveVars, signature, view>>

Midnight ==
    /\ today < LastDay
    /\ today' = today + 1
    /\ UNCHANGED <<content, server, mirrors, bank, loaded, source, remote, pending, changes, op, job, liveVars, signature, view>>

-----------------------------------------------------------------------------
User ==
    \/ \E b \in Banks : SelectBank(b)
    \/ \E b \in Banks, day \in LocalDays : ImportLocal(b, day)
    \/ \E b \in Banks, day \in RemoteDays, names \in SUBSET Banks : ImportRemote(b, day, names)
    \/ ToggleLive \/ ChangeFilter \/ Export

Operation == EndExport \/ Download \/ Sign \/ Load \/ StartLocalJob

Next ==
    \/ User
    \/ ChangeBank
    \/ Operation \/ Fail
    \/ PollProgress \/ LiveTickStop \/ LiveTick
    \/ JobReads \/ JobEnds \/ WatcherConnects \/ WatcherMirrors \/ WatcherDisconnects
    \/ GrowFiles \/ NewServerAudit \/ Midnight

Spec == Init /\ [][Next]_vars
-----------------------------------------------------------------------------
(***************************************************************************)
(* The table never shows rows of another bank than the one selected, but   *)
(* for the moment until the selector's own change_bank runs (refresh,      *)
(* clear_bank_results; 449-493).                                           *)
(***************************************************************************)
RowsOfSelectedBank ==
    view.rows # NoRows => view.rows = loaded /\ (view.rows.bank = bank \/ changes > 0)

(***************************************************************************)
(* The bank that waits is the bank selected: neither a finished operation  *)
(* nor a timer opens a bank the user has left again (495-550).             *)
(***************************************************************************)
PendingIsSelected ==
    pending # NoBank /\ loaded # NoLogs /\ ~busy => pending = bank \/ changes > 0

(***************************************************************************)
(* The selector may be turned at any await of any operation: what is shown *)
(* and what is waited for both belong to the bank it is left on, once its  *)
(* own change_bank has run (449-550).                                      *)
(***************************************************************************)
FollowsSelector == RowsOfSelectedBank /\ PendingIsSelected

(***************************************************************************)
(* A background job works on the files that are loaded (629-633, 675-690). *)
(***************************************************************************)
JobOfLoaded == job # NoJob => loaded # NoLogs /\ job.folder = loaded.folder

(***************************************************************************)
(* Logs and audits of one load come from the same source, although         *)
(* source_folder, audit_source_folder and the import's own folder are set  *)
(* at different moments and some imports fail in between (603-653).        *)
(***************************************************************************)
OneSource == loaded # NoLogs => loaded.folder = loaded.audits

(***************************************************************************)
(* "Selected date shows the loaded day and bank" (README.md:79).           *)
(***************************************************************************)
LabelOfRows ==
    view.rows # NoRows /\ changes = 0 => view.label.day = view.rows.day /\ view.label.bank = view.rows.bank

\* A folder in use is the local one or a mirror that was made.
Known == {Local} \union DOMAIN mirrors
FoldersExist ==
    /\ {sourceFolder, auditFolder, op.folder, op.audits} \subseteq Known
    /\ loaded # NoLogs => {loaded.folder, loaded.audits} \subseteq Known
    /\ watcher # NoWatcher => watcher.folder \in Known

\* What an operation is about to load leaves no job of other files.
reads == op.phase \in {"download", "sign", "load"}
OperationHasSource ==
    /\ reads => op.day # NoDay /\ (job # NoJob => op.kind # "remote" /\ job.folder = op.folder)
    /\ loaded # NoLogs => sourceDay # NoDay
    /\ op.phase = "list" => loaded # NoLogs

\* Without a local import, an operation for another bank reads what is shown.
SourceOfLoaded ==
    /\ sourceFolder = auditFolder
    /\ loaded # NoLogs => loaded.folder = sourceFolder /\ loaded.day = sourceDay
    /\ reads => op.folder = op.audits
    /\ reads /\ op.kind # "remote" => loaded # NoLogs /\ op.folder = sourceFolder /\ op.day = sourceDay

LabelOfSelected ==
    loaded # NoLogs /\ changes = 0 => view.label.day = sourceDay /\ view.label.bank = bank

(***************************************************************************)
(* What is loaded, its folders, its job and its label belong together,     *)
(* whichever import or load failed on the way (603-690).                   *)
(***************************************************************************)
WorkspaceInv ==
    /\ TypeOK /\ FoldersExist
    /\ JobOfLoaded /\ OperationHasSource
    /\ OneSource /\ SourceOfLoaded
    /\ LabelOfRows /\ LabelOfSelected

-----------------------------------------------------------------------------
(* Scheduling: tasks, timers, awaited calls and threads go on by themselves, *)
(* and a read that is tried again and again succeeds in the end.             *)
LiveSpec ==
    /\ Spec
    /\ WF_vars(ChangeBank) /\ WF_vars(Operation)
    /\ SF_vars(Sign) /\ SF_vars(Load)
    /\ WF_vars(PollProgress) /\ WF_vars(LiveTickStop) /\ WF_vars(LiveTick)
    /\ WF_vars(JobEnds) /\ WF_vars(WatcherConnects) /\ WF_vars(WatcherMirrors)

\* The user leaves the workspace alone and the connection holds.
Undisturbed == <>[][~User /\ ~WatcherDisconnects]_vars

(***************************************************************************)
(* Undisturbed, a bank that waits is opened, shown or refused, if its      *)
(* audit is to be had (poll_progress, perform, live_tick): "The previous   *)
(* list clears immediately while the new bank loads" (README.md:84).       *)
(***************************************************************************)
PendingSettles ==
    Undisturbed => (pending # NoBank /\ loaded # NoLogs /\ (remote => pending \in server) ~> pending = NoBank)

(***************************************************************************)
(* "Capture BEFORE parsing so appends during the scan trigger another      *)
(* pass" (666): with live update on, the rows of the selected bank catch   *)
(* up with the files.                                                      *)
(***************************************************************************)
LiveCatchesUp ==
    Undisturbed =>
        (live /\ watcher # NoWatcher /\ content = MaxContent
            ~> ~live \/ (loaded # NoLogs /\ (loaded.content = MaxContent \/ bank # loaded.bank)))
=============================================================================
