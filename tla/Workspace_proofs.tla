--------------------------- MODULE Workspace_proofs ---------------------------
(***************************************************************************)
(* What holds of a session of the web interface however many banks, days,  *)
(* imports and changes of the selector it sees.                            *)
(*                                                                         *)
(* The handlers share a few helpers (Cleared, Refreshed, Labelled, Finish, *)
(* ConfigureLive, StartLoad); the first lemmas say what each does to the   *)
(* list, the label and the bank that waits, as relations on values, so     *)
(* that every handler that calls one uses the same lemma.                  *)
(***************************************************************************)
EXTENDS Workspace, TLAPS

USE DEF NoRows

\* RowsOfSelectedBank, PendingIsSelected and LabelOfSelected of given values.
RowsOf(v, l, b, n) == v.rows # NoRows => v.rows = l /\ (v.rows.bank = b \/ n > 0)
WaitsFor(p, l, b, n) == p # NoBank /\ l # NoLogs => p = b \/ n > 0
LabelOf(v, l, b, day, n) == l # NoLogs /\ n = 0 => v.label.day = day /\ v.label.bank = b

LEMMA LogsDiffer == \A l \in Logs : l # NoLogs
BY NothingAssumption

LEMMA LabelFields ==
    ASSUME NEW label \in Labels
    PROVE  label.day \in Days \union {NoDay} /\ label.bank \in Banks /\ label.loading \in BOOLEAN
BY DEF Labels

LEMMA ViewFields ==
    ASSUME NEW v \in Views
    PROVE  v.rows \in Logs \union {NoRows} /\ v.label \in Labels
BY DEF Views

LEMMA NewView ==
    ASSUME NEW rows \in Logs \union {NoRows}, NEW label \in Labels
    PROVE  [rows |-> rows, label |-> label] \in Views
BY DEF Views

LEMMA NewLabel ==
    ASSUME NEW day \in Days \union {NoDay}, NEW b \in Banks, NEW loading \in BOOLEAN
    PROVE  [day |-> day, bank |-> b, loading |-> loading] \in Labels
BY DEF Labels

LEMMA NewFields ==
    ASSUME NEW rows, NEW label
    PROVE  [rows |-> rows, label |-> label].rows = rows /\ [rows |-> rows, label |-> label].label = label
OBVIOUS

LEMMA ClearedFacts ==
    ASSUME NEW v \in Views, NEW b \in Banks, NEW day \in Days \union {NoDay}
    PROVE  /\ Cleared(v, b, day) \in Views
           /\ Cleared(v, b, day).rows = NoRows
           /\ day # NoDay => Cleared(v, b, day).label.day = day /\ Cleared(v, b, day).label.bank = b
<1> DEFINE label == [day |-> day, bank |-> b, loading |-> TRUE]
<1>1. v.label \in Labels BY ViewFields
<1>2. label \in Labels /\ label.day = day /\ label.bank = b BY NewLabel
<1>3. Cleared(v, b, day) = IF day = NoDay THEN [rows |-> NoRows, label |-> v.label] ELSE [rows |-> NoRows, label |-> label]
  BY DEF Cleared
<1> HIDE DEF label, Days, NoDay, Labels
<1> QED BY <1>1, <1>2, <1>3, NewView, NewFields

LEMMA LabelledFacts ==
    ASSUME NEW v \in Views, NEW b \in Banks, NEW day \in Days \union {NoDay}
    PROVE  /\ Labelled(v, day, b) \in Views
           /\ Labelled(v, day, b).rows = v.rows
           /\ Labelled(v, day, b).label.day = day /\ Labelled(v, day, b).label.bank = b
<1> DEFINE label == [day |-> day, bank |-> b, loading |-> FALSE]
<1>1. label \in Labels /\ label.day = day /\ label.bank = b BY NewLabel
<1>2. Labelled(v, day, b) = [v EXCEPT !.label = label] BY DEF Labelled
<1> HIDE DEF label, Labels
<1>3. Labelled(v, day, b) = [rows |-> v.rows, label |-> label] BY <1>2 DEF Views
<1>4. v.rows \in Logs \union {NoRows} BY ViewFields
<1> QED BY <1>1, <1>3, <1>4, NewView, NewFields

\* refresh leaves no rows but those loaded, of the bank selected.
LEMMA RefreshedFacts ==
    ASSUME NEW v \in Views, NEW l \in Logs \union {NoLogs}, NEW b \in Banks, NEW day \in Days \union {NoDay}
    PROVE  LET shown == Refreshed(v, l, b, day) IN
           /\ shown \in Views
           /\ l = NoLogs => shown = v
           /\ l # NoLogs => (shown.rows # NoRows => shown.rows = l /\ l.bank = b)
           /\ l # NoLogs /\ l.bank = b => shown.label = v.label
           /\ l # NoLogs /\ l.bank # b /\ day # NoDay => shown.label.day = day /\ shown.label.bank = b
<1> DEFINE shown == Refreshed(v, l, b, day)
<1>1. CASE l = NoLogs BY <1>1 DEF Refreshed
<1>2. CASE l # NoLogs /\ l.bank # b
  <2>1. shown = Cleared(v, b, day) BY <1>2 DEF Refreshed
  <2> QED BY <1>2, <2>1, ClearedFacts
<1>3. CASE l # NoLogs /\ l.bank = b
  <2>1. shown = [rows |-> l, label |-> v.label] BY <1>3 DEF Refreshed, Views
  <2>2. v.label \in Labels BY ViewFields
  <2> QED BY <1>3, <2>1, <2>2, NewView
<1> QED BY <1>1, <1>2, <1>3

LEMMA RefreshedFollows ==
    ASSUME NEW v \in Views, NEW l \in Logs \union {NoLogs}, NEW b \in Banks, NEW day \in Days \union {NoDay}, NEW n \in Nat,
           RowsOf(v, l, b, n)
    PROVE  /\ Refreshed(v, l, b, day) \in Views
           /\ RowsOf(Refreshed(v, l, b, day), l, b, n)
           /\ LabelOf(v, l, b, day, n) /\ (l # NoLogs => day # NoDay) => LabelOf(Refreshed(v, l, b, day), l, b, day, n)
<1> HIDE DEF Days, NoDay
<1> QED BY RefreshedFacts DEF RowsOf, LabelOf

-----------------------------------------------------------------------------
(* The end of an operation. *)

LEMMA IdleIsOp == Idle \in Ops /\ Idle.phase = "idle" /\ Idle.folder = Local /\ Idle.audits = Local
BY WorkspaceAssumption DEF Idle, Ops, Folders, Days

LEMMA FinishFacts ==
    ASSUME NEW l \in Logs \union {NoLogs}, NEW b \in Banks, NEW p \in Banks \union {NoBank}, NEW day \in Days \union {NoDay},
           NEW v \in Views, NEW n \in 0..MaxChanges, RowsOf(v, l, b, n), Finish(l, b, p, day, v, n)
    PROVE  /\ op' = Idle /\ pending' \in Banks \union {NoBank} /\ changes' \in 0..MaxChanges /\ view' \in Views
           /\ RowsOf(view', l, b, changes') /\ WaitsFor(pending', l, b, changes')
           /\ LabelOf(v, l, b, day, n) => LabelOf(view', l, b, day, changes')
<1> HIDE DEF Days, NoDay
<1>1. n \in Nat /\ MaxChanges \in Nat BY WorkspaceAssumption
<1>2. CASE p # NoBank /\ l # NoLogs /\ b = l.bank
  <2>1. op' = Idle /\ pending' = NoBank /\ changes' = n /\ view' = Refreshed(v, l, b, day)
    BY <1>2 DEF Finish
  <2> QED BY <1>1, <1>2, <2>1, RefreshedFacts DEF RowsOf, WaitsFor, LabelOf
<1>3. CASE p # NoBank /\ l # NoLogs /\ b # l.bank
  <2>1. op' = Idle /\ pending' = p /\ changes' = n + 1 /\ view' = v /\ n < MaxChanges
    BY <1>3 DEF Finish
  <2>2. changes' \in 0..MaxChanges /\ changes' > 0 BY <1>1, <2>1
  <2> QED BY <2>1, <2>2 DEF RowsOf, WaitsFor, LabelOf
<1>4. CASE ~(p # NoBank /\ l # NoLogs)
  <2>1. op' = Idle /\ pending' = p /\ changes' = n /\ view' = v BY <1>4 DEF Finish
  <2> QED BY <1>4, <2>1 DEF RowsOf, WaitsFor, LabelOf
<1> QED BY <1>2, <1>3, <1>4

-----------------------------------------------------------------------------
(* What starts a load, and what sets live update up. *)

LEMMA OpFields ==
    ASSUME NEW o \in Ops
    PROVE  /\ o.phase \in {"idle", "download", "sign", "load", "list", "export"}
           /\ o.kind \in {"open", "live", "local", "remote", "export"}
           /\ o.bank \in Banks /\ o.day \in Days \union {NoDay} /\ o.folder \in Folders /\ o.audits \in Folders
           /\ o.names \in SUBSET Banks /\ o.content \in 0..MaxContent
BY DEF Ops

LEMMA LogFields ==
    ASSUME NEW l \in Logs
    PROVE  /\ l.bank \in Banks /\ l.day \in Days /\ l.folder \in Folders /\ l.audits \in Folders
           /\ l.content \in 0..MaxContent /\ l # NoLogs
BY NothingAssumption DEF Logs

LEMMA NewLogs ==
    ASSUME NEW b \in Banks, NEW day \in Days, NEW folder \in Folders, NEW audits \in Folders, NEW grown \in 0..MaxContent
    PROVE  [bank |-> b, day |-> day, folder |-> folder, audits |-> audits, content |-> grown] \in Logs
BY DEF Logs

LEMMA DaysAre == NoDay \notin Days /\ Days \subseteq Nat
BY DEF Days, NoDay

LEMMA StartLoadFacts ==
    ASSUME job \in Jobs \union {NoJob}, NEW kind \in {"open", "live", "local"}, NEW b \in Banks, NEW day \in Days \union {NoDay},
           NEW folder \in Folders, NEW audits \in Folders, StartLoad(kind, b, day, folder, audits)
    PROVE  /\ op' \in Ops /\ op'.phase = "sign" /\ op'.kind = kind /\ op'.bank = b /\ op'.day = day
           /\ op'.folder = folder /\ op'.audits = audits
           /\ job' \in {job, NoJob}
           /\ job' # NoJob => job' = job /\ kind # "local" /\ job.folder = folder
<1>1. op' = [Idle EXCEPT !.phase = "sign", !.kind = kind, !.bank = b, !.day = day, !.folder = folder, !.audits = audits]
  BY DEF StartLoad
<1>2. op' = [phase |-> "sign", kind |-> kind, bank |-> b, day |-> day, folder |-> folder, audits |-> audits, names |-> {}, content |-> 0]
  BY <1>1 DEF Idle
<1>3. 0 \in 0..MaxContent /\ {} \in SUBSET Banks BY WorkspaceAssumption
<1> HIDE DEF Days, NoDay
<1>4. op' \in Ops BY <1>2, <1>3 DEF Ops
<1>5. job' \in {job, NoJob} /\ (job' # NoJob => job' = job /\ kind # "local" /\ job.folder = folder)
  BY DEF StartLoad, StopsJob
<1> QED BY <1>2, <1>4, <1>5

LEMMA WatcherFields ==
    ASSUME NEW w \in Watchers
    PROVE  /\ w.remote \in BOOLEAN /\ w.folder \in Folders /\ w.day \in Days /\ w.bank \in Banks /\ w.connected \in BOOLEAN
           /\ \A c \in BOOLEAN : [w EXCEPT !.connected = c] \in Watchers /\ [w EXCEPT !.connected = c].folder = w.folder
           /\ w # NoWatcher
BY NothingAssumption DEF Watchers

LEMMA ConfigureLiveFacts ==
    ASSUME NEW on \in BOOLEAN, NEW l \in Logs \union {NoLogs}, NEW day \in Days \union {NoDay}, today \in Days,
           NEW isRemote \in BOOLEAN, NEW b \in Banks, ConfigureLive(on, l, day, isRemote, b)
    PROVE  /\ live' \in BOOLEAN /\ watcher' \in Watchers \union {NoWatcher}
           /\ watcher' # NoWatcher => l # NoLogs /\ watcher'.folder = l.folder
           /\ ~on => ~live'
<1> HIDE DEF Days, NoDay
<1>1. CASE l # NoLogs /\ day # today BY <1>1 DEF ConfigureLive
<1>2. CASE ~(l # NoLogs /\ day # today)
  <2> DEFINE started == [remote |-> isRemote, folder |-> l.folder, day |-> day, bank |-> b, connected |-> FALSE]
  <2>1. live' = on /\ watcher' = IF on /\ l # NoLogs THEN started ELSE NoWatcher BY <1>2 DEF ConfigureLive
  <2>2. ASSUME l # NoLogs PROVE started \in Watchers /\ started.folder = l.folder
    <3>1. l \in Logs /\ day \in Days BY <1>2, <2>2
    <3>2. l.folder \in Folders BY <3>1, LogFields
    <3> QED BY <3>1, <3>2 DEF Watchers
  <2> HIDE DEF started
  <2> QED BY <2>1, <2>2
<1> QED BY <1>1, <1>2

-----------------------------------------------------------------------------
(* What holds of every session. *)

SafeSession == TypeOK /\ FoldersExist /\ JobOfLoaded /\ OperationHasSource /\ FollowsSelector

LEMMA SessionStarts == Init => SafeSession
<1> SUFFICES ASSUME Init PROVE SafeSession OBVIOUS
<1>1. 1 \in Days /\ 0 \in 0..MaxContent /\ 0 \in 0..MaxChanges /\ Local \in Folders /\ NoDay \in Days \union {NoDay}
  BY WorkspaceAssumption DEF Days, Folders
<1>2. FirstBank \in Banks /\ Banks \ LateAudits \subseteq Banks BY WorkspaceAssumption
<1>3. <<>> \in Seq(Mirrors) /\ Len(<<>>) <= MaxImports BY WorkspaceAssumption
<1>4. view \in Views
  <2> DEFINE label == [day |-> NoDay, bank |-> FirstBank, loading |-> FALSE]
  <2>1. label \in Labels BY <1>2, NewLabel
  <2>2. view = [rows |-> NoRows, label |-> label] BY DEF Init
  <2> HIDE DEF label
  <2> QED BY <2>1, <2>2, NewView
<1>5. TypeOK BY <1>1, <1>2, <1>3, <1>4, IdleIsOp DEF Init, TypeOK
<1>6. FoldersExist BY IdleIsOp DEF Init, FoldersExist, Known
<1>7. JobOfLoaded /\ OperationHasSource BY IdleIsOp DEF Init, JobOfLoaded, OperationHasSource, reads
<1>8. FollowsSelector BY DEF Init, FollowsSelector, RowsOfSelectedBank, PendingIsSelected
<1> QED BY <1>5, <1>6, <1>7, <1>8 DEF SafeSession
-----------------------------------------------------------------------------
(* The user, the timers and the watcher: what they change keeps its type,  *)
(* and they leave the rest alone.                                          *)

LEMMA SessionTypes ==
    ASSUME SafeSession
    PROVE  /\ today \in Days /\ content \in 0..MaxContent /\ server \subseteq Banks
           /\ mirrors \in Seq(Mirrors) /\ Len(mirrors) \in Nat /\ Len(mirrors) <= MaxImports /\ DOMAIN mirrors = 1..Len(mirrors)
           /\ bank \in Banks /\ loaded \in Logs \union {NoLogs}
           /\ sourceDay \in Days \union {NoDay} /\ sourceFolder \in Folders /\ auditFolder \in Folders /\ remote \in BOOLEAN
           /\ pending \in Banks \union {NoBank} /\ changes \in 0..MaxChanges /\ changes \in Nat /\ op \in Ops
           /\ job \in Jobs \union {NoJob} /\ live \in BOOLEAN /\ watcher \in Watchers \union {NoWatcher}
           /\ signature \in Logs \union {NoLogs} /\ view \in Views
<1>1. MaxChanges \in Nat /\ MaxImports \in Nat BY WorkspaceAssumption
<1> QED BY <1>1 DEF SafeSession, TypeOK

LEMMA SessionFollows ==
    ASSUME SafeSession
    PROVE  /\ RowsOf(view, loaded, bank, changes)
           /\ ~busy => WaitsFor(pending, loaded, bank, changes)
           /\ loaded # NoLogs => sourceDay # NoDay /\ loaded \in Logs
BY SessionTypes
DEF SafeSession, FollowsSelector, RowsOfSelectedBank, PendingIsSelected, RowsOf, WaitsFor, OperationHasSource

\* Steps outside the workspace, and of its timers.
LEMMA OutsideKeeps ==
    ASSUME SafeSession, UNCHANGED <<bank, loaded, source, remote, pending, op, signature, view>>,
           changes' \in 0..MaxChanges, changes' >= changes,
           today' \in Days, content' \in 0..MaxContent, server' \subseteq Banks,
           mirrors' \in Seq(Mirrors), Len(mirrors') = Len(mirrors),
           job' \in Jobs \union {NoJob}, job' # NoJob => job # NoJob /\ job'.folder = job.folder,
           live' \in BOOLEAN, watcher' \in Watchers \union {NoWatcher},
           watcher' # NoWatcher => watcher # NoWatcher /\ watcher'.folder = watcher.folder
    PROVE  SafeSession'
<1> HIDE DEF Days, NoDay
<1> USE DEF source
<1>1. TypeOK' BY SessionTypes DEF TypeOK
<1>2. DOMAIN mirrors' = DOMAIN mirrors BY SessionTypes
<1>3. FoldersExist' BY <1>2 DEF SafeSession, FoldersExist, Known
<1>4. JobOfLoaded' /\ OperationHasSource' BY DEF SafeSession, JobOfLoaded, OperationHasSource, reads
<1>5. changes > 0 => changes' > 0 BY SessionTypes
<1>6. FollowsSelector' BY <1>5 DEF SafeSession, FollowsSelector, RowsOfSelectedBank, PendingIsSelected, busy
<1> QED BY <1>1, <1>3, <1>4, <1>6 DEF SafeSession

\* An operation ends, however it ends.
LEMMA EndKeeps ==
    ASSUME SafeSession, Finish(loaded, bank, pending, sourceDay, view, changes),
           UNCHANGED <<world, mirrors, bank, loaded, source, remote, liveVars, signature>>,
           job' \in Jobs \union {NoJob}, job' # NoJob => loaded # NoLogs /\ job'.folder = loaded.folder
    PROVE  SafeSession'
<1> HIDE DEF Days, NoDay
<1> USE DEF source, world, liveVars
<1>1. /\ op' = Idle /\ pending' \in Banks \union {NoBank} /\ changes' \in 0..MaxChanges /\ view' \in Views
      /\ RowsOf(view', loaded, bank, changes') /\ WaitsFor(pending', loaded, bank, changes')
  BY SessionTypes, SessionFollows, FinishFacts
<1>2. TypeOK' BY <1>1, SessionTypes, IdleIsOp DEF TypeOK
<1>3. FoldersExist' BY <1>1, IdleIsOp DEF SafeSession, FoldersExist, Known
<1>4. JobOfLoaded' /\ OperationHasSource'
  BY <1>1, IdleIsOp DEF SafeSession, JobOfLoaded, OperationHasSource, reads
<1>5. FollowsSelector' BY <1>1 DEF FollowsSelector, RowsOfSelectedBank, PendingIsSelected, RowsOf, WaitsFor
<1> QED BY <1>2, <1>3, <1>4, <1>5 DEF SafeSession

\* An operation starts, or goes on to its next await.
LEMMA OperationKeeps ==
    ASSUME SafeSession, UNCHANGED <<world, loaded, remote, signature>>,
           UNCHANGED <<live, watcher>> \/ (watcher' # NoWatcher => loaded # NoLogs /\ watcher'.folder = loaded.folder),
           live' \in BOOLEAN, watcher' \in Watchers \union {NoWatcher}, bank' \in Banks,
           mirrors' \in Seq(Mirrors), Len(mirrors') <= MaxImports, Len(mirrors) <= Len(mirrors'),
           sourceDay' \in Days \union {NoDay}, loaded # NoLogs => sourceDay' # NoDay,
           {sourceFolder', auditFolder'} \subseteq Folders \intersect ({Local} \union DOMAIN mirrors'),
           pending' \in Banks \union {NoBank}, changes' \in 0..MaxChanges,
           op' \in Ops, op'.phase # "idle", {op'.folder, op'.audits} \subseteq {Local} \union DOMAIN mirrors',
           op'.phase = "list" => loaded # NoLogs,
           job' \in {job, NoJob},
           op'.phase \in {"download", "sign", "load"} =>
               op'.day # NoDay /\ (job' # NoJob => op'.kind # "remote" /\ job'.folder = op'.folder),
           view' \in Views, RowsOf(view', loaded, bank', changes')
    PROVE  SafeSession'
<1> HIDE DEF Days, NoDay
<1> USE DEF world
<1>1. TypeOK' BY SessionTypes DEF TypeOK
<1>2. DOMAIN mirrors \subseteq DOMAIN mirrors' BY SessionTypes
<1>3. FoldersExist' BY <1>2 DEF SafeSession, FoldersExist, Known
<1>4. JobOfLoaded' /\ OperationHasSource' BY DEF SafeSession, JobOfLoaded, OperationHasSource, reads
<1>5. FollowsSelector' BY DEF FollowsSelector, RowsOfSelectedBank, PendingIsSelected, RowsOf, busy
<1> QED BY <1>1, <1>3, <1>4, <1>5 DEF SafeSession

\* A handler that leaves the operation alone: the selector, and the list.
LEMMA HandlerKeeps ==
    ASSUME SafeSession, UNCHANGED <<world, mirrors, loaded, remote, source, op, job, signature>>,
           UNCHANGED <<live, watcher>> \/ (watcher' # NoWatcher => loaded # NoLogs /\ watcher'.folder = loaded.folder),
           live' \in BOOLEAN, watcher' \in Watchers \union {NoWatcher}, bank' \in Banks,
           pending' \in Banks \union {NoBank}, changes' \in 0..MaxChanges,
           view' \in Views, RowsOf(view', loaded, bank', changes'),
           busy \/ WaitsFor(pending', loaded, bank', changes')
    PROVE  SafeSession'
<1> HIDE DEF Days, NoDay
<1> USE DEF world, source
<1>1. TypeOK' BY SessionTypes DEF TypeOK
<1>2. FoldersExist' BY DEF SafeSession, FoldersExist, Known
<1>3. JobOfLoaded' /\ OperationHasSource' BY DEF SafeSession, JobOfLoaded, OperationHasSource, reads
<1>4. FollowsSelector' BY DEF FollowsSelector, RowsOfSelectedBank, PendingIsSelected, RowsOf, WaitsFor, busy
<1> QED BY <1>1, <1>2, <1>3, <1>4 DEF SafeSession
-----------------------------------------------------------------------------
(* Handler by handler. *)

LEMMA SelectBankKeeps ==
    ASSUME SafeSession, NEW b \in Banks, SelectBank(b)
    PROVE  SafeSession'
<1>1. changes' \in 0..MaxChanges /\ changes' > 0 BY SessionTypes, WorkspaceAssumption DEF SelectBank
<1>2. RowsOf(view', loaded, bank', changes') /\ WaitsFor(pending', loaded, bank', changes')
  BY <1>1, SessionFollows DEF SelectBank, RowsOf, WaitsFor
<1> HIDE DEF Days, NoDay
<1> QED BY <1>1, <1>2, SessionTypes, HandlerKeeps DEF SelectBank, world, source, liveVars

LEMMA ListKeeps ==
    ASSUME SafeSession, ToggleLive \/ ChangeFilter \/ LiveTickStop
    PROVE  SafeSession'
<1>1. CASE ChangeFilter
  <2>1. view' \in Views /\ RowsOf(view', loaded, bank, changes)
    BY <1>1, SessionTypes, SessionFollows, RefreshedFollows DEF ChangeFilter
  <2> HIDE DEF Days, NoDay
  <2> QED BY <1>1, <2>1, SessionTypes, SessionFollows, HandlerKeeps DEF ChangeFilter, liveVars
<1>2. CASE ToggleLive \/ LiveTickStop
  <2>1. /\ live' \in BOOLEAN /\ watcher' \in Watchers \union {NoWatcher}
        /\ watcher' # NoWatcher => loaded # NoLogs /\ watcher'.folder = loaded.folder
    BY <1>2, SessionTypes, ConfigureLiveFacts DEF ToggleLive, LiveTickStop
  <2> HIDE DEF Days, NoDay
  <2> QED BY <1>2, <2>1, SessionTypes, SessionFollows, HandlerKeeps DEF ToggleLive, LiveTickStop
<1> QED BY <1>1, <1>2

LEMMA TakesTurnFacts ==
    ASSUME SafeSession, TakesTurn(bank)
    PROVE  /\ changes - 1 \in 0..MaxChanges /\ changes > 0 /\ UNCHANGED <<world, mirrors, loaded, source, remote, signature>>
           /\ view' \in Views /\ view'.rows = NoRows
           /\ loaded # NoLogs => view'.label.day = sourceDay /\ view'.label.bank = bank
<1>1. changes - 1 \in 0..MaxChanges BY SessionTypes, WorkspaceAssumption DEF TakesTurn
<1>2. CASE loaded = NoLogs
  <2>1. view' = view BY <1>2 DEF TakesTurn
  <2> QED BY <1>1, <1>2, <2>1, SessionTypes, SessionFollows DEF TakesTurn, RowsOf
<1>3. CASE loaded # NoLogs
  <2>1. view' = Cleared(view, bank, sourceDay) BY <1>3 DEF TakesTurn
  <2> HIDE DEF Days, NoDay
  <2> QED BY <1>1, <1>3, <2>1, SessionTypes, SessionFollows, ClearedFacts DEF TakesTurn
<1> QED BY <1>2, <1>3

LEMMA SwitchesFacts ==
    ASSUME SafeSession, Switches
    PROVE  /\ live' \in BOOLEAN /\ watcher' \in Watchers \union {NoWatcher}
           /\ watcher' # NoWatcher => loaded # NoLogs /\ watcher'.folder = loaded.folder
           /\ loaded \in Logs /\ loaded # NoLogs /\ TakesTurn(bank)
BY SessionTypes, ConfigureLiveFacts DEF Switches

\* change_bank that opens nothing.
LEMMA ChangeBankKeeps ==
    ASSUME SafeSession, QueueBank \/ NothingToOpen \/ ShowLoaded \/ WaitForAudits \/ RefuseBank
    PROVE  SafeSession'
<1> HIDE DEF Days, NoDay
<1>1. CASE QueueBank
  <2>1. TakesTurn(bank) BY <1>1 DEF QueueBank
  <2>2. RowsOf(view', loaded, bank, changes') BY <2>1, TakesTurnFacts DEF RowsOf
  <2> QED BY <1>1, <2>1, <2>2, TakesTurnFacts, SessionTypes, HandlerKeeps DEF QueueBank, liveVars
<1>2. CASE NothingToOpen
  <2>1. TakesTurn(bank) BY <1>2 DEF NothingToOpen
  <2>2. RowsOf(view', loaded, bank, changes') /\ WaitsFor(pending', loaded, bank, changes')
    BY <1>2, <2>1, TakesTurnFacts DEF RowsOf, WaitsFor, NothingToOpen
  <2> QED BY <1>2, <2>1, <2>2, TakesTurnFacts, SessionTypes, HandlerKeeps DEF NothingToOpen, liveVars
<1>3. CASE ShowLoaded
  <2> DEFINE shown == Refreshed(view, loaded, bank, sourceDay)
  <2>1. changes - 1 \in 0..MaxChanges BY <1>3, SessionTypes, WorkspaceAssumption DEF ShowLoaded
  <2>2. loaded # NoLogs /\ loaded \in Logs /\ loaded.bank = bank /\ sourceDay # NoDay BY <1>3, SessionFollows DEF ShowLoaded
  <2>3. shown \in Views /\ (shown.rows # NoRows => shown.rows = loaded) BY <2>2, SessionTypes, RefreshedFacts
  <2>4. view' = Labelled(shown, sourceDay, bank) BY <1>3 DEF ShowLoaded
  <2> HIDE DEF shown
  <2>5. view' \in Views /\ view'.rows = shown.rows BY <2>3, <2>4, SessionTypes, LabelledFacts
  <2>6. RowsOf(view', loaded, bank, changes') BY <2>2, <2>3, <2>5 DEF RowsOf
  <2>7. WaitsFor(pending', loaded, bank, changes') BY <1>3 DEF ShowLoaded, WaitsFor
  <2> QED BY <1>3, <2>1, <2>5, <2>6, <2>7, SessionTypes, HandlerKeeps DEF ShowLoaded, liveVars
<1>4. CASE WaitForAudits
  <2>1. Switches /\ TakesTurn(bank) BY <1>4 DEF WaitForAudits, Switches
  <2>2. RowsOf(view', loaded, bank, changes') /\ WaitsFor(pending', loaded, bank, changes')
    BY <1>4, <2>1, TakesTurnFacts DEF RowsOf, WaitsFor, WaitForAudits
  <2> QED BY <1>4, <2>1, <2>2, TakesTurnFacts, SwitchesFacts, SessionTypes, HandlerKeeps DEF WaitForAudits
<1>5. CASE RefuseBank
  <2>1. Switches /\ TakesTurn(bank) BY <1>5 DEF RefuseBank, Switches
  <2>2. RowsOf(view', loaded, bank', changes') /\ WaitsFor(pending', loaded, bank', changes')
    BY <1>5, <2>1, TakesTurnFacts DEF RowsOf, WaitsFor, RefuseBank
  <2>3. bank' \in Banks BY <1>5, <2>1, SwitchesFacts, LogFields DEF RefuseBank
  <2> QED BY <1>5, <2>1, <2>2, <2>3, TakesTurnFacts, SwitchesFacts, SessionTypes, HandlerKeeps DEF RefuseBank
<1> QED BY <1>1, <1>2, <1>3, <1>4, <1>5
\* A folder of a session is one that exists.
LEMMA FolderFacts ==
    ASSUME SafeSession
    PROVE  /\ {sourceFolder, auditFolder, op.folder, op.audits} \subseteq {Local} \union DOMAIN mirrors
           /\ Local \in Folders /\ DOMAIN mirrors \subseteq Folders
           /\ \A folder \in {Local} \union DOMAIN mirrors : ContentOf(folder) \in 0..MaxContent
<1>1. {sourceFolder, auditFolder, op.folder, op.audits} \subseteq {Local} \union DOMAIN mirrors
  BY DEF SafeSession, FoldersExist, Known
<1>2. Local \in Folders /\ DOMAIN mirrors \subseteq Folders BY SessionTypes, WorkspaceAssumption DEF Folders
<1>3. \A m \in DOMAIN mirrors : mirrors[m] \in Mirrors BY SessionTypes
<1>4. ASSUME NEW folder \in {Local} \union DOMAIN mirrors PROVE ContentOf(folder) \in 0..MaxContent
  <2>1. CASE folder = Local BY <2>1, SessionTypes DEF ContentOf
  <2>2. CASE folder # Local
    <3>1. folder \in DOMAIN mirrors BY <2>2
    <3>2. mirrors[folder] \in Mirrors BY <1>3, <3>1
    <3> QED BY <2>2, <3>2 DEF ContentOf, Mirrors
  <2> QED BY <2>1, <2>2
<1> QED BY <1>1, <1>2, <1>4

LEMMA OpenBankKeeps ==
    ASSUME SafeSession, OpenBank
    PROVE  SafeSession'
<1>1. Switches /\ TakesTurn(bank) /\ StartLoad("open", bank, sourceDay, sourceFolder, auditFolder)
  BY DEF OpenBank, Switches, StartOpening
<1> HIDE DEF Days, NoDay
<1>2. /\ op' \in Ops /\ op'.phase = "sign" /\ op'.day = sourceDay /\ op'.kind = "open"
      /\ op'.folder = sourceFolder /\ op'.audits = auditFolder
      /\ job' \in {job, NoJob} /\ (job' # NoJob => job'.folder = sourceFolder)
  BY <1>1, SessionTypes, StartLoadFacts
<1>3. RowsOf(view', loaded, bank, changes') BY <1>1, TakesTurnFacts DEF RowsOf
<1>4. UNCHANGED <<bank, mirrors, sourceDay, sourceFolder, auditFolder, world, loaded, remote, signature>> /\ pending' = NoBank
  BY <1>1, TakesTurnFacts DEF OpenBank, source
<1>5. changes' \in 0..MaxChanges BY <1>1, TakesTurnFacts DEF OpenBank
<1>6. loaded # NoLogs /\ sourceDay # NoDay BY <1>1, SwitchesFacts, SessionFollows
<1> QED BY <1>1, <1>2, <1>3, <1>4, <1>5, <1>6, TakesTurnFacts, SwitchesFacts, SessionTypes, FolderFacts, OperationKeeps

LEMMA LiveTickKeeps ==
    ASSUME SafeSession, LiveTick
    PROVE  SafeSession'
<1>1. PICK kind \in {"open", "live"} : StartLoad(kind, bank, sourceDay, sourceFolder, auditFolder)
  BY DEF LiveTick, StartOpening
<1> HIDE DEF Days, NoDay
<1>2. /\ op' \in Ops /\ op'.phase = "sign" /\ op'.day = sourceDay /\ op'.kind = kind
      /\ op'.folder = sourceFolder /\ op'.audits = auditFolder
      /\ job' \in {job, NoJob} /\ (job' # NoJob => job'.folder = sourceFolder)
  BY <1>1, SessionTypes, StartLoadFacts
<1>3. /\ UNCHANGED <<bank, mirrors, sourceDay, sourceFolder, auditFolder, world, loaded, remote, signature, changes, live, watcher, view>>
      /\ pending' = NoBank /\ loaded # NoLogs
  BY DEF LiveTick, source, liveVars
<1>4. RowsOf(view', loaded, bank, changes') BY <1>3, SessionFollows DEF RowsOf
<1> QED BY <1>2, <1>3, <1>4, SessionTypes, SessionFollows, FolderFacts, OperationKeeps

LEMMA ImportLocalKeeps ==
    ASSUME SafeSession, NEW b \in Banks, NEW day \in LocalDays, ImportLocal(b, day)
    PROVE  SafeSession'
<1>1. day \in Days /\ day # NoDay BY DaysAre, WorkspaceAssumption
<1> HIDE DEF Days, NoDay
<1>2. /\ UNCHANGED <<mirrors, world, loaded, remote, signature, live, watcher>>
      /\ bank' = b /\ sourceDay' = day /\ sourceFolder' = Local /\ auditFolder' = Local
      /\ view' = Cleared(view, b, day)
  BY DEF ImportLocal, liveVars
<1>3. view' \in Views /\ view'.rows = NoRows
  <2>1. view \in Views /\ day \in Days \union {NoDay} BY <1>1, SessionTypes
  <2>2. Cleared(view, b, day) \in Views /\ Cleared(view, b, day).rows = NoRows BY <2>1, ClearedFacts
  <2> QED BY <1>2, <2>2
<1>4. RowsOf(view', loaded, bank', changes') BY <1>3 DEF RowsOf
<1>5. changes' \in 0..MaxChanges
  <2>1. changes' \in {changes, changes + 1} /\ changes < MaxChanges BY DEF ImportLocal
  <2> QED BY <2>1, SessionTypes, WorkspaceAssumption
<1>6. CASE busy
  <2>1. UNCHANGED <<op, job, pending>> BY <1>6 DEF ImportLocal
  <2>2. op.phase \in {"download", "sign", "load"} => op.day # NoDay /\ (job # NoJob => op.kind # "remote" /\ job.folder = op.folder)
    BY DEF SafeSession, OperationHasSource, reads
  <2>3. op.phase = "list" => loaded # NoLogs BY DEF SafeSession, OperationHasSource
  <2> QED BY <1>1, <1>2, <1>3, <1>4, <1>5, <1>6, <2>1, <2>2, <2>3, SessionTypes, FolderFacts, OperationKeeps DEF busy
<1>7. CASE ~busy
  <2>1. StartLoad("local", b, day, Local, Local) /\ pending' \in {pending, NoBank} BY <1>7 DEF ImportLocal
  <2>2. /\ op' \in Ops /\ op'.phase = "sign" /\ op'.day = day /\ op'.folder = Local /\ op'.audits = Local
        /\ job' = NoJob
    BY <1>1, <2>1, SessionTypes, FolderFacts, StartLoadFacts
  <2> QED BY <1>1, <1>2, <1>3, <1>4, <1>5, <2>1, <2>2, SessionTypes, FolderFacts, OperationKeeps
<1> QED BY <1>6, <1>7

LEMMA ImportRemoteKeeps ==
    ASSUME SafeSession, NEW b \in Banks, NEW day \in RemoteDays, NEW names \in SUBSET Banks, ImportRemote(b, day, names)
    PROVE  SafeSession'
<1> DEFINE m == Len(mirrors) + 1
           mirror == [audits |-> {}, content |-> 0]
<1>1. day \in Days /\ day # NoDay BY DaysAre, WorkspaceAssumption
<1> HIDE DEF Days, NoDay
<1>2. /\ UNCHANGED <<world, bank, loaded, remote, changes, live, watcher, signature, sourceDay, sourceFolder, auditFolder>>
      /\ mirrors' = Append(mirrors, mirror) /\ op' = MirrorOp(m, b, day, names) /\ job' = NoJob /\ pending' = NoBank
      /\ view' = Refreshed(view, loaded, bank, sourceDay) /\ Len(mirrors) < MaxImports
  BY DEF ImportRemote, source, liveVars
<1>3. mirror \in Mirrors BY WorkspaceAssumption DEF Mirrors
<1> HIDE DEF mirror
<1>4. /\ mirrors' \in Seq(Mirrors) /\ Len(mirrors') = m /\ Len(mirrors') <= MaxImports /\ Len(mirrors) <= Len(mirrors')
      /\ DOMAIN mirrors' = 1..m /\ DOMAIN mirrors \subseteq DOMAIN mirrors' /\ m \in 1..m
  BY <1>2, <1>3, SessionTypes, WorkspaceAssumption
<1>5. m \in Folders BY <1>2, <1>4, SessionTypes, WorkspaceAssumption DEF Folders
<1>6. op' = [phase |-> "download", kind |-> "remote", bank |-> b, day |-> day, folder |-> m, audits |-> m, names |-> names, content |-> 0]
  BY <1>2 DEF MirrorOp, Idle
<1> HIDE DEF m
<1>7. op' \in Ops /\ op'.phase = "download" /\ op'.day = day /\ op'.folder = m /\ op'.audits = m
  <2>1. 0 \in 0..MaxContent BY WorkspaceAssumption
  <2> QED BY <1>1, <1>5, <1>6, <2>1 DEF Ops
<1>8. view' \in Views /\ RowsOf(view', loaded, bank, changes')
  BY <1>2, SessionTypes, SessionFollows, RefreshedFollows
<1>9. {sourceFolder', auditFolder'} \subseteq Folders \intersect ({Local} \union DOMAIN mirrors')
  BY <1>2, <1>4, SessionTypes, FolderFacts
<1>10. {op'.folder, op'.audits} \subseteq {Local} \union DOMAIN mirrors' BY <1>4, <1>7
<1> QED BY <1>1, <1>2, <1>4, <1>7, <1>8, <1>9, <1>10, SessionTypes, SessionFollows, OperationKeeps

LEMMA ExportKeeps ==
    ASSUME SafeSession, Export
    PROVE  SafeSession'
<1>1. op' = [phase |-> "export", kind |-> "export", bank |-> FirstBank, day |-> NoDay, folder |-> Local, audits |-> Local, names |-> {}, content |-> 0]
  BY DEF Export, Idle
<1>2. op' \in Ops /\ op'.phase = "export" /\ op'.folder = Local /\ op'.audits = Local
  <2>1. 0 \in 0..MaxContent BY WorkspaceAssumption
  <2> HIDE DEF Days, NoDay
  <2> QED BY <1>1, <2>1, WorkspaceAssumption, FolderFacts DEF Ops
<1> HIDE DEF Days, NoDay
<1>3. /\ UNCHANGED <<world, mirrors, bank, loaded, remote, pending, changes, job, live, watcher, signature, view>>
      /\ UNCHANGED <<sourceDay, sourceFolder, auditFolder>>
  BY DEF Export, source, liveVars
<1> QED BY <1>2, <1>3, SessionTypes, SessionFollows, FolderFacts, OperationKeeps DEF RowsOf
LEMMA EndsKeep ==
    ASSUME SafeSession, Fail \/ EndExport \/ StartLocalJob
    PROVE  SafeSession'
<1>1. /\ Finish(loaded, bank, pending, sourceDay, view, changes)
      /\ UNCHANGED <<world, mirrors, bank, loaded, source, remote, liveVars, signature>>
  BY DEF Fail, EndExport, StartLocalJob
<1>2. job # NoJob => loaded # NoLogs /\ job.folder = loaded.folder BY DEF SafeSession, JobOfLoaded
<1>3. CASE job' = job BY <1>1, <1>2, <1>3, SessionTypes, EndKeeps
<1>4. CASE StartLocalJob /\ Banks # {op.bank}
  <2>1. job' = [folder |-> loaded.folder, day |-> sourceDay, remote |-> FALSE, names |-> {}, banks |-> Banks \ {op.bank}, done |-> FALSE]
    BY <1>4 DEF StartLocalJob
  <2>2. loaded # NoLogs BY <1>4 DEF StartLocalJob, SafeSession, OperationHasSource
  <2> HIDE DEF Days, NoDay
  <2>3. loaded \in Logs /\ sourceDay \in Days BY <2>2, SessionTypes, SessionFollows
  <2>4. loaded.folder \in Folders BY <2>3, LogFields
  <2>5. job' \in Jobs /\ job'.folder = loaded.folder BY <2>1, <2>3, <2>4 DEF Jobs
  <2> QED BY <1>1, <2>2, <2>5, EndKeeps
<1> QED BY <1>3, <1>4 DEF Fail, EndExport, StartLocalJob

\* What an import, its job or its watcher reads leaves a mirror.
LEMMA MirrorGrows ==
    ASSUME SafeSession, NEW folder, NEW mirror,
           folder \in DOMAIN mirrors => mirror \in Mirrors,
           mirrors' = [mirrors EXCEPT ![folder] = mirror]
    PROVE  mirrors' \in Seq(Mirrors) /\ Len(mirrors') = Len(mirrors)
<1>1. CASE folder \in DOMAIN mirrors BY <1>1, SessionTypes
<1>2. CASE folder \notin DOMAIN mirrors
  <2>1. mirrors' = mirrors BY <1>2, SessionTypes
  <2> QED BY <2>1, SessionTypes
<1> QED BY <1>1, <1>2

LEMMA DownloadKeeps ==
    ASSUME SafeSession, Download
    PROVE  SafeSession'
<1> DEFINE mirror == [audits |-> op.names \intersect {op.bank}, content |-> content]
<1>1. mirror \in Mirrors BY SessionTypes, OpFields DEF Mirrors
<1>2. mirrors' = [mirrors EXCEPT ![op.folder] = mirror] BY DEF Download
<1> HIDE DEF mirror, Days, NoDay
<1>3. mirrors' \in Seq(Mirrors) /\ Len(mirrors') = Len(mirrors) BY <1>1, <1>2, MirrorGrows
<1>4. DOMAIN mirrors' = DOMAIN mirrors BY <1>2
<1>5. /\ op' \in Ops /\ op'.phase = "sign" /\ op'.day = op.day /\ op'.folder = op.folder /\ op'.audits = op.audits
      /\ op'.kind = op.kind
  BY SessionTypes DEF Download, Ops
<1>6. op.day # NoDay /\ (job # NoJob => op.kind # "remote" /\ job.folder = op.folder)
  BY DEF Download, SafeSession, OperationHasSource, reads
<1>7. /\ UNCHANGED <<world, bank, loaded, remote, pending, changes, job, live, watcher, signature, view>>
      /\ UNCHANGED <<sourceDay, sourceFolder, auditFolder>>
  BY DEF Download, source, liveVars
<1> QED BY <1>3, <1>4, <1>5, <1>6, <1>7, SessionTypes, SessionFollows, FolderFacts, OperationKeeps DEF RowsOf

LEMMA SignKeeps ==
    ASSUME SafeSession, Sign
    PROVE  SafeSession'
<1>1. UNCHANGED <<world, mirrors, bank, loaded, source, remote, job, liveVars, signature>> /\ op.phase = "sign" BY DEF Sign
<1>2. CASE Finish(loaded, bank, pending, sourceDay, view, changes)
  <2>1. job # NoJob => loaded # NoLogs /\ job.folder = loaded.folder BY DEF SafeSession, JobOfLoaded
  <2> QED BY <1>1, <1>2, <2>1, SessionTypes, EndKeeps
<1>3. CASE op' = [op EXCEPT !.phase = "load", !.content = ContentOf(op.audits)] /\ UNCHANGED <<pending, changes, view>>
  <2> HIDE DEF Days, NoDay
  <2>1. ContentOf(op.audits) \in 0..MaxContent BY FolderFacts
  <2>2. /\ op' \in Ops /\ op'.phase = "load" /\ op'.day = op.day /\ op'.folder = op.folder /\ op'.audits = op.audits
        /\ op'.kind = op.kind
    BY <1>3, <2>1, SessionTypes DEF Ops
  <2>3. op.day # NoDay /\ (job # NoJob => op.kind # "remote" /\ job.folder = op.folder)
    BY <1>1 DEF SafeSession, OperationHasSource, reads
  <2>4. UNCHANGED <<world, mirrors, bank, loaded, remote, job, live, watcher, signature, sourceDay, sourceFolder, auditFolder>>
    BY <1>1 DEF source, liveVars
  <2> QED BY <1>3, <2>2, <2>3, <2>4, SessionTypes, SessionFollows, FolderFacts, OperationKeeps DEF RowsOf
<1> QED BY <1>2, <1>3 DEF Sign

LEMMA JobFields ==
    ASSUME NEW j \in Jobs, NEW names \in SUBSET Banks, NEW done \in BOOLEAN
    PROVE  /\ j # NoJob /\ j.names \in SUBSET Banks
           /\ [j EXCEPT !.names = names] \in Jobs /\ [j EXCEPT !.names = names].folder = j.folder
           /\ [j EXCEPT !.done = done] \in Jobs /\ [j EXCEPT !.done = done].folder = j.folder
BY NothingAssumption DEF Jobs

LEMMA BackgroundKeeps ==
    ASSUME SafeSession,
           \/ PollProgress \/ JobReads \/ JobEnds
           \/ WatcherConnects \/ WatcherMirrors \/ WatcherDisconnects
           \/ GrowFiles \/ NewServerAudit \/ Midnight
    PROVE  SafeSession'
<1> USE DEF world, source, liveVars
<1>1. CASE PollProgress
  <2>1. changes' \in 0..MaxChanges /\ changes' >= changes BY <1>1, SessionTypes, WorkspaceAssumption DEF PollProgress
  <2> HIDE DEF Days, NoDay
  <2> QED BY <1>1, <2>1, SessionTypes, OutsideKeeps DEF PollProgress
<1>2. CASE JobReads
  <2>1. PICK b \in job.names :
            /\ mirrors' = [mirrors EXCEPT ![job.folder].audits = @ \union {b}]
            /\ job' = [job EXCEPT !.names = @ \ {b}]
    BY <1>2 DEF JobReads
  <2>2. job \in Jobs BY <1>2, SessionTypes DEF JobReads
  <2>3. b \in Banks /\ job.names \ {b} \in SUBSET Banks BY <2>2, JobFields
  <2>4. job' \in Jobs /\ job'.folder = job.folder BY <2>1, <2>2, <2>3, JobFields
  <2> DEFINE mirror == [mirrors[job.folder] EXCEPT !.audits = @ \union {b}]
  <2>5. ASSUME job.folder \in DOMAIN mirrors PROVE mirror \in Mirrors
    <3>1. mirrors[job.folder] \in Mirrors BY <2>5, SessionTypes
    <3> QED BY <2>3, <3>1 DEF Mirrors
  <2>6. mirrors' = [mirrors EXCEPT ![job.folder] = mirror] BY <2>1
  <2> HIDE DEF mirror, Days, NoDay
  <2>7. mirrors' \in Seq(Mirrors) /\ Len(mirrors') = Len(mirrors) BY <2>5, <2>6, MirrorGrows
  <2> QED BY <1>2, <2>4, <2>7, SessionTypes, OutsideKeeps DEF JobReads
<1>3. CASE JobEnds
  <2>1. job \in Jobs BY <1>3, SessionTypes DEF JobEnds
  <2>2. job' \in Jobs /\ job'.folder = job.folder BY <1>3, <2>1, JobFields DEF JobEnds
  <2> HIDE DEF Days, NoDay
  <2> QED BY <1>3, <2>2, SessionTypes, OutsideKeeps DEF JobEnds
<1>4. CASE WatcherConnects \/ WatcherDisconnects
  <2>1. watcher \in Watchers BY <1>4, SessionTypes DEF WatcherConnects, WatcherDisconnects
  <2>2. watcher' \in Watchers /\ watcher'.folder = watcher.folder /\ watcher # NoWatcher
    BY <1>4, <2>1, WatcherFields DEF WatcherConnects, WatcherDisconnects
  <2> HIDE DEF Days, NoDay
  <2> QED BY <1>4, <2>2, SessionTypes, OutsideKeeps DEF WatcherConnects, WatcherDisconnects
<1>5. CASE WatcherMirrors
  <2> DEFINE mirror == [audits |-> mirrors[watcher.folder].audits \union (server \intersect {watcher.bank}), content |-> content]
  <2>1. ASSUME watcher.folder \in DOMAIN mirrors PROVE mirror \in Mirrors
    <3>1. mirrors[watcher.folder] \in Mirrors BY <2>1, SessionTypes
    <3>2. mirrors[watcher.folder].audits \subseteq Banks BY <3>1 DEF Mirrors
    <3> QED BY <3>2, SessionTypes DEF Mirrors
  <2>2. mirrors' = [mirrors EXCEPT ![watcher.folder] = mirror] BY <1>5 DEF WatcherMirrors
  <2> HIDE DEF mirror, Days, NoDay
  <2>3. mirrors' \in Seq(Mirrors) /\ Len(mirrors') = Len(mirrors) BY <2>1, <2>2, MirrorGrows
  <2> QED BY <1>5, <2>3, SessionTypes, OutsideKeeps DEF WatcherMirrors
<1>6. CASE GrowFiles \/ NewServerAudit
  <2>1. content' \in 0..MaxContent /\ server' \subseteq Banks
    BY <1>6, SessionTypes, WorkspaceAssumption DEF GrowFiles, NewServerAudit
  <2> HIDE DEF Days, NoDay
  <2> QED BY <1>6, <2>1, SessionTypes, OutsideKeeps DEF GrowFiles, NewServerAudit
<1>7. CASE Midnight
  <2>1. today' \in Days BY <1>7, SessionTypes, WorkspaceAssumption DEF Midnight, Days
  <2> HIDE DEF Days, NoDay
  <2> QED BY <1>7, <2>1, SessionTypes, OutsideKeeps DEF Midnight
<1> QED BY <1>1, <1>2, <1>3, <1>4, <1>5, <1>6, <1>7
-----------------------------------------------------------------------------
(* A load: every variable of the session changes with it. *)

LEMMA LoadedFacts ==
    ASSUME SafeSession, op.phase = "load", NEW read \in op.content..ContentOf(op.audits)
    PROVE  LET result == [SignatureNow EXCEPT !.content = read] IN
           /\ result \in Logs /\ result.bank = op.bank /\ result.day = op.day
           /\ result.folder = op.folder /\ result.audits = op.audits
           /\ SignatureKept \in Logs
           /\ op.day \in Days /\ op.day # NoDay
<1>1. op.day # NoDay BY DEF SafeSession, OperationHasSource, reads
<1> HIDE DEF Days, NoDay
<1>2. /\ op.bank \in Banks /\ op.day \in Days /\ op.folder \in Folders /\ op.audits \in Folders
      /\ op.content \in 0..MaxContent
  BY <1>1, SessionTypes, OpFields
<1>3. ContentOf(op.audits) \in 0..MaxContent BY FolderFacts
<1>4. read \in 0..MaxContent BY <1>2, <1>3, WorkspaceAssumption
<1>5. [SignatureNow EXCEPT !.content = read] = [bank |-> op.bank, day |-> op.day, folder |-> op.folder, audits |-> op.audits, content |-> read]
  BY DEF SignatureNow
<1>6. SignatureKept = [bank |-> op.bank, day |-> op.day, folder |-> op.folder, audits |-> op.audits, content |-> op.content]
  BY DEF SignatureKept, SignatureNow
<1> QED BY <1>1, <1>2, <1>4, <1>5, <1>6, NewLogs

\* What is shown of it: its rows, if its bank is the one selected.
LEMMA ShownFacts ==
    ASSUME NEW v \in Views, NEW l \in Logs, NEW b \in Banks, NEW day \in Days, NEW n \in Nat
    PROVE  LET shown == Refreshed(Labelled(v, day, l.bank), l, b, day) IN
           shown \in Views /\ RowsOf(shown, l, b, n) /\ LabelOf(shown, l, b, day, n)
<1> DEFINE labelled == Labelled(v, day, l.bank)
<1>1. day # NoDay /\ l # NoLogs /\ l.bank \in Banks BY DaysAre, LogFields
<1> HIDE DEF Days, NoDay
<1>2. labelled \in Views /\ labelled.label.day = day /\ labelled.label.bank = l.bank BY <1>1, LabelledFacts
<1> HIDE DEF labelled
<1>3. Refreshed(labelled, l, b, day) \in Views BY <1>2, RefreshedFacts
<1>4. RowsOf(Refreshed(labelled, l, b, day), l, b, n) BY <1>1, <1>2, RefreshedFacts DEF RowsOf
<1>5. LabelOf(Refreshed(labelled, l, b, day), l, b, day, n) BY <1>1, <1>2, RefreshedFacts DEF LabelOf
<1> QED BY <1>3, <1>4, <1>5 DEF labelled

LEMMA RemoteJobFacts ==
    ASSUME SafeSession, op.phase = "load", op.kind = "remote", op.day \in Days
    PROVE  RemoteJob \in Jobs \union {NoJob} /\ (RemoteJob # NoJob => RemoteJob.folder = op.folder)
<1> DEFINE others == BanksFor(op.names) \ {op.bank}
           started == [folder |-> op.folder, day |-> op.day, remote |-> TRUE, names |-> op.names \ {op.bank}, banks |-> others, done |-> FALSE]
<1>1. job = NoJob BY DEF SafeSession, OperationHasSource, reads
<1> HIDE DEF Days, NoDay
<1>2. op.folder \in Folders /\ op.names \subseteq Banks BY SessionTypes, OpFields
<1>3. others \subseteq Banks BY <1>2 DEF BanksFor
<1> HIDE DEF others
<1>4. started \in Jobs /\ started.folder = op.folder BY <1>2, <1>3 DEF Jobs
<1>5. RemoteJob = IF others = {} THEN job ELSE started BY DEF RemoteJob, others
<1> HIDE DEF started
<1> QED BY <1>1, <1>4, <1>5

LEMMA LoadFacts ==
    ASSUME SafeSession, Load
    PROVE  /\ op.phase = "load" /\ op.day # NoDay
           /\ loaded' \in Logs /\ loaded'.day = op.day /\ loaded'.folder = op.folder /\ loaded'.audits = op.audits
           /\ sourceDay' = op.day /\ sourceDay' \in Days /\ auditFolder' = op.audits
           /\ sourceFolder' = IF op.kind = "remote" THEN op.folder ELSE sourceFolder
           /\ signature' \in Logs /\ bank' \in Banks /\ remote' \in BOOLEAN
           /\ live' \in BOOLEAN /\ watcher' \in Watchers \union {NoWatcher}
           /\ watcher' = watcher \/ (watcher' # NoWatcher => watcher'.folder = op.folder)
           /\ op.kind \in {"local", "remote"} => ~live'
           /\ job' \in Jobs \union {NoJob} /\ (job' # NoJob => job'.folder = op.folder)
           /\ UNCHANGED <<world, mirrors>>
           /\ pending' \in Banks \union {NoBank} /\ changes' \in 0..MaxChanges /\ view' \in Views
           /\ RowsOf(view', loaded', bank', changes')
           /\ LabelOf(view', loaded', bank', sourceDay', changes')
           /\ \/ op' = Idle /\ WaitsFor(pending', loaded', bank', changes')
              \/ op' = [op EXCEPT !.phase = "list"] /\ op.kind = "local"
<1>1. PICK read \in op.content..ContentOf(op.audits) :
       LET result == [SignatureNow EXCEPT !.content = read]
           isRemote == op.kind = "remote" \/ (remote /\ op.kind # "local")
           selects == op.kind = "remote" /\ pending = NoBank /\ bank # op.bank
           b == IF selects THEN op.bank ELSE bank
           scheduled == IF selects THEN changes + 1 ELSE changes
           shown == Refreshed(Labelled(view, op.day, op.bank), result, b, op.day) IN
       /\ scheduled <= MaxChanges
       /\ loaded' = result
       /\ remote' = isRemote
       /\ bank' = b
       /\ sourceFolder' = IF op.kind = "remote" THEN op.folder ELSE sourceFolder
       /\ auditFolder' = op.audits
       /\ sourceDay' = op.day
       /\ signature' = SignatureKept
       /\ IF op.kind = "live"
          THEN UNCHANGED liveVars
          ELSE ConfigureLive(LiveAfter, result, op.day, isRemote, b)
       /\ job' = IF op.kind = "remote" THEN RemoteJob ELSE job
       /\ IF op.kind = "local"
          THEN /\ op' = [op EXCEPT !.phase = "list"]
               /\ view' = shown
               /\ changes' = scheduled
               /\ UNCHANGED pending
          ELSE Finish(result, b, pending, op.day, shown, scheduled)
  BY DEF Load
<1> DEFINE result == [SignatureNow EXCEPT !.content = read]
           isRemote == op.kind = "remote" \/ (remote /\ op.kind # "local")
           selects == op.kind = "remote" /\ pending = NoBank /\ bank # op.bank
           b == IF selects THEN op.bank ELSE bank
           scheduled == IF selects THEN changes + 1 ELSE changes
           shown == Refreshed(Labelled(view, op.day, op.bank), result, b, op.day)
<1>2. op.phase = "load" /\ UNCHANGED <<world, mirrors>> BY DEF Load
<1>3. /\ result \in Logs /\ result.bank = op.bank /\ result.day = op.day
      /\ result.folder = op.folder /\ result.audits = op.audits
      /\ SignatureKept \in Logs /\ op.day \in Days /\ op.day # NoDay
  BY <1>2, LoadedFacts
<1>4. b \in Banks /\ isRemote \in BOOLEAN BY SessionTypes, OpFields
<1>5. scheduled \in 0..MaxChanges /\ scheduled \in Nat BY <1>1, SessionTypes, WorkspaceAssumption
<1> HIDE DEF result, isRemote, Days, NoDay
<1>6. shown \in Views /\ RowsOf(shown, result, b, scheduled) /\ LabelOf(shown, result, b, op.day, scheduled)
  <2> HIDE DEF b, scheduled
  <2> QED BY <1>3, <1>4, <1>5, SessionTypes, ShownFacts
<1>7. /\ loaded' = result /\ remote' = isRemote /\ bank' = b /\ auditFolder' = op.audits /\ sourceDay' = op.day
      /\ sourceFolder' = IF op.kind = "remote" THEN op.folder ELSE sourceFolder
      /\ signature' = SignatureKept /\ job' = IF op.kind = "remote" THEN RemoteJob ELSE job
  BY <1>1 DEF result, isRemote
<1>8. /\ live' \in BOOLEAN /\ watcher' \in Watchers \union {NoWatcher}
      /\ watcher' = watcher \/ (watcher' # NoWatcher => watcher'.folder = op.folder)
      /\ op.kind \in {"local", "remote"} => ~live'
  <2>1. CASE op.kind = "live"
    <3>1. UNCHANGED liveVars BY <1>1, <2>1
    <3> QED BY <2>1, <3>1, SessionTypes DEF liveVars
  <2>2. CASE op.kind # "live"
    <3>1. ConfigureLive(LiveAfter, result, op.day, isRemote, b) BY <1>1, <2>2 DEF result, isRemote
    <3>2. LiveAfter \in BOOLEAN /\ (op.kind \in {"local", "remote"} => ~LiveAfter) BY SessionTypes DEF LiveAfter
    <3>3. today \in Days BY SessionTypes
    <3> HIDE DEF b
    <3> QED BY <1>3, <1>4, <3>1, <3>2, <3>3, ConfigureLiveFacts
  <2> QED BY <2>1, <2>2
<1>9. job' \in Jobs \union {NoJob} /\ (job' # NoJob => job'.folder = op.folder)
  <2>1. CASE op.kind = "remote" BY <1>2, <1>3, <1>7, <2>1, RemoteJobFacts
  <2>2. CASE op.kind # "remote"
    BY <1>2, <1>7, <2>2, SessionTypes DEF SafeSession, OperationHasSource, reads
  <2> QED BY <2>1, <2>2
<1>10. /\ pending' \in Banks \union {NoBank} /\ changes' \in 0..MaxChanges /\ view' \in Views
       /\ RowsOf(view', result, b, changes') /\ LabelOf(view', result, b, op.day, changes')
       /\ \/ op' = Idle /\ WaitsFor(pending', result, b, changes')
          \/ op' = [op EXCEPT !.phase = "list"] /\ op.kind = "local"
  <2>1. CASE op.kind = "local"
    <3>1. op' = [op EXCEPT !.phase = "list"] /\ view' = shown /\ changes' = scheduled /\ pending' = pending
      BY <1>1, <2>1 DEF result
    <3> HIDE DEF shown, scheduled, b
    <3> QED BY <1>5, <1>6, <2>1, <3>1, SessionTypes
  <2>2. CASE op.kind # "local"
    <3>1. Finish(result, b, pending, op.day, shown, scheduled) BY <1>1, <2>2 DEF result
    <3> HIDE DEF shown, scheduled, b
    <3> QED BY <1>3, <1>4, <1>5, <1>6, <3>1, SessionTypes, FinishFacts
  <2> QED BY <2>1, <2>2
<1> HIDE DEF shown, scheduled, b
<1> QED BY <1>2, <1>3, <1>4, <1>7, <1>8, <1>9, <1>10
LEMMA LoadKeeps ==
    ASSUME SafeSession, Load
    PROVE  SafeSession'
<1> HIDE DEF Days, NoDay
<1>1. UNCHANGED <<today, content, server, mirrors>> BY LoadFacts DEF world
<1>2. op' \in Ops /\ op'.phase \in {"idle", "list"} /\ {op'.folder, op'.audits} \subseteq {Local} \union DOMAIN mirrors
  <2>1. CASE op' = Idle BY <2>1, IdleIsOp
  <2>2. CASE op' = [op EXCEPT !.phase = "list"] BY <2>2, SessionTypes, FolderFacts DEF Ops
  <2> QED BY <2>1, <2>2, LoadFacts
<1>3. sourceFolder' \in {Local} \union DOMAIN mirrors /\ auditFolder' \in {Local} \union DOMAIN mirrors
  BY LoadFacts, FolderFacts
<1>4. TypeOK'
  <2>1. sourceFolder' \in Folders /\ auditFolder' \in Folders BY <1>3, FolderFacts
  <2> QED BY <1>1, <1>2, <2>1, SessionTypes, LoadFacts DEF TypeOK
<1>5. FoldersExist'
  <2>1. watcher' # NoWatcher => watcher'.folder \in {Local} \union DOMAIN mirrors
    BY LoadFacts, FolderFacts DEF SafeSession, FoldersExist, Known
  <2> QED BY <1>1, <1>2, <1>3, <2>1, LoadFacts, FolderFacts DEF FoldersExist, Known
<1>6. JobOfLoaded' /\ OperationHasSource'
  BY <1>2, LoadFacts, LogFields DEF JobOfLoaded, OperationHasSource, reads
<1>7. FollowsSelector'
  <2>1. CASE WaitsFor(pending', loaded', bank', changes') BY <2>1, LoadFacts
    DEF FollowsSelector, RowsOfSelectedBank, PendingIsSelected, RowsOf, WaitsFor
  <2>2. CASE op' = [op EXCEPT !.phase = "list"]
    <3>1. op'.phase = "list" BY <2>2, SessionTypes DEF Ops
    <3> QED BY <3>1, LoadFacts DEF FollowsSelector, RowsOfSelectedBank, PendingIsSelected, RowsOf, busy
  <2> QED BY <2>1, <2>2, LoadFacts
<1> QED BY <1>4, <1>5, <1>6, <1>7 DEF SafeSession

LEMMA SessionGoesOn == SafeSession /\ [Next]_vars => SafeSession'
<1> SUFFICES ASSUME SafeSession, [Next]_vars PROVE SafeSession' OBVIOUS
<1>1. ASSUME User PROVE SafeSession'
  BY <1>1, SelectBankKeeps, ImportLocalKeeps, ImportRemoteKeeps, ListKeeps, ExportKeeps DEF User
<1>2. ASSUME ChangeBank PROVE SafeSession'
  BY <1>2, ChangeBankKeeps, OpenBankKeeps DEF ChangeBank
<1>3. ASSUME Operation \/ Fail PROVE SafeSession'
  BY <1>3, EndsKeep, DownloadKeeps, SignKeeps, LoadKeeps DEF Operation
<1>4. CASE UNCHANGED vars
  <2> HIDE DEF Days, NoDay
  <2> QED BY <1>4, SessionTypes, OutsideKeeps DEF vars, world, source, liveVars
<1> QED BY <1>1, <1>2, <1>3, <1>4, ListKeeps, LiveTickKeeps, BackgroundKeeps DEF Next

(***************************************************************************)
(* For any banks, folders, days and imports, with the selector turned at   *)
(* any await: the list and the bank that waits follow the selector         *)
(* (web_app.py:449-550).                                                   *)
(***************************************************************************)
THEOREM SessionFollowsSelector == Spec => []FollowsSelector
<1>1. SafeSession => FollowsSelector BY DEF SafeSession
<1> QED BY <1>1, SessionStarts, SessionGoesOn, PTL DEF Spec

(***************************************************************************)
(* For any banks, folders, days and imports: a background job works on the *)
(* files that are loaded (629-633, 675-690).                               *)
(***************************************************************************)
THEOREM JobsAreOfLoaded == Spec => []JobOfLoaded
<1>1. SafeSession => JobOfLoaded BY DEF SafeSession
<1> QED BY <1>1, SessionStarts, SessionGoesOn, PTL DEF Spec
-----------------------------------------------------------------------------
(* What holds besides of a session that imports from a server: a local     *)
(* import sets the day and the folders before it loads anything (953-954), *)
(* also when the load is refused or fails.                                 *)

Imported == OneSource /\ SourceOfLoaded /\ LabelOfSelected
RemoteSession == SafeSession /\ Imported

LEMMA RemoteSessionInv == RemoteSession => WorkspaceInv
<1> SUFFICES ASSUME RemoteSession PROVE WorkspaceInv OBVIOUS
<1>1. SafeSession BY DEF RemoteSession
<1>2. LabelOfRows
  <2>1. SUFFICES ASSUME view.rows # NoRows, changes = 0
        PROVE  view.label.day = view.rows.day /\ view.label.bank = view.rows.bank
    BY DEF LabelOfRows
  <2>2. view.rows = loaded /\ loaded.bank = bank BY <1>1, <2>1, SessionFollows DEF RowsOf
  <2>3. loaded.day = sourceDay /\ view.label.day = sourceDay /\ view.label.bank = bank
    BY <2>1, <2>2 DEF RemoteSession, Imported, SourceOfLoaded, LabelOfSelected
  <2> QED BY <2>2, <2>3
<1> QED BY <1>1, <1>2 DEF RemoteSession, Imported, SafeSession, WorkspaceInv

\* A step that loads nothing.
LEMMA NothingLoaded ==
    ASSUME Imported, UNCHANGED <<loaded, source>>, LabelOf(view', loaded, bank', sourceDay, changes'),
           \/ UNCHANGED op
           \/ op'.phase \in {"idle", "list", "export"}
           \/ reads /\ op'.kind = op.kind /\ op'.folder = op.folder /\ op'.audits = op.audits /\ op'.day = op.day
           \/ op'.kind = "remote" /\ op'.folder = op'.audits
           \/ loaded # NoLogs /\ op'.folder = sourceFolder /\ op'.audits = auditFolder /\ op'.day = sourceDay
    PROVE  Imported'
<1>1. OneSource' BY DEF Imported, OneSource
<1>2. LabelOfSelected' BY DEF LabelOfSelected, LabelOf, source
<1>3. SourceOfLoaded'
  <2>1. sourceFolder' = auditFolder' /\ (loaded' # NoLogs => loaded'.folder = sourceFolder' /\ loaded'.day = sourceDay')
    BY DEF Imported, SourceOfLoaded, source
  <2>2. reads' => op'.folder = op'.audits /\ (op'.kind # "remote" => loaded # NoLogs /\ op'.folder = sourceFolder /\ op'.day = sourceDay)
    BY DEF Imported, SourceOfLoaded, reads
  <2> QED BY <2>1, <2>2 DEF SourceOfLoaded, source
<1> QED BY <1>1, <1>2, <1>3 DEF Imported

LEMMA ImportedLabel ==
    ASSUME RemoteSession
    PROVE  /\ SafeSession /\ Imported
           /\ LabelOf(view, loaded, bank, sourceDay, changes)
           /\ loaded # NoLogs => sourceDay # NoDay
BY SessionFollows DEF RemoteSession, Imported, LabelOfSelected, LabelOf

LEMMA UserImported ==
    ASSUME RemoteSession, LocalDays = {}, User
    PROVE  Imported'
<1>1. SafeSession /\ Imported /\ LabelOf(view, loaded, bank, sourceDay, changes) /\ (loaded # NoLogs => sourceDay # NoDay)
  BY ImportedLabel
<1> HIDE DEF Days, NoDay
<1>2. ASSUME NEW b \in Banks, SelectBank(b) PROVE Imported'
  <2>1. changes' # 0 BY <1>1, <1>2, SessionTypes DEF SelectBank
  <2> QED BY <1>1, <1>2, <2>1, NothingLoaded DEF SelectBank, LabelOf
<1>3. ASSUME NEW b \in Banks, NEW day \in RemoteDays, NEW names \in SUBSET Banks, ImportRemote(b, day, names) PROVE Imported'
  <2>1. op' = MirrorOp(Len(mirrors) + 1, b, day, names) BY <1>3 DEF ImportRemote
  <2>2. op'.kind = "remote" /\ op'.folder = op'.audits BY <2>1 DEF MirrorOp, Idle
  <2>3. view' = Refreshed(view, loaded, bank, sourceDay) /\ UNCHANGED <<loaded, bank, source, changes>> BY <1>3 DEF ImportRemote
  <2>4. LabelOf(view', loaded, bank, sourceDay, changes)
    BY <1>1, <2>3, SessionTypes, SessionFollows, RefreshedFollows
  <2> QED BY <1>1, <2>2, <2>3, <2>4, NothingLoaded
<1>4. CASE ToggleLive BY <1>1, <1>4, NothingLoaded DEF ToggleLive
<1>5. CASE ChangeFilter
  <2>1. view' = Refreshed(view, loaded, bank, sourceDay) /\ UNCHANGED <<loaded, bank, source, changes, op>> BY <1>5 DEF ChangeFilter
  <2>2. LabelOf(view', loaded, bank, sourceDay, changes)
    BY <1>1, <2>1, SessionTypes, SessionFollows, RefreshedFollows
  <2> QED BY <1>1, <2>1, <2>2, NothingLoaded
<1>6. CASE Export
  <2>1. op'.phase = "export" BY <1>6 DEF Export, Idle
  <2> QED BY <1>1, <1>6, <2>1, NothingLoaded DEF Export
<1> QED BY <1>2, <1>3, <1>4, <1>5, <1>6 DEF User

LEMMA ChangeBankImported ==
    ASSUME RemoteSession, ChangeBank
    PROVE  Imported'
<1>1. SafeSession /\ Imported /\ LabelOf(view, loaded, bank, sourceDay, changes) /\ (loaded # NoLogs => sourceDay # NoDay)
  BY ImportedLabel
<1> HIDE DEF Days, NoDay
<1>2. CASE ShowLoaded
  <2> DEFINE shown == Refreshed(view, loaded, bank, sourceDay)
  <2>1. shown \in Views BY <1>1, SessionTypes, RefreshedFacts
  <2>2. view' = Labelled(shown, sourceDay, bank) /\ UNCHANGED <<loaded, bank, source, op>> BY <1>2 DEF ShowLoaded
  <2> HIDE DEF shown
  <2>3. view'.label.day = sourceDay /\ view'.label.bank = bank BY <1>1, <2>1, <2>2, SessionTypes, LabelledFacts
  <2> QED BY <1>1, <2>2, <2>3, NothingLoaded DEF LabelOf
<1>3. CASE QueueBank \/ NothingToOpen \/ WaitForAudits
  <2>1. TakesTurn(bank) /\ UNCHANGED <<bank, op>> BY <1>3 DEF QueueBank, NothingToOpen, WaitForAudits, Switches
  <2>2. LabelOf(view', loaded, bank, sourceDay, changes') BY <1>1, <2>1, TakesTurnFacts DEF LabelOf
  <2> QED BY <1>1, <2>1, <2>2, TakesTurnFacts, NothingLoaded
<1>4. CASE RefuseBank
  <2>1. TakesTurn(bank) /\ UNCHANGED <<changes, op>> BY <1>4 DEF RefuseBank, Switches
  <2>2. changes' # 0 BY <1>1, <2>1, TakesTurnFacts, SessionTypes
  <2> QED BY <1>1, <2>1, <2>2, TakesTurnFacts, NothingLoaded DEF LabelOf
<1>5. CASE OpenBank
  <2>1. Switches /\ TakesTurn(bank) /\ UNCHANGED bank /\ StartLoad("open", bank, sourceDay, sourceFolder, auditFolder)
    BY <1>5 DEF OpenBank, Switches, StartOpening
  <2>2. op'.folder = sourceFolder /\ op'.audits = auditFolder /\ op'.day = sourceDay
    BY <1>1, <2>1, SessionTypes, StartLoadFacts
  <2>3. LabelOf(view', loaded, bank, sourceDay, changes') /\ loaded # NoLogs
    BY <1>1, <2>1, TakesTurnFacts, SwitchesFacts DEF LabelOf
  <2> QED BY <1>1, <2>1, <2>2, <2>3, TakesTurnFacts, NothingLoaded
<1> QED BY <1>2, <1>3, <1>4, <1>5 DEF ChangeBank

LEMMA LoadImported ==
    ASSUME RemoteSession, Load
    PROVE  Imported'
<1>1. SafeSession /\ Imported BY ImportedLabel
<1>2. /\ op.phase = "load" /\ loaded' \in Logs /\ loaded'.day = op.day /\ loaded'.folder = op.folder /\ loaded'.audits = op.audits
      /\ sourceDay' = op.day /\ auditFolder' = op.audits
      /\ sourceFolder' = IF op.kind = "remote" THEN op.folder ELSE sourceFolder
      /\ LabelOf(view', loaded', bank', sourceDay', changes')
  BY <1>1, LoadFacts
<1>3. op'.phase \in {"idle", "list"}
  <2>1. op' = Idle \/ op' = [op EXCEPT !.phase = "list"] BY <1>1, LoadFacts
  <2>2. op \in Ops BY <1>1, SessionTypes
  <2> QED BY <2>1, <2>2, IdleIsOp DEF Ops
<1>4. op.folder = op.audits /\ (op.kind # "remote" => op.folder = sourceFolder)
  BY <1>1, <1>2 DEF Imported, SourceOfLoaded, reads
<1>5. OneSource' BY <1>2, <1>4 DEF OneSource
<1>6. SourceOfLoaded' BY <1>2, <1>3, <1>4 DEF SourceOfLoaded, reads
<1>7. LabelOfSelected' BY <1>2 DEF LabelOfSelected, LabelOf
<1> QED BY <1>5, <1>6, <1>7 DEF Imported

LEMMA OperationImported ==
    ASSUME RemoteSession, EndExport \/ Download \/ Sign \/ StartLocalJob \/ Fail
    PROVE  Imported'
<1>1. SafeSession /\ Imported /\ LabelOf(view, loaded, bank, sourceDay, changes) /\ RowsOf(view, loaded, bank, changes)
  BY ImportedLabel, SessionFollows
<1> HIDE DEF Days, NoDay
<1>2. UNCHANGED <<bank, loaded, source>> BY DEF EndExport, Download, Sign, StartLocalJob, Fail
<1>3. CASE Finish(loaded, bank, pending, sourceDay, view, changes)
  <2>1. op' = Idle /\ LabelOf(view', loaded, bank, sourceDay, changes') BY <1>1, <1>3, SessionTypes, FinishFacts
  <2>2. op'.phase = "idle" BY <2>1, IdleIsOp
  <2> QED BY <1>1, <1>2, <2>1, <2>2, NothingLoaded
<1>4. CASE reads /\ UNCHANGED <<view, changes>>
             /\ (op' = [op EXCEPT !.phase = "sign"] \/ op' = [op EXCEPT !.phase = "load", !.content = ContentOf(op.audits)])
  <2>1. op \in Ops BY <1>1, SessionTypes
  <2>2. op'.kind = op.kind /\ op'.folder = op.folder /\ op'.audits = op.audits /\ op'.day = op.day
    BY <1>4, <2>1 DEF Ops
  <2> QED BY <1>1, <1>2, <1>4, <2>2, NothingLoaded
<1> QED BY <1>3, <1>4 DEF EndExport, Download, Sign, StartLocalJob, Fail, reads

LEMMA TimersImported ==
    ASSUME RemoteSession,
           \/ PollProgress \/ LiveTickStop \/ LiveTick \/ JobReads \/ JobEnds
           \/ WatcherConnects \/ WatcherMirrors \/ WatcherDisconnects
           \/ GrowFiles \/ NewServerAudit \/ Midnight
    PROVE  Imported'
<1>1. SafeSession /\ Imported /\ LabelOf(view, loaded, bank, sourceDay, changes) BY ImportedLabel
<1> HIDE DEF Days, NoDay
<1>2. CASE LiveTick
  <2>1. PICK kind \in {"open", "live"} : StartLoad(kind, bank, sourceDay, sourceFolder, auditFolder)
    BY <1>2 DEF LiveTick, StartOpening
  <2>2. op'.folder = sourceFolder /\ op'.audits = auditFolder /\ op'.day = sourceDay
    <3>1. /\ job \in Jobs \union {NoJob} /\ kind \in {"open", "live", "local"} /\ bank \in Banks
          /\ sourceDay \in Days \union {NoDay} /\ sourceFolder \in Folders /\ auditFolder \in Folders
      BY <1>1, SessionTypes
    <3> QED BY <2>1, <3>1, StartLoadFacts
  <2> QED BY <1>1, <1>2, <2>2, NothingLoaded DEF LiveTick
<1>3. CASE PollProgress
  <2>1. changes' # 0 BY <1>1, <1>3, SessionTypes DEF PollProgress
  <2> QED BY <1>1, <1>3, <2>1, NothingLoaded DEF PollProgress, LabelOf
<1>4. CASE UNCHANGED <<bank, loaded, source, changes, op, view>> BY <1>1, <1>4, NothingLoaded
<1> QED BY <1>2, <1>3, <1>4
    DEF LiveTickStop, JobReads, JobEnds, WatcherConnects, WatcherMirrors, WatcherDisconnects, GrowFiles, NewServerAudit, Midnight

LEMMA RemoteSessionStarts == Init => RemoteSession
<1> SUFFICES ASSUME Init PROVE Imported BY SessionStarts DEF RemoteSession
<1> QED BY IdleIsOp DEF Init, Imported, OneSource, SourceOfLoaded, LabelOfSelected, reads

LEMMA RemoteSessionGoesOn ==
    ASSUME LocalDays = {}
    PROVE  RemoteSession /\ [Next]_vars => RemoteSession'
<1> SUFFICES ASSUME RemoteSession, [Next]_vars PROVE RemoteSession' OBVIOUS
<1>1. SafeSession' BY SessionGoesOn DEF RemoteSession
<1>2. ASSUME UNCHANGED vars PROVE Imported' BY <1>2, ImportedLabel, NothingLoaded DEF vars
<1>3. ASSUME Next PROVE Imported'
  BY <1>3, UserImported, ChangeBankImported, LoadImported, OperationImported, TimersImported DEF Next, Operation
<1> QED BY <1>1, <1>2, <1>3 DEF RemoteSession

(***************************************************************************)
(* For any banks, days and imports from a server: what is loaded, its      *)
(* folders, its job and its label belong together (web_app.py:603-690).    *)
(***************************************************************************)
THEOREM WorkspaceInvariant ==
    ASSUME LocalDays = {}
    PROVE  Spec => []WorkspaceInv
BY RemoteSessionInv, RemoteSessionStarts, RemoteSessionGoesOn, PTL DEF Spec
=============================================================================
