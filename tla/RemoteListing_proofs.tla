-------------------------- MODULE RemoteListing_proofs --------------------------
(***************************************************************************)
(* Proofs about the dialog that lists the remote server (RemoteListing),   *)
(* for any hosts, files, banks and attempts.                               *)
(***************************************************************************)
EXTENDS RemoteListing, TLAPS

\* The two invariants lean on each other.
SafeListing == ListingInv /\ RetriesAreSafe

-----------------------------------------------------------------------------
(* Connections and banks *)

LEMMA ConnectionOf ==
    ASSUME NEW f \in Hosts \union {NoHost}
    PROVE  /\ Connection(f) \in Connections /\ Connection(f) # NoConnection
           /\ Connection(f).fingerprint = f /\ Effective(Connection(f)) = f
<1>1. Connection(f).fingerprint = f /\ f # -1 BY ListingAssumption DEF Connection, NoHost
<1> QED BY <1>1 DEF Connection, Connections, NoConnection, Effective

LEMMA NoConnectionType == NoConnection \in Connections
BY DEF Connections

\* A bank of some audits has one of them: those that no bank owns alone count
\* only when there are no others.
LEMMA BankHasOne ==
    ASSUME NEW ns, NEW b \in BanksForAudits(ns)
    PROVE  NamesForBank(ns, b) # {}
<1> DEFINE codes == {n.source.code : n \in ns}
<1>1. CASE codes = {Ptms}
  <2>1. PICK n \in ns : n.source.code = Ptms BY <1>1
  <2>2. n \in NamesForBank(ns, b) BY <2>1 DEF NamesForBank
  <2> QED BY <2>2
<1>2. CASE codes # {Ptms}
  <2>1. b \in Banks /\ \E c \in codes \ {Ptms} : b \in BankOf[c] BY <1>2 DEF BanksForAudits
  <2>2. PICK n \in ns : n.source.code # Ptms /\ b \in BankOf[n.source.code] BY <2>1
  <2>3. {m.source.code : m \in {n}} = {n.source.code} OBVIOUS
  <2>4. n.source.code \in {m.source.code : m \in {n}} \ {Ptms} /\ {m.source.code : m \in {n}} # {Ptms} BY <2>2, <2>3
  <2>5. b \in BanksForAudits({n}) BY <2>1, <2>2, <2>4 DEF BanksForAudits
  <2>6. n \in NamesForBank(ns, b) BY <2>5 DEF NamesForBank
  <2> QED BY <2>6
<1> QED BY <1>1, <1>2

LEMMA BanksAreBanks == ASSUME NEW ns PROVE BanksForAudits(ns) \subseteq Banks
BY DEF BanksForAudits

LEMMA ChosenIsBank == ASSUME NEW ns, NEW day PROVE Chosen(ns, day) \in Banks \union {NoBank}
<1> DEFINE available == Available(ns, day)
<1>1. available \subseteq Banks BY BanksAreBanks DEF Available
<1> HIDE DEF available
<1>2. SelectedBank \in Banks BY ListingAssumption
<1>3. Chosen(ns, day) = CASE SelectedBank \in available -> SelectedBank
                          [] available = {} -> NoBank
                          [] OTHER -> CHOOSE b \in available : TRUE
  BY DEF Chosen, available
<1>4. CASE SelectedBank \in available BY <1>2, <1>3, <1>4
<1>5. CASE available = {} BY <1>3, <1>5
<1>6. CASE SelectedBank \notin available /\ available # {}
  <2>1. (CHOOSE b \in available : TRUE) \in available BY <1>6
  <2> QED BY <1>1, <1>3, <1>6, <2>1
<1> QED BY <1>4, <1>5, <1>6

\* What is imported has the audits of its day that were listed.
LEMMA AuditsOfImport ==
    ASSUME NEW ns, NEW day
    PROVE  AuditsOf(AuditsOf(ns, day) \union LogsOf(ns, day), day) = AuditsOf(ns, day)
BY DEF AuditsOf, LogsOf

LEMMA AttemptBound ==
    ASSUME NEW n \in Nat
    PROVE  /\ n + 1 \in 0..MaxAttempts => n + 1 <= MaxAttempts
           /\ \A l \in Nat, k \in {0, 1} : l <= n + k => l <= n + 1
BY ListingAssumption

-----------------------------------------------------------------------------
(* What a step leaves alone *)

LEMMA SameAttempts ==
    ASSUME SafeListing, UNCHANGED <<task, tried, logins, listing>>
    PROVE  AttemptsInv' /\ RetriesAreSafe'
BY DEF SafeListing, ListingInv, AttemptsInv, RetriesAreSafe, Calling

\* An import keeps to its host and has its audits, until it starts or reads.
LEMMA SameRequest ==
    ASSUME SafeListing, UNCHANGED import, dialog' = "deleted" \/ dialog # "deleted"
    PROVE  RequestInv' /\ OneServer' /\ BankHasAudits'
<1>1. request' = request /\ got' = got BY DEF import
<1>2. Foreground' = Foreground BY <1>1 DEF Foreground
<1> QED BY <1>1, <1>2 DEF SafeListing, ListingInv, RequestInv, OneServer, BankHasAudits

LEMMA SameDialogRequest ==
    ASSUME SafeListing, UNCHANGED import, dialog' = dialog
    PROVE  RequestInv' /\ OneServer' /\ BankHasAudits'
<1>1. dialog' = "deleted" \/ dialog # "deleted" OBVIOUS
<1> QED BY <1>1, SameRequest

LEMMA HostIsOne == ASSUME SafeListing PROVE RequestInv => OneServer
BY DEF RequestInv, OneServer

-----------------------------------------------------------------------------
(* The server, the calendar and the banks *)

LEMMA ServerKeeps == ASSUME SafeListing, Server PROVE SafeListing'
<1>1. UNCHANGED <<dialog, closure, clicks, listingVars, import>>
  BY DEF Server, ChangeHost, NewSource
<1> USE DEF SafeListing, ListingInv, closure, listingVars
<1>2. TypeOK'
  <2>1. ASSUME NEW h \in Hosts, ChangeHost(h) PROVE TypeOK'
    BY <1>1, <2>1, ListingAssumption DEF ChangeHost, TypeOK, import
  <2>2. ASSUME NEW h \in Hosts, NEW s \in Sources, NewSource(h, s) PROVE TypeOK'
    BY <1>1, <2>2 DEF NewSource, TypeOK, import
  <2> QED BY <2>1, <2>2 DEF Server
<1>3. AttemptsInv' /\ RetriesAreSafe' BY <1>1, SameAttempts
<1>4. RequestInv' /\ OneServer' /\ BankHasAudits' BY <1>1, SameDialogRequest
<1>5. CanGoOn' BY <1>1 DEF CanGoOn
<1>6. TaskInv' BY <1>1 DEF TaskInv
<1>7. ListedInv' BY <1>1 DEF ListedInv
<1> QED BY <1>2, <1>3, <1>4, <1>5, <1>6, <1>7

\* The user picks a day or a bank, clicks, or cancels.
LEMMA ChoiceKeeps ==
    ASSUME SafeListing, \/ Cancel \/ ClickRetry
                        \/ \E d \in Days \union {NoDay} : PickDay(d)
                        \/ \E b \in Banks : PickBank(b)
    PROVE  SafeListing'
<1>1. UNCHANGED <<server, listed, names, trusted, listing, retry, listingVars, import>>
  BY DEF Cancel, ClickRetry, PickDay, PickBank, closure
<1>2. dialog = "open" /\ dialog' \in {"open", "deleted"}
  BY DEF Cancel, ClickRetry, PickDay, PickBank, closure
<1> DEFINE chosen == clicks' \in 0..MaxClicks /\ calendar' \in Days \union {NoDay} /\ bank' \in Banks \union {NoBank}
<1>3. chosen
  <2>1. CASE Cancel BY <2>1 DEF Cancel, closure, SafeListing, ListingInv, TypeOK
  <2>2. CASE ClickRetry BY <2>2, ListingAssumption DEF ClickRetry, closure, SafeListing, ListingInv, TypeOK
  <2>3. ASSUME NEW d \in Days \union {NoDay}, PickDay(d) PROVE chosen
    BY <2>3, ChosenIsBank DEF PickDay, SafeListing, ListingInv, TypeOK
  <2>4. ASSUME NEW b \in Banks, PickBank(b) PROVE chosen
    BY <2>4 DEF PickBank, SafeListing, ListingInv, TypeOK
  <2> QED BY <2>1, <2>2, <2>3, <2>4
<1> USE DEF SafeListing, ListingInv, server, listingVars
<1>4. TypeOK' BY <1>1, <1>2, <1>3 DEF TypeOK, import
<1>5. AttemptsInv' /\ RetriesAreSafe' BY <1>1, SameAttempts
<1>6. RequestInv' /\ OneServer' /\ BankHasAudits' BY <1>1, <1>2, SameRequest
<1>7. CanGoOn' BY <1>1, <1>2 DEF CanGoOn
<1>8. TaskInv' BY <1>1 DEF TaskInv
<1>9. ListedInv' BY <1>1 DEF ListedInv
<1> QED BY <1>4, <1>5, <1>6, <1>7, <1>8, <1>9

-----------------------------------------------------------------------------
(* inspect_remote *)

LEMMA TaskTypes ==
    /\ NoTask \in Tasks /\ NoTask.pc = "idle"
    /\ \A n \in 1..MaxAttempts, t \in Hosts \union {NoHost} :
           [NoTask EXCEPT !.pc = "tcp", !.attempt = n, !.candidate = Connection(t)] \in Tasks
<1>1. NoTask \in Tasks /\ NoTask.pc = "idle"
  BY NoConnectionType, ListingAssumption DEF NoTask, Tasks
<1>2. ASSUME NEW n \in 1..MaxAttempts, NEW t \in Hosts \union {NoHost}
      PROVE  [NoTask EXCEPT !.pc = "tcp", !.attempt = n, !.candidate = Connection(t)] \in Tasks
  <2>1. Connection(t) \in Connections BY ConnectionOf
  <2>2. n \in 0..MaxAttempts BY ListingAssumption
  <2> QED BY <1>1, <2>1, <2>2 DEF Tasks, Calls
<1> QED BY <1>1, <1>2

LEMMA AttemptFacts ==
    ASSUME SafeListing, NEW n \in 1..MaxAttempts
    PROVE  /\ Attempt(n) \in Tasks /\ Attempt(n).pc = "tcp" /\ Attempt(n).attempt = n
           /\ Attempt(n).candidate # NoConnection /\ Attempt(n).found = {}
<1>1. trusted \in Hosts \union {NoHost} BY DEF SafeListing, ListingInv, TypeOK
<1> QED BY <1>1, TaskTypes, ConnectionOf DEF Attempt, NoTask

\* What is tried again is no refusal.
LEMMA TransientIsNoRefusal ==
    ASSUME NEW error, IsTransient(error)
    PROVE  error # {} /\ error \intersect Refusals = {}
<1>1. ClassesOf["login"] \intersect NeverRetried # {} /\ ClassesOf["hostkey"] \intersect NeverRetried # {}
  BY DEF ClassesOf, NeverRetried
<1>2. ClassesOf["denied"] \intersect Transport = {} BY DEF ClassesOf, Transport
<1>3. "login" \notin error /\ "hostkey" \notin error /\ "denied" \notin error BY <1>1, <1>2 DEF IsTransient
<1> QED BY <1>3 DEF IsTransient, Refusals

LEMMA StartKeeps ==
    ASSUME SafeListing, StartListing, dialog' \in {"open", dialog}, dialog' = dialog \/ dialog = "closed", clicks' \in 0..MaxClicks
    PROVE  SafeListing'
<1>0. 1 \in 1..MaxAttempts BY ListingAssumption
<1>1. /\ listing' = TRUE /\ listed' = NoConnection /\ names' = {} /\ bank' = NoBank /\ retry' = FALSE
      /\ task' = Attempt(1) /\ tried' = <<>> /\ logins' = 0
      /\ UNCHANGED <<host, files, changes, trusted, calendar, request, got>>
  BY DEF StartListing, server, import
<1>2. /\ task' \in Tasks /\ task'.pc = "tcp" /\ task'.attempt = 1
      /\ task'.candidate # NoConnection /\ task'.found = {}
  BY <1>0, <1>1, AttemptFacts
<1>3. TypeOK'
  <2>1. dialog' \in {"closed", "open", "deleted"} BY DEF SafeListing, ListingInv, TypeOK
  <2>2. tried' \in Seq(SUBSET Causes) /\ logins' \in Nat BY <1>1
  <2> QED BY <1>1, <1>2, <2>1, <2>2, NoConnectionType DEF SafeListing, ListingInv, TypeOK
<1>4. RequestInv' /\ OneServer' /\ BankHasAudits'
  <2>1. UNCHANGED import BY <1>1 DEF import
  <2> QED BY <2>1, SameRequest, SameDialogRequest
<1>5. CanGoOn' BY <1>1 DEF CanGoOn
<1>6. TaskInv' BY <1>1, <1>2 DEF TaskInv
<1>7. ListedInv' BY <1>1 DEF ListedInv
<1>8. AttemptsInv' /\ RetriesAreSafe'
  <2>1. Len(tried') = 0 /\ 1 <= MaxAttempts BY <1>1, ListingAssumption
  <2>2. \A i \in 1..Len(tried') : FALSE BY <2>1
  <2>3. task'.pc = "tcp" /\ task'.attempt = Len(tried') + 1 /\ Calling' BY <1>2, <2>1 DEF Calling
  <2>6. (IF Calling /\ task.pc # "tcp" THEN 1 ELSE 0)' = 0 BY <2>3
  <2>7. logins' <= Len(tried') + (IF Calling /\ task.pc # "tcp" THEN 1 ELSE 0)' BY <1>1, <2>1, <2>6
  <2>4. AttemptsInv' BY <2>2, <2>3, <2>7 DEF AttemptsInv
  <2>5. RetriesAreSafe' BY <1>1, <2>1, <2>2, <2>3 DEF RetriesAreSafe
  <2> QED BY <2>4, <2>5
<1> QED BY <1>3, <1>4, <1>5, <1>6, <1>7, <1>8 DEF SafeListing, ListingInv

LEMMA OpenKeeps == ASSUME SafeListing, Open PROVE SafeListing'
<1>1. StartListing /\ dialog' = "open" /\ dialog = "closed" /\ clicks' = clicks BY DEF Open
<1>2. clicks' \in 0..MaxClicks BY <1>1 DEF SafeListing, ListingInv, TypeOK
<1> QED BY <1>1, <1>2, StartKeeps

LEMMA RetryKeeps == ASSUME SafeListing, Retry PROVE SafeListing'
<1>1. clicks \in 0..MaxClicks /\ clicks' \in 0..MaxClicks /\ dialog' = dialog
  BY ListingAssumption DEF Retry, SafeListing, ListingInv, TypeOK
<1>2. CASE StartListing BY <1>1, <1>2, StartKeeps
<1>3. CASE UNCHANGED <<server, closure, listingVars, import>>
  <2> USE DEF SafeListing, ListingInv, server, closure, listingVars
  <2>1. TypeOK' BY <1>1, <1>3 DEF TypeOK, import
  <2>2. AttemptsInv' /\ RetriesAreSafe' BY <1>3, SameAttempts
  <2>3. RequestInv' /\ OneServer' /\ BankHasAudits' BY <1>1, <1>3, SameDialogRequest
  <2>4. CanGoOn' BY <1>1, <1>3 DEF CanGoOn
  <2>5. TaskInv' BY <1>3 DEF TaskInv
  <2>6. ListedInv' BY <1>3 DEF ListedInv
  <2> QED BY <2>1, <2>2, <2>3, <2>4, <2>5, <2>6
<1> QED BY <1>2, <1>3 DEF Retry

\* What is known while an attempt runs, or between two.
LEMMA UnderWay ==
    ASSUME SafeListing, task.pc # "idle"
    PROVE  /\ listing /\ listed = NoConnection /\ names = {} /\ task.candidate # NoConnection
           /\ task \in Tasks /\ tried \in Seq(SUBSET Causes) /\ Len(tried) \in Nat
           /\ logins \in Nat /\ logins <= Len(tried) + (IF Calling THEN 1 ELSE 0)
           /\ \A i \in 1..Len(tried) : IsTransient(tried[i])
<1>1. task \in Tasks /\ tried \in Seq(SUBSET Causes) /\ Len(tried) \in Nat /\ logins \in Nat
  BY DEF SafeListing, ListingInv, TypeOK
<1>2. listing /\ listed = NoConnection /\ names = {} /\ task.candidate # NoConnection
  BY DEF SafeListing, ListingInv, TaskInv
<1>3. \A i \in 1..Len(tried) : IsTransient(tried[i])
  BY <1>2 DEF SafeListing, ListingInv, AttemptsInv
<1>4. logins <= Len(tried) + (IF Calling THEN 1 ELSE 0)
  BY DEF SafeListing, RetriesAreSafe
<1> QED BY <1>1, <1>2, <1>3, <1>4

\* An attempt is counted when it ends.
LEMMA EndCounts ==
    ASSUME SafeListing, Calling, NEW end \in SUBSET Causes,
           tried' = Append(tried, end), logins' = logins
    PROVE  /\ tried' \in Seq(SUBSET Causes)
           /\ Len(tried') = task.attempt /\ Len(tried') \in 1..MaxAttempts
           /\ logins' <= Len(tried')
           /\ \A i \in 1..Len(tried') : i # Len(tried') => IsTransient(tried'[i])
           /\ tried'[Len(tried')] = end
<1>1. task.pc # "idle" BY DEF Calling
<1>2. tried \in Seq(SUBSET Causes) /\ Len(tried) \in Nat /\ logins \in Nat
      /\ \A i \in 1..Len(tried) : IsTransient(tried[i])
  BY <1>1, UnderWay
<1>3. task.attempt = Len(tried) + 1 /\ task.attempt \in 0..MaxAttempts
  BY <1>1, UnderWay DEF SafeListing, ListingInv, AttemptsInv, Tasks
<1>4. logins <= Len(tried) + 1
  BY <1>1, UnderWay
<1>5. Len(tried') = Len(tried) + 1 /\ tried' \in Seq(SUBSET Causes)
      /\ (\A i \in 1..Len(tried) : tried'[i] = tried[i]) /\ tried'[Len(tried) + 1] = end
  BY <1>2
<1>6. Len(tried') \in 1..MaxAttempts BY <1>2, <1>3, <1>5, ListingAssumption
<1>7. logins' <= Len(tried') BY <1>2, <1>4, <1>5
<1>8. \A i \in 1..Len(tried') : i # Len(tried') => i \in 1..Len(tried) BY <1>2, <1>5
<1> QED BY <1>2, <1>3, <1>5, <1>6, <1>7, <1>8

\* The listing ends, and with it the counting.
LEMMA EndedAttempts ==
    ASSUME SafeListing, Calling, NEW end \in SUBSET Causes,
           tried' = Append(tried, end), logins' = logins, Return
    PROVE  AttemptsInv' /\ RetriesAreSafe'
<1>1. /\ Len(tried') \in 1..MaxAttempts /\ logins' <= Len(tried') /\ logins' \in Nat
      /\ \A i \in 1..Len(tried') : i # Len(tried') => IsTransient(tried'[i])
  BY EndCounts DEF SafeListing, ListingInv, TypeOK
<1>2. listing' = FALSE /\ task'.pc = "idle" /\ ~Calling'
  BY TaskTypes DEF Return, Calling
<1>3. (IF Calling /\ task.pc # "tcp" THEN 1 ELSE 0)' = 0 /\ (IF Calling THEN 1 ELSE 0)' = 0
  BY <1>2
<1>4. logins' <= Len(tried') + 0 /\ Len(tried') + 0 <= MaxAttempts BY <1>1
<1>5. AttemptsInv' BY <1>2, <1>3, <1>4 DEF AttemptsInv
<1>6. RetriesAreSafe'
  <2>1. \A i \in 1..Len(tried') : tried'[i] = {} \/ tried'[i] \intersect Refusals # {} => i = Len(tried')
    BY <1>1, TransientIsNoRefusal
  <2> QED BY <1>2, <1>3, <1>4, <2>1 DEF RetriesAreSafe
<1> QED BY <1>5, <1>6

LEMMA FailedKeeps == ASSUME SafeListing, Failed PROVE SafeListing'
<1>1. /\ task.pc = "raised" /\ tried' = Append(tried, task.error)
      /\ UNCHANGED <<host, files, changes, dialog, listed, names, trusted, calendar, bank, clicks, logins, request, got>>
  BY DEF Failed, server, import
<1>2. Calling /\ task.pc # "idle" BY <1>1 DEF Calling
<1>3. task \in Tasks /\ listing /\ listed = NoConnection /\ names = {} /\ task.candidate # NoConnection
  BY <1>2, UnderWay
<1>5. task.error \in SUBSET Causes BY <1>3 DEF Tasks
<1>6. tried' \in Seq(SUBSET Causes) /\ logins' = logins
  BY <1>1, <1>2, <1>5, EndCounts
<1>7. RequestInv' /\ OneServer' /\ BankHasAudits'
  BY <1>1, SameDialogRequest DEF import
<1>8. ListedInv' BY <1>1 DEF SafeListing, ListingInv, ListedInv
<1>9. CASE Return /\ retry' \in {retry, TRUE} /\ (dialog = "open" => retry')
  <2>1. listing' = FALSE /\ task' = NoTask BY <1>9 DEF Return
  <2>2. TypeOK' BY <1>1, <1>6, <1>9, <2>1, TaskTypes DEF SafeListing, ListingInv, TypeOK
  <2>3. AttemptsInv' /\ RetriesAreSafe' BY <1>1, <1>2, <1>5, <1>6, <1>9, EndedAttempts
  <2>4. CanGoOn' BY <1>1, <1>9 DEF CanGoOn
  <2>5. TaskInv' BY <2>1, TaskTypes DEF TaskInv
  <2> QED BY <1>7, <1>8, <2>2, <2>3, <2>4, <2>5 DEF SafeListing, ListingInv
<1>10. CASE /\ TriesAgain(task.attempt) /\ IsTransient(task.error)
            /\ task' = [task EXCEPT !.pc = "sleep"] /\ UNCHANGED <<listing, retry>>
  <2>1. task' \in Tasks /\ task'.pc = "sleep" /\ task'.candidate = task.candidate
        /\ task'.attempt = task.attempt /\ ~Calling'
    BY <1>3, <1>10 DEF Tasks, Calling
  <2>2. TypeOK' BY <1>1, <1>6, <1>10, <2>1 DEF SafeListing, ListingInv, TypeOK
  <2>3. AttemptsInv' /\ RetriesAreSafe'
    <3>1. /\ Len(tried') = task.attempt /\ Len(tried') \in 1..MaxAttempts /\ logins' <= Len(tried') /\ logins' \in Nat
          /\ \A i \in 1..Len(tried') : i # Len(tried') => IsTransient(tried'[i])
          /\ tried'[Len(tried')] = task.error
      BY <1>1, <1>2, <1>5, <1>6, EndCounts DEF SafeListing, ListingInv, TypeOK
    <3>2. \A i \in 1..Len(tried') : IsTransient(tried'[i]) BY <1>10, <3>1
    <3>3. (IF Calling /\ task.pc # "tcp" THEN 1 ELSE 0)' = 0 /\ (IF Calling THEN 1 ELSE 0)' = 0 BY <2>1
    <3>4. logins' <= Len(tried') + 0 /\ Len(tried') + 0 <= MaxAttempts BY <3>1
    <3>5. task'.attempt = Len(tried') /\ task'.attempt < MaxAttempts BY <1>10, <2>1, <3>1 DEF TriesAgain
    <3>6. AttemptsInv' BY <2>1, <3>2, <3>3, <3>4, <3>5 DEF AttemptsInv
    <3>7. RetriesAreSafe' BY <3>2, <3>3, <3>4, TransientIsNoRefusal DEF RetriesAreSafe
    <3> QED BY <3>6, <3>7
  <2>4. CanGoOn' BY <1>3, <1>10 DEF CanGoOn
  <2>5. TaskInv' BY <1>1, <1>3, <1>10, <2>1 DEF TaskInv
  <2> QED BY <1>7, <1>8, <2>2, <2>3, <2>4, <2>5 DEF SafeListing, ListingInv
<1> QED BY <1>1, <1>9, <1>10 DEF Failed, OffersRetry

LEMMA WakeUpKeeps == ASSUME SafeListing, WakeUp PROVE SafeListing'
<1>1. /\ task.pc = "sleep"
      /\ UNCHANGED <<host, files, changes, dialog, listed, names, trusted, calendar, bank, retry, clicks, tried, logins, request, got>>
  BY DEF WakeUp, server, import
<1>2. task.pc # "idle" /\ ~Calling BY <1>1 DEF Calling
<1>3. /\ listing /\ listed = NoConnection /\ names = {} /\ Len(tried) \in Nat /\ logins \in Nat
      /\ logins <= Len(tried)
      /\ \A i \in 1..Len(tried) : IsTransient(tried[i])
  BY <1>2, UnderWay
<1>4. task.attempt = Len(tried) /\ task.attempt < MaxAttempts
  BY <1>1 DEF SafeListing, ListingInv, AttemptsInv
<1>5. RequestInv' /\ OneServer' /\ BankHasAudits'
  BY <1>1, SameDialogRequest DEF import
<1>6. ListedInv' BY <1>1 DEF SafeListing, ListingInv, ListedInv
<1>7. CASE dialog = "deleted" /\ Return
  <2>1. listing' = FALSE /\ task' = NoTask /\ task'.pc = "idle" /\ ~Calling' BY <1>7, TaskTypes DEF Return, Calling
  <2>2. TypeOK' BY <1>1, <2>1, TaskTypes DEF SafeListing, ListingInv, TypeOK
  <2>3. AttemptsInv' /\ RetriesAreSafe'
    <3>1. (IF Calling /\ task.pc # "tcp" THEN 1 ELSE 0)' = 0 /\ (IF Calling THEN 1 ELSE 0)' = 0 BY <2>1
    <3>2. logins' <= Len(tried') + 0 /\ Len(tried') + 0 <= MaxAttempts BY <1>1, <1>3, <1>4, ListingAssumption
    <3>3. AttemptsInv' BY <2>1, <3>1, <3>2 DEF AttemptsInv
    <3>4. RetriesAreSafe' BY <1>1, <1>3, <3>1, <3>2, TransientIsNoRefusal DEF RetriesAreSafe
    <3> QED BY <3>3, <3>4
  <2>4. CanGoOn' BY <1>1, <1>7 DEF CanGoOn
  <2>5. TaskInv' BY <2>1 DEF TaskInv
  <2> QED BY <1>5, <1>6, <2>2, <2>3, <2>4, <2>5 DEF SafeListing, ListingInv
<1>8. CASE task' = Attempt(task.attempt + 1) /\ UNCHANGED listing
  <2>1. task.attempt + 1 \in 1..MaxAttempts BY <1>3, <1>4, ListingAssumption
  <2>2. /\ task' \in Tasks /\ task'.pc = "tcp" /\ task'.attempt = Len(tried) + 1 /\ Calling'
        /\ task'.candidate # NoConnection /\ task'.found = {}
    BY <1>4, <1>8, <2>1, AttemptFacts DEF Calling
  <2>3. TypeOK' BY <1>1, <1>8, <2>2 DEF SafeListing, ListingInv, TypeOK
  <2>4. AttemptsInv' /\ RetriesAreSafe'
    <3>1. (IF Calling /\ task.pc # "tcp" THEN 1 ELSE 0)' = 0 /\ (IF Calling THEN 1 ELSE 0)' = 1 BY <2>2
    <3>2. logins' <= Len(tried') + 0 /\ logins' <= Len(tried') + 1 /\ Len(tried') + 1 <= MaxAttempts
      BY <1>1, <1>3, <1>4, <2>1
    <3>3. AttemptsInv' BY <1>1, <1>3, <2>2, <3>1, <3>2 DEF AttemptsInv
    <3>4. RetriesAreSafe' BY <1>1, <1>3, <3>1, <3>2, TransientIsNoRefusal DEF RetriesAreSafe
    <3> QED BY <3>3, <3>4
  <2>5. CanGoOn' BY <1>3, <1>8 DEF CanGoOn
  <2>6. TaskInv' BY <1>1, <1>3, <1>8, <2>2 DEF TaskInv
  <2> QED BY <1>5, <1>6, <2>3, <2>4, <2>5, <2>6 DEF SafeListing, ListingInv
<1> QED BY <1>7, <1>8 DEF WakeUp

LEMMA SucceededKeeps == ASSUME SafeListing, Succeeded PROVE SafeListing'
<1>1. /\ task.pc = "returned" /\ tried' = Append(tried, {}) /\ names' = task.found /\ Return
      /\ UNCHANGED <<host, files, changes, dialog, retry, clicks, logins, request, got>>
  BY DEF Succeeded, server, import
<1>2. Calling /\ task.pc # "idle" BY <1>1 DEF Calling
<1>3. task \in Tasks /\ listed = NoConnection BY <1>2, UnderWay
<1>4. /\ task.host \in Hosts /\ Effective(task.candidate) = task.host
      /\ \A n \in task.found : n.host = task.host
  BY <1>1 DEF SafeListing, ListingInv, TaskInv
<1>5. listing' = FALSE /\ task' = NoTask BY <1>1 DEF Return
<1>a. {} \in SUBSET Causes /\ logins' = logins BY <1>1
<1>6. tried' \in Seq(SUBSET Causes) BY <1>1, <1>2, <1>a, EndCounts
<1>7. AttemptsInv' /\ RetriesAreSafe' BY <1>1, <1>2, <1>a, EndedAttempts
<1>8. RequestInv' /\ OneServer' /\ BankHasAudits'
  BY <1>1, SameDialogRequest DEF import
<1>9. TaskInv' BY <1>5, TaskTypes DEF TaskInv
<1>10. names' \subseteq Listed BY <1>1, <1>3 DEF Tasks
<1>11. CASE dialog = "deleted" /\ UNCHANGED <<listed, trusted, calendar, bank>>
  <2>1. TypeOK' BY <1>1, <1>5, <1>6, <1>10, <1>11, TaskTypes DEF SafeListing, ListingInv, TypeOK
  <2>2. ListedInv' BY <1>3, <1>11 DEF ListedInv
  <2>3. CanGoOn' BY <1>1, <1>11 DEF CanGoOn
  <2> QED BY <1>7, <1>8, <1>9, <2>1, <2>2, <2>3 DEF SafeListing, ListingInv
<1>12. CASE dialog # "deleted"
  <2>1. /\ trusted' = Learns /\ listed' = Connection(Learns)
        /\ IF {n.source.day : n \in task.found} = {} THEN calendar' = NoDay
           ELSE calendar' \in {n.source.day : n \in task.found}
        /\ bank' = Chosen(task.found, calendar')
    BY <1>12 DEF Succeeded
  <2>2. Learns = task.host BY <1>4 DEF Learns
  <2>3. /\ trusted' \in Hosts /\ listed' \in Connections /\ listed' # NoConnection
        /\ listed'.fingerprint = task.host
    BY <1>4, <2>1, <2>2, ConnectionOf
  <2>4. calendar' \in Days \union {NoDay}
    <3>1. \A n \in task.found : n.source \in Sources BY <1>1, <1>10 DEF Listed
    <3>2. {n.source.day : n \in task.found} \subseteq Days BY <3>1 DEF Days
    <3> QED BY <2>1, <3>2
  <2>5. bank' \in Banks \union {NoBank} BY <2>1, ChosenIsBank
  <2>6. TypeOK' BY <1>1, <1>5, <1>6, <1>10, <2>3, <2>4, <2>5, TaskTypes DEF SafeListing, ListingInv, TypeOK
  <2>7. ListedInv' BY <1>1, <1>4, <2>3 DEF ListedInv
  <2>8. CanGoOn' BY <2>3 DEF CanGoOn
  <2> QED BY <1>7, <1>8, <1>9, <2>6, <2>7, <2>8 DEF SafeListing, ListingInv
<1> QED BY <1>11, <1>12 DEF Succeeded

-----------------------------------------------------------------------------
(* list_remote_sources *)

\* A step of the thread that stays within its attempt.
LEMMA ThreadStays ==
    ASSUME SafeListing, OnlyTask, Calling, task' \in Tasks, task'.candidate # NoConnection,
           Calling', task'.attempt = task.attempt, logins' \in Nat,
           logins' <= Len(tried) + (IF task'.pc # "tcp" THEN 1 ELSE 0),
           task'.pc = "raised" => task'.error # {},
           task'.pc = "tcp" => task'.found = {},
           task'.pc \in {"auth", "sftp", "audits", "logs", "returned"} =>
               /\ task'.host \in Hosts /\ Effective(task'.candidate) = task'.host
               /\ \A n \in task'.found : n.host = task'.host
    PROVE  SafeListing'
<1>1. /\ UNCHANGED <<host, files, changes, dialog, listed, names, trusted, listing, calendar, bank, retry, clicks>>
      /\ UNCHANGED <<tried, request, got>>
  BY DEF OnlyTask, server, closure, import
<1>2. task.pc # "idle" BY DEF Calling
<1>3. /\ listing /\ listed = NoConnection /\ names = {} /\ Len(tried) \in Nat
      /\ \A i \in 1..Len(tried) : IsTransient(tried[i])
  BY <1>2, UnderWay
<1>4. TypeOK' BY <1>1 DEF SafeListing, ListingInv, TypeOK
<1>5. RequestInv' /\ OneServer' /\ BankHasAudits' BY <1>1, SameDialogRequest DEF import
<1>6. CanGoOn' BY <1>1, <1>3 DEF CanGoOn
<1>7. TaskInv' BY <1>1, <1>3 DEF TaskInv, Calling
<1>8. ListedInv' BY <1>1, <1>3 DEF ListedInv
<1>9. task.attempt = Len(tried) + 1 /\ task.attempt \in 0..MaxAttempts
  BY <1>2, UnderWay DEF SafeListing, ListingInv, AttemptsInv, Tasks
<1>10. (IF Calling /\ task.pc # "tcp" THEN 1 ELSE 0)' = (IF task'.pc # "tcp" THEN 1 ELSE 0)
       /\ (IF Calling THEN 1 ELSE 0)' = 1
  OBVIOUS
<1>11. logins' <= Len(tried) + 1 /\ Len(tried) + 1 <= MaxAttempts
  <2>1. Len(tried) + 1 <= MaxAttempts BY <1>3, <1>9, AttemptBound
  <2>2. PICK k \in {0, 1} : logins' <= Len(tried) + k OBVIOUS
  <2> QED BY <1>3, <2>1, <2>2, AttemptBound
<1>12. AttemptsInv' BY <1>1, <1>3, <1>9, <1>10 DEF AttemptsInv, Calling
<1>13. RetriesAreSafe' BY <1>1, <1>3, <1>10, <1>11, TransientIsNoRefusal DEF RetriesAreSafe
<1> QED BY <1>4, <1>5, <1>6, <1>7, <1>8, <1>12, <1>13 DEF SafeListing, ListingInv

\* What an attempt has before a step of its thread.
LEMMA CallFacts ==
    ASSUME SafeListing, task.pc \in Calls
    PROVE  /\ Calling /\ task \in Tasks /\ task.candidate \in Connections /\ task.candidate # NoConnection
           /\ Len(tried) \in Nat /\ logins \in Nat
           /\ logins <= Len(tried) + (IF task.pc # "tcp" THEN 1 ELSE 0)
           /\ logins <= Len(tried) + 1
           /\ task.pc # "tcp" => /\ task.host \in Hosts /\ Effective(task.candidate) = task.host
                                 /\ \A n \in task.found : n.host = task.host
           /\ task.pc = "tcp" => task.found = {}
<1>1. Calling /\ task.pc # "idle" BY DEF Calling, Calls
<1>2. task \in Tasks /\ task.candidate \in Connections /\ task.candidate # NoConnection
  BY <1>1, UnderWay DEF Tasks
<1>3. Len(tried) \in Nat /\ logins \in Nat BY <1>1, UnderWay
<1>4. logins <= Len(tried) + (IF task.pc # "tcp" THEN 1 ELSE 0)
  BY <1>1 DEF SafeListing, ListingInv, AttemptsInv
<1>5. logins <= Len(tried) + 1 BY <1>3, <1>4
<1>6. /\ task.pc # "tcp" => /\ task.host \in Hosts /\ Effective(task.candidate) = task.host
                            /\ \A n \in task.found : n.host = task.host
      /\ task.pc = "tcp" => task.found = {}
  BY DEF SafeListing, ListingInv, TaskInv, Calls
<1> QED BY <1>1, <1>2, <1>3, <1>4, <1>5, <1>6

LEMMA RaisesKeeps ==
    ASSUME SafeListing, task.pc \in Calls, NEW error \in SUBSET Causes, error # {},
           Raises(error), OnlyTask, UNCHANGED logins
    PROVE  SafeListing'
<1>1. task' = [task EXCEPT !.pc = "raised", !.error = error] BY DEF Raises
<1>2. /\ task' \in Tasks /\ task'.pc = "raised" /\ task'.error = error /\ error # {}
      /\ task'.candidate = task.candidate /\ task'.attempt = task.attempt /\ Calling'
  BY <1>1, CallFacts DEF Tasks, Calling
<1>3. logins' \in Nat /\ logins' <= Len(tried) + (IF task'.pc # "tcp" THEN 1 ELSE 0)
  BY <1>2, CallFacts
<1> QED BY <1>2, <1>3, CallFacts, ThreadStays

LEMMA HandshakeKeeps == ASSUME SafeListing, Handshake PROVE SafeListing'
<1>1. task.pc = "tcp" /\ task.pc \in Calls /\ OnlyTask BY DEF Handshake, Calls
<1>2. host \in Hosts BY DEF SafeListing, ListingInv, TypeOK
<1>3. CASE Accepts(task.candidate, host)
  <2> DEFINE kept == IF Effective(task.candidate) = NoHost THEN host ELSE task.candidate.accepted
             pinned == [task.candidate EXCEPT !.accepted = kept]
  <2>1. task' = [task EXCEPT !.pc = "auth", !.host = host, !.candidate = pinned] /\ logins' = logins + 1
    BY <1>3, CallFacts DEF Handshake, Tasks
  <2>2. pinned \in Connections /\ pinned # NoConnection /\ Effective(pinned) = host
    <3>1. task.candidate \in [fingerprint : Hosts \union {NoHost}, accepted : Hosts \union {NoHost}]
      BY <1>1, CallFacts DEF Connections
    <3>2. pinned \in [fingerprint : Hosts \union {NoHost}, accepted : Hosts \union {NoHost}]
      BY <1>2, <3>1
    <3>3. pinned.fingerprint = task.candidate.fingerprint /\ pinned.accepted = kept BY <3>1
    <3>4. pinned.fingerprint # -1 BY <3>1, <3>3, ListingAssumption DEF NoHost
    <3>5. Effective(pinned) = host BY <1>3, <3>3 DEF Accepts, Effective
    <3> QED BY <3>2, <3>4, <3>5 DEF Connections, NoConnection
  <2> HIDE DEF pinned
  <2>3. /\ task' \in Tasks /\ task'.pc = "auth" /\ task'.host = host /\ task'.candidate = pinned
        /\ task'.attempt = task.attempt /\ task'.found = task.found /\ Calling'
    BY <1>1, <1>2, <2>1, <2>2, CallFacts DEF Tasks, Calls, Calling
  <2>4. task'.found = {} BY <1>1, <2>3, CallFacts
  <2>5. logins' \in Nat /\ logins' <= Len(tried) + (IF task'.pc # "tcp" THEN 1 ELSE 0)
    <3>1. logins <= Len(tried) + 0 /\ logins \in Nat /\ Len(tried) \in Nat BY <1>1, CallFacts
    <3> QED BY <2>1, <2>3, <3>1
  <2> QED BY <1>1, <1>2, <2>2, <2>3, <2>4, <2>5, CallFacts, ThreadStays
<1>4. CASE ~Accepts(task.candidate, host)
  <2>1. Raises({"hostkey"}) /\ UNCHANGED logins BY <1>4 DEF Handshake
  <2>2. {"hostkey"} \in SUBSET Causes /\ {"hostkey"} # {} BY DEF Causes
  <2> QED BY <1>1, <2>1, <2>2, RaisesKeeps
<1> QED BY <1>3, <1>4

\* Login, sudo and the listing of the folders.
LEMMA WorkKeeps ==
    ASSUME SafeListing, task.pc \in Calls \ {"tcp"}, NEW pc \in {"sftp", "audits", "logs", "returned"},
           NEW more \in SUBSET {n \in Listed : n.host = task.host},
           task' = [task EXCEPT !.pc = pc, !.found = @ \union more], OnlyTask, UNCHANGED logins
    PROVE  SafeListing'
<1>1. task.pc \in Calls BY DEF Calls
<1>2. /\ task' \in Tasks /\ task'.pc = pc /\ task'.host = task.host /\ task'.candidate = task.candidate
      /\ task'.attempt = task.attempt /\ task'.found = task.found \union more /\ Calling'
  BY <1>1, CallFacts DEF Tasks, Calls, Calling
<1>3. /\ task'.host \in Hosts /\ Effective(task'.candidate) = task'.host
      /\ \A n \in task'.found : n.host = task'.host
  BY <1>1, <1>2, CallFacts
<1>4. logins' \in Nat /\ logins' <= Len(tried) + (IF task'.pc # "tcp" THEN 1 ELSE 0)
  BY <1>1, <1>2, CallFacts
<1> QED BY <1>1, <1>2, <1>3, <1>4, CallFacts, ThreadStays

LEMMA ListFolderKeeps ==
    ASSUME SafeListing, NEW kind, NEW next \in {"logs", "returned"}, task.pc \in {"audits", "logs"},
           ListFolder(kind, next)
    PROVE  SafeListing'
<1> DEFINE more == {[host |-> task.host, source |-> s] : s \in {f \in files[task.host] : f.kind = kind}}
<1>1. task.pc \in Calls \ {"tcp"} /\ task.pc \in Calls /\ task.pc # "tcp" BY DEF Calls
<1>2. task.host \in Hosts BY <1>1, CallFacts
<1>3. files[task.host] \subseteq Sources BY <1>2 DEF SafeListing, ListingInv, TypeOK
<1>4. more \in SUBSET {n \in Listed : n.host = task.host}
  <2>1. ASSUME NEW n \in more PROVE n \in Listed /\ n.host = task.host BY <1>2, <1>3 DEF Listed
  <2> QED BY <2>1
<1>5. task' = [task EXCEPT !.pc = next, !.found = @ \union more] /\ OnlyTask /\ UNCHANGED logins
  BY DEF ListFolder
<1> HIDE DEF more
<1> QED BY <1>1, <1>4, <1>5, WorkKeeps

LEMMA TcpTimesOutKeeps == ASSUME SafeListing, TcpTimesOut PROVE SafeListing'
<1>1. task.pc = "tcp" /\ task.pc \in Calls /\ OnlyTask /\ UNCHANGED logins BY DEF TcpTimesOut, Calls
<1>2. CASE task' = [task EXCEPT !.tcp = 1]
  <2>1. /\ task' \in Tasks /\ task'.pc = "tcp" /\ task'.candidate = task.candidate
        /\ task'.attempt = task.attempt /\ task'.found = task.found /\ Calling'
    <3>1. task \in Tasks BY <1>1, CallFacts
    <3>2. 1 \in 0..1 OBVIOUS
    <3>3. task' \in Tasks BY <1>2, <3>1, <3>2 DEF Tasks
    <3>4. /\ task'.pc = task.pc /\ task'.candidate = task.candidate
          /\ task'.attempt = task.attempt /\ task'.found = task.found
      BY <1>2, <3>1 DEF Tasks
    <3> QED BY <1>1, <3>3, <3>4 DEF Calling
  <2>2. logins' \in Nat /\ logins' <= Len(tried) + (IF task'.pc # "tcp" THEN 1 ELSE 0)
    BY <1>1, <2>1, CallFacts
  <2> QED BY <1>1, <2>1, <2>2, CallFacts, ThreadStays
<1>3. CASE Raises({"timeout"})
  <2>1. {"timeout"} \in SUBSET Causes /\ {"timeout"} # {} BY DEF Causes
  <2> QED BY <1>1, <1>3, <2>1, RaisesKeeps
<1> QED BY <1>2, <1>3 DEF TcpTimesOut

LEMMA ThreadKeeps == ASSUME SafeListing, Thread PROVE SafeListing'
<1>1. CASE TcpTimesOut BY <1>1, TcpTimesOutKeeps
<1>2. CASE Handshake BY <1>2, HandshakeKeeps
<1>3. CASE Proceed
  <2> DEFINE pc == IF task.pc = "auth" THEN "sftp" ELSE "audits"
  <2>1. task.pc \in {"auth", "sftp"} /\ task' = [task EXCEPT !.pc = pc] /\ OnlyTask /\ UNCHANGED logins
    BY <1>3 DEF Proceed
  <2>2. task.pc \in Calls \ {"tcp"} /\ task.pc \in Calls BY <2>1 DEF Calls
  <2>3. task \in Tasks BY <2>2, CallFacts
  <2>4. task' = [task EXCEPT !.pc = pc, !.found = @ \union {}] BY <2>1, <2>3 DEF Tasks
  <2>5. pc \in {"sftp", "audits", "logs", "returned"} /\ {} \in SUBSET {n \in Listed : n.host = task.host} OBVIOUS
  <2> HIDE DEF pc
  <2> QED BY <2>1, <2>2, <2>4, <2>5, WorkKeeps
<1>4. CASE Refuse
  <2>1. PICK error \in {{"login"}, {"denied"}} : Raises(error) BY <1>4 DEF Refuse
  <2>2. task.pc \in Calls /\ OnlyTask /\ UNCHANGED logins BY <1>4 DEF Refuse
  <2>3. error \in SUBSET Causes /\ error # {} BY DEF Causes
  <2> QED BY <2>1, <2>2, <2>3, RaisesKeeps
<1>5. CASE Lose
  <2>1. PICK error \in Losses(task.pc) : Raises(error) BY <1>5 DEF Lose
  <2>2. task.pc \in Calls /\ OnlyTask /\ UNCHANGED logins BY <1>5 DEF Lose
  <2>3. error \in SUBSET Causes /\ error # {} BY <2>2 DEF Losses, Causes, Calls
  <2> QED BY <2>1, <2>2, <2>3, RaisesKeeps
<1>6. CASE ListAudits BY <1>6, ListFolderKeeps DEF ListAudits
<1>7. CASE ListLogs BY <1>7, ListFolderKeeps DEF ListLogs
<1> QED BY <1>1, <1>2, <1>3, <1>4, <1>5, <1>6, <1>7 DEF Thread

-----------------------------------------------------------------------------
(* The import *)

LEMMA ImportKeeps == ASSUME SafeListing, Import PROVE SafeListing'
<1> DEFINE audits == AuditsOf(names, calendar)
           chosen == audits \union LogsOf(names, calendar)
<1>1. /\ dialog = "open" /\ listed # NoConnection /\ bank \in Available(names, calendar)
      /\ request' = [connection |-> listed, names |-> chosen, day |-> calendar, bank |-> bank]
      /\ dialog' = "deleted"
      /\ UNCHANGED <<host, files, changes, listed, names, trusted, listing, calendar, bank, retry, clicks>>
      /\ UNCHANGED <<task, tried, logins, got>>
  BY DEF Import, server, closure, listingVars
<1>2. request = NoRequest /\ got = {} BY <1>1 DEF SafeListing, ListingInv, RequestInv
<1>3. chosen \subseteq names BY DEF AuditsOf, LogsOf
<1>4. /\ listed \in Connections /\ names \subseteq Listed
      /\ calendar \in Days \union {NoDay} /\ bank \in Banks \union {NoBank}
  BY DEF SafeListing, ListingInv, TypeOK
<1>5. /\ request'.connection = listed /\ request'.names = chosen /\ request'.day = calendar /\ request'.bank = bank
      /\ request' \in [connection : Connections, names : SUBSET Listed, day : Days \union {NoDay}, bank : Banks \union {NoBank}]
  BY <1>1, <1>3, <1>4
<1>6. TypeOK' BY <1>1, <1>5 DEF SafeListing, ListingInv, TypeOK
<1>7. request' # NoRequest BY <1>1, <1>5 DEF NoRequest
<1>8. RequestInv'
  <2>1. listed.fingerprint \in Hosts /\ \A n \in names : n.host = listed.fingerprint
    BY <1>1 DEF SafeListing, ListingInv, ListedInv
  <2>2. \A n \in request'.names \union got' : n.host = request'.connection.fingerprint
    BY <1>1, <1>2, <1>3, <1>5, <2>1
  <2> QED BY <1>1, <1>5, <1>7, <2>1, <2>2 DEF RequestInv
<1>9. OneServer' BY <1>8 DEF RequestInv, OneServer
<1>10. BankHasAudits'
  <2>1. AuditsOf(request'.names, request'.day) = audits BY <1>5, AuditsOfImport
  <2>2. bank \in BanksForAudits(audits) BY <1>1 DEF Available
  <2>3. Foreground' = NamesForBank(audits, bank) BY <1>5, <2>1 DEF Foreground
  <2> QED BY <2>2, <2>3, BankHasOne DEF BankHasAudits
<1>11. AttemptsInv' /\ RetriesAreSafe' BY <1>1, SameAttempts
<1>12. CanGoOn' BY <1>1 DEF CanGoOn
<1>13. TaskInv' BY <1>1 DEF SafeListing, ListingInv, TaskInv
<1>14. ListedInv' BY <1>1 DEF SafeListing, ListingInv, ListedInv
<1> QED BY <1>6, <1>8, <1>9, <1>10, <1>11, <1>12, <1>13, <1>14 DEF SafeListing, ListingInv

LEMMA ReadKeeps ==
    ASSUME SafeListing, NEW batch \in SUBSET request.names, Read(batch)
    PROVE  SafeListing'
<1> DEFINE more == {[n EXCEPT !.host = host] : n \in {m \in batch : m.source \in files[host]}}
<1>1. /\ request # NoRequest /\ Accepts(request.connection, host) /\ got' = got \union more
      /\ UNCHANGED <<host, files, changes, dialog, listed, names, trusted, listing, calendar, bank, retry, clicks>>
      /\ UNCHANGED <<task, tried, logins>>
  BY DEF Read, server, closure, listingVars
<1>2. /\ request \in [connection : Connections, names : SUBSET Listed, day : Days \union {NoDay}, bank : Banks \union {NoBank}]
      /\ host \in Hosts
  BY DEF SafeListing, ListingInv, TypeOK
<1>3. /\ request.connection.fingerprint \in Hosts
      /\ \A n \in request.names \union got : n.host = request.connection.fingerprint
  BY <1>1 DEF SafeListing, ListingInv, RequestInv
<1>4. Effective(request.connection) = request.connection.fingerprint /\ Effective(request.connection) # NoHost
  BY <1>3, ListingAssumption DEF Effective
<1>5. host = request.connection.fingerprint BY <1>1, <1>4 DEF Accepts
<1>6. request' = request
  <2>1. request.connection \in [fingerprint : Hosts \union {NoHost}, accepted : Hosts \union {NoHost}]
    <3>1. request.connection # NoConnection BY <1>3, ListingAssumption DEF NoConnection
    <3> QED BY <1>2, <3>1 DEF Connections
  <2>2. [request EXCEPT !.connection.accepted = @] = request BY <1>2, <2>1
  <2> QED BY <1>4, <2>2 DEF Read
<1>7. ASSUME NEW n \in more PROVE n \in Listed /\ n.host = host
  BY <1>2 DEF Listed
<1> HIDE DEF more
<1>8. TypeOK' BY <1>1, <1>6, <1>7 DEF SafeListing, ListingInv, TypeOK
<1>9. RequestInv'
  <2>1. \A n \in request'.names \union got' : n.host = request'.connection.fingerprint
    BY <1>1, <1>3, <1>5, <1>6, <1>7
  <2> QED BY <1>1, <1>3, <1>6, <2>1 DEF SafeListing, ListingInv, RequestInv
<1>10. OneServer' BY <1>9 DEF RequestInv, OneServer
<1>11. BankHasAudits'
  <2>1. Foreground' = Foreground BY <1>6 DEF Foreground
  <2> QED BY <1>6, <2>1 DEF SafeListing, ListingInv, BankHasAudits
<1>12. AttemptsInv' /\ RetriesAreSafe' BY <1>1, SameAttempts
<1>13. CanGoOn' BY <1>1 DEF SafeListing, ListingInv, CanGoOn
<1>14. TaskInv' BY <1>1 DEF SafeListing, ListingInv, TaskInv
<1>15. ListedInv' BY <1>1 DEF SafeListing, ListingInv, ListedInv
<1> QED BY <1>8, <1>9, <1>10, <1>11, <1>12, <1>13, <1>14, <1>15 DEF SafeListing, ListingInv

LEMMA ReadingKeeps == ASSUME SafeListing, Reading PROVE SafeListing'
<1>1. /\ Foreground \in SUBSET request.names
      /\ LogsOf(request.names, request.day) \in SUBSET request.names
      /\ Background \in SUBSET request.names
  BY DEF Foreground, Background, NamesForBank, AuditsOf, LogsOf
<1> QED BY <1>1, ReadKeeps DEF Reading

-----------------------------------------------------------------------------
LEMMA ListingStarts == Init => SafeListing
<1> SUFFICES ASSUME Init PROVE SafeListing OBVIOUS
<1> USE DEF Init
<1>1. request = NoRequest /\ got = {} /\ listed = NoConnection /\ names = {} /\ listing = FALSE OBVIOUS
<1>2. tried = <<>> /\ Len(tried) = 0 /\ logins = 0 /\ task = NoTask /\ task.pc = "idle" /\ ~Calling
  BY TaskTypes DEF Calling
<1>3. TypeOK
  <2>1. NoRequest \in [connection : Connections, names : SUBSET Listed, day : Days \union {NoDay}, bank : Banks \union {NoBank}]
    BY NoConnectionType DEF NoRequest
  <2>2. tried \in Seq(SUBSET Causes) BY <1>2
  <2>3. changes \in 0..MaxChanges /\ clicks \in 0..MaxClicks BY ListingAssumption
  <2>4. host \in Hosts /\ files \in [Hosts -> SUBSET Sources] BY ListingAssumption
  <2>5. logins \in Nat BY <1>2
  <2>6. task \in Tasks BY <1>2, TaskTypes
  <2> QED BY <1>1, <2>1, <2>2, <2>3, <2>4, <2>5, <2>6, NoConnectionType DEF TypeOK
<1>4. (IF Calling /\ task.pc # "tcp" THEN 1 ELSE 0) = 0 /\ (IF Calling THEN 1 ELSE 0) = 0 BY <1>2
<1>5. \A i \in 1..Len(tried) : FALSE BY <1>2
<1>6. logins <= Len(tried) + 0 /\ Len(tried) + 0 <= MaxAttempts BY <1>2, ListingAssumption
<1>7. AttemptsInv BY <1>1, <1>2, <1>4, <1>6 DEF AttemptsInv
<1>8. RetriesAreSafe BY <1>4, <1>5, <1>6 DEF RetriesAreSafe
<1>9. OneServer /\ BankHasAudits /\ RequestInv BY <1>1 DEF OneServer, BankHasAudits, RequestInv
<1>10. CanGoOn BY DEF CanGoOn
<1>11. TaskInv BY <1>1, <1>2 DEF TaskInv
<1>12. ListedInv BY <1>1 DEF ListedInv
<1> HIDE DEF Init
<1> QED BY <1>3, <1>7, <1>8, <1>9, <1>10, <1>11, <1>12 DEF SafeListing, ListingInv

LEMMA ListingGoesOn == SafeListing /\ [Next]_vars => SafeListing'
<1> SUFFICES ASSUME SafeListing, [Next]_vars PROVE SafeListing' OBVIOUS
<1>1. CASE User BY <1>1, OpenKeeps, ChoiceKeeps, ImportKeeps DEF User
<1>2. CASE Server BY <1>2, ServerKeeps
<1>3. CASE Retry BY <1>3, RetryKeeps
<1>4. CASE Thread BY <1>4, ThreadKeeps
<1>5. CASE Loop BY <1>5, FailedKeeps, WakeUpKeeps, SucceededKeeps DEF Loop
<1>6. CASE Reading BY <1>6, ReadingKeeps
<1>7. CASE UNCHANGED vars
  <2> USE DEF vars, server, closure, listingVars
  <2>1. TypeOK' BY <1>7 DEF import, SafeListing, ListingInv, TypeOK
  <2>2. AttemptsInv' /\ RetriesAreSafe' BY <1>7, SameAttempts
  <2>3. RequestInv' /\ OneServer' /\ BankHasAudits' BY <1>7, SameDialogRequest
  <2>4. CanGoOn' BY <1>7 DEF SafeListing, ListingInv, CanGoOn
  <2>5. TaskInv' BY <1>7 DEF SafeListing, ListingInv, TaskInv
  <2>6. ListedInv' BY <1>7 DEF SafeListing, ListingInv, ListedInv
  <2> QED BY <2>1, <2>2, <2>3, <2>4, <2>5, <2>6 DEF SafeListing, ListingInv
<1> QED BY <1>1, <1>2, <1>3, <1>4, <1>5, <1>6, <1>7 DEF Next

(***************************************************************************)
(* For any hosts that answer, files that appear, and clicks: an import     *)
(* reads the files of the one host that was listed, and has audits of its  *)
(* bank; no failure leaves the user without a way on (inspect_remote and   *)
(* import_remote, web_app.py:998-1080).                                    *)
(***************************************************************************)
THEOREM ListingInvariant == Spec => []ListingInv
<1>1. SafeListing => ListingInv BY DEF SafeListing
<1> QED BY <1>1, ListingStarts, ListingGoesOn, PTL DEF Spec

(***************************************************************************)
(* For any number of attempts allowed: only transport failures are tried   *)
(* again, never more often than that, with at most one login in each       *)
(* attempt (remote_logs.py:100, 124).                                      *)
(***************************************************************************)
THEOREM ListingRetriesAreSafe == Spec => []RetriesAreSafe
<1>1. SafeListing => RetriesAreSafe BY DEF SafeListing
<1> QED BY <1>1, ListingStarts, ListingGoesOn, PTL DEF Spec
=============================================================================
