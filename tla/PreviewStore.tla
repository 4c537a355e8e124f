---------------------------- MODULE PreviewStore ----------------------------
(***************************************************************************)
(* The transaction previews of the web interface (web_app.py, 123-231):    *)
(* the links that the list gives to its rows, the tasks that write their   *)
(* logs, the tokens under which a page reads, downloads and saves a log.   *)
(* All of it is module state, shared by every session, with a limit: links *)
(* and tokens leave in the order they came, tasks by least recent use.     *)
(*                                                                         *)
(* A task is looked up under the identity of the loaded logs, id(loaded):  *)
(* the address of an object, which is free again once nothing refers to    *)
(* it.  Loaded logs are numbered in the order they are loaded; "address"   *)
(* tells where each was kept.                                              *)
(***************************************************************************)
EXTENDS FiniteSets, WebStores

CONSTANTS
    Uids,           \* transactions of a list
    Options,        \* option values and output folders
    FirstOptions,   \* the options a session starts with
    Addresses,      \* where loaded logs may be kept
    SourceLimit,    \* 32 links
    TaskLimit,      \* 32 tasks
    MaxLinks,       \* bound: links given
    MaxTasks,       \* bound: tasks
    MaxRunning      \* bound: tasks that run at a time

ASSUME PreviewAssumption ==
    /\ FirstOptions \in Options
    /\ SourceLimit \in Nat \ {0} /\ TaskLimit \in Nat \ {0}
    /\ MaxLinks \in Nat /\ MaxTasks \in Nat /\ MaxRunning \in Nat

VARIABLES
    session,    \* of each session: preview_id, loaded, the options
    links,      \* links given so far
    address,    \* of all loaded logs, id(loaded)
    sources,    \* PREVIEW_SOURCES, the oldest link first
    task,       \* all tasks so far; a task's number is also its token
    kept,       \* PREVIEW_TASKS, least recently used first
    downloads,  \* PREVIEW_DOWNLOADS, the oldest token first
    saves,      \* PREVIEW_SAVES: how often the copy of a token was started
    waiting     \* tasks that a transaction_data request waits for

vars == <<session, links, address, sources, task, kept, downloads, saves, waiting>>

NoLogs == 0
Logs == 1..Len(address)
Source == [link : 1..MaxLinks, logs : Logs, options : Options]
Key == [link : 1..MaxLinks, id : Addresses, uid : Uids, options : Options]
Tasks == [key : Key, logs : Logs, state : {"running", "done", "failed"}]
Shown == [link : 0..MaxLinks, logs : Logs \union {NoLogs}, options : Options]

TypeOK ==
    /\ session \in [Sessions -> Shown]
    /\ links \in 0..MaxLinks
    /\ address \in Seq(Addresses) /\ Len(address) <= MaxLoads
    /\ sources \in Seq(Source) /\ Len(sources) <= SourceLimit
    /\ task \in Seq(Tasks) /\ Len(task) <= MaxTasks
    /\ kept \in Seq(DOMAIN task) /\ Len(kept) <= TaskLimit
    /\ downloads \in Seq(DOMAIN task) /\ Len(downloads) <= TokenLimit
    /\ \A n \in DOMAIN saves : saves[n] \in Nat
    /\ waiting \subseteq DOMAIN task

Init ==
    /\ session = [s \in Sessions |-> [link |-> 0, logs |-> NoLogs, options |-> FirstOptions]]
    /\ links = 0 /\ address = <<>> /\ sources = <<>>
    /\ task = <<>> /\ kept = <<>> /\ downloads = <<>> /\ saves = <<>> /\ waiting = {}

-----------------------------------------------------------------------------
\* PREVIEW_SOURCES[preview_id] = ...: a link that is there keeps its place.
Linked(source) ==
    IF \E i \in DOMAIN sources : sources[i].link = source.link
    THEN [i \in DOMAIN sources |-> IF sources[i].link = source.link THEN source ELSE sources[i]]
    ELSE Newest(Append(sources, source), SourceLimit)

Running == {n \in DOMAIN task : task[n].state = "running"}

\* Logs that something refers to: sessions, links, tasks that run or failed
\* (their frames), and the "save" of a token.
Referenced ==
    ({session[s].logs : s \in Sessions} \ {NoLogs})
    \union {sources[i].logs : i \in DOMAIN sources}
    \union {task[n].logs : n \in Running}
    \union {task[n].logs : n \in {m \in ToSet(kept) : task[m].state = "failed"}}
    \union {task[n].logs : n \in DOMAIN saves}

\* Mutant: the key without id(loaded).
KeyWithoutId(source, uid, ids) ==
    [link |-> source.link, id |-> ids[1], uid |-> uid, options |-> source.options]

KeyOf(source, uid, ids) == [link |-> source.link, id |-> ids[source.logs], uid |-> uid, options |-> source.options]

\* Where a task is kept under a key: a dictionary has one at most.
Places(key) == {i \in DOMAIN kept : task[kept[i]].key = key}
Found(key) == {kept[i] : i \in Places(key)}

\* Mutant: a task that failed is used again.
AnyFound(key) == Found(key)

Usable(key) == {n \in Found(key) : task[n].state # "failed"}

\* The task of a key is used again and moved to the end ...
Reuse(key) ==
    \E i \in Places(key) :
        /\ kept[i] \in Usable(key)
        /\ kept' = Append(RemoveAt(kept, i), kept[i])

\* ... or a new one is made, and one that failed is taken out for it.
MakeTask(key, logs) ==
    LET made == Len(task) + 1 IN
    /\ Len(task) < MaxTasks /\ Cardinality(Running) < MaxRunning
    /\ task' = Append(task, [key |-> key, logs |-> logs, state |-> "running"])
    /\ IF Places(key) = {} THEN kept' = Newest(Append(kept, made), TaskLimit)
       ELSE \E i \in Places(key) : kept' = Newest(Append(RemoveAt(kept, i), made), TaskLimit)

\* preview_task.
PreviewTask(source, uid) ==
    LET key == KeyOf(source, uid, address) IN
    IF Usable(key) # {} THEN Reuse(key) /\ UNCHANGED task ELSE MakeTask(key, source.logs)

\* An answer starts the copy into the output folder, if none was started.
CopyStarted(n) ==
    IF n \in DOMAIN saves /\ task[n].state = "done" /\ saves[n] = 0 THEN [saves EXCEPT ![n] = 1] ELSE saves

-----------------------------------------------------------------------------
(* A session loads logs (load_source): new ones, kept where nothing else   *)
(* is, or ones that are loaded already; a live update keeps its link.      *)

LoadLogs(s, logs, live) ==
    LET link == IF live THEN session[s].link ELSE links + 1 IN
    /\ links' = IF live THEN links ELSE links + 1
    /\ session' = [session EXCEPT ![s].link = link, ![s].logs = logs]
    /\ sources' = Linked([link |-> link, logs |-> logs, options |-> session[s].options])
    /\ UNCHANGED <<task, kept, downloads, saves, waiting>>

Load(s, live) ==
    /\ IF live THEN session[s].logs # NoLogs ELSE links < MaxLinks
    /\ \/ /\ Len(address) < MaxLoads
          /\ \E a \in Addresses \ {address[l] : l \in Referenced} : address' = Append(address, a)
          /\ LoadLogs(s, Len(address) + 1, live)
       \/ /\ \E l \in Referenced \ {session[s].logs} : LoadLogs(s, l, live)
          /\ UNCHANGED address

\* update_preview_options, with "uid" the one selected row, if there is one.
ChangeOptions(s, options, selected) ==
    LET source == [link |-> session[s].link, logs |-> session[s].logs, options |-> options] IN
    /\ session' = [session EXCEPT ![s].options = options]
    /\ IF \E i \in DOMAIN sources : sources[i].link = source.link
       THEN /\ sources' = Linked(source)
            /\ IF selected = {} THEN UNCHANGED <<task, kept>> ELSE \A uid \in selected : PreviewTask(source, uid)
       ELSE UNCHANGED <<sources, task, kept>>
    /\ UNCHANGED <<links, address, downloads, saves, waiting>>

\* warm_selection: a row is selected while no operation runs.
SelectRow(s, uid) ==
    /\ \E i \in DOMAIN sources : sources[i].link = session[s].link /\ PreviewTask(sources[i], uid)
    /\ UNCHANGED <<session, links, address, sources, downloads, saves, waiting>>

\* transaction_data of a link: a task that is done is answered at once.
Open(source, uid) ==
    LET found == Usable(KeyOf(source, uid, address))
        finished == {n \in found : task[n].state = "done"} IN
    /\ PreviewTask(source, uid)
    /\ IF finished # {}
       THEN /\ \A n \in finished : saves' = CopyStarted(n)
            /\ UNCHANGED waiting
       ELSE /\ waiting' = waiting \union (IF found = {} THEN {Len(task) + 1} ELSE found)
            /\ UNCHANGED saves
    /\ UNCHANGED <<session, links, address, sources, downloads>>

-----------------------------------------------------------------------------
\* Mutant: a token that leaves keeps its copy.
NothingExpires(tokens, copies) == copies

\* The tokens that are left, and the copies with them.
Expired(tokens, copies) == [n \in ToSet(tokens) |-> copies[n]]

\* generate: the log is written and gets a token.
Generated(n) ==
    /\ task[n].state = "running"
    /\ task' = [task EXCEPT ![n].state = "done"]
    /\ downloads' = Newest(Append(downloads, n), TokenLimit)
    /\ saves' = Expired(downloads', [m \in DOMAIN saves \union {n} |-> IF m = n THEN 0 ELSE saves[m]])
    /\ UNCHANGED <<session, links, address, sources, kept, waiting>>

Failed(n) ==
    /\ task[n].state = "running"
    /\ task' = [task EXCEPT ![n].state = "failed"]
    /\ UNCHANGED <<session, links, address, sources, kept, downloads, saves, waiting>>

\* A request that waited is answered.
Answer(n) ==
    /\ n \in waiting
    /\ task[n].state # "running"
    /\ waiting' = waiting \ {n}
    /\ saves' = CopyStarted(n)
    /\ UNCHANGED <<session, links, address, sources, task, kept, downloads>>

Next ==
    \/ \E s \in Sessions, live \in BOOLEAN : Load(s, live)
    \/ \E s \in Sessions, options \in Options, selected \in {{}} \union {{uid} : uid \in Uids} : ChangeOptions(s, options, selected)
    \/ \E s \in Sessions, uid \in Uids : SelectRow(s, uid)
    \/ \E i \in DOMAIN sources, uid \in Uids : Open(sources[i], uid)
    \/ \E n \in DOMAIN task : Generated(n) \/ Failed(n) \/ Answer(n)

Spec == Init /\ [][Next]_vars
-----------------------------------------------------------------------------
(***************************************************************************)
(* What a row of the list links to is what the list shows: a live update   *)
(* and a change of options reach the link, as long as it is kept (656,     *)
(* 750-752), whatever other sessions load.                                 *)
(***************************************************************************)
LinkIsLoaded ==
    \A s \in Sessions, i \in DOMAIN sources :
        sources[i].link = session[s].link =>
            sources[i].logs = session[s].logs /\ sources[i].options = session[s].options

(***************************************************************************)
(* A token can be saved exactly as long as it can be read: the two stores  *)
(* lose their entries together (171-173).                                  *)
(***************************************************************************)
SavesWithDownloads == DOMAIN saves = ToSet(downloads)

\* No two sessions have one link, and one that shows logs has a link.
LinksAreOwn ==
    /\ \A s, t \in Sessions : s # t /\ session[s].link = session[t].link => session[s].link = 0
    /\ \A s \in Sessions : session[s].link <= links /\ (session[s].logs # NoLogs <=> session[s].link # 0)
    /\ \A i \in DOMAIN sources : sources[i].link <= links

\* A key is kept once, and says which logs its task is of.
OneTaskPerKey ==
    /\ \A i, j \in DOMAIN kept : task[kept[i]].key = task[kept[j]].key => i = j
    /\ \A n \in DOMAIN task : task[n].key.id = address[task[n].logs]

(***************************************************************************)
(* The tables of links, tasks, tokens and copies stay within their limits, *)
(* and agree, although each is evicted by itself (144-173).                *)
(***************************************************************************)
PreviewInv == TypeOK /\ LinkIsLoaded /\ SavesWithDownloads /\ LinksAreOwn /\ OneTaskPerKey

(***************************************************************************)
(* However many pages open a log, and in whatever order they are answered, *)
(* its copy is written to the output folder once (195, 207).               *)
(***************************************************************************)
CopiedOnce == \A n \in DOMAIN saves : saves[n] <= 1

(***************************************************************************)
(* A request never joins a task that has failed already: a log that could  *)
(* not be written is tried again when it is opened again (150-151).        *)
(***************************************************************************)
FailureTriedAgain == [][\A n \in waiting' \ waiting : n \in DOMAIN task => task[n].state # "failed"]_vars

\* The log that opening a link would find prepared is of the logs that the
\* link is for now.
Prepared(source, uid) == Usable(KeyOf(source, uid, address))
PreparedIsCurrent ==
    \A i \in DOMAIN sources, uid \in Uids :
        \A n \in Prepared(sources[i], uid) : task[n].logs = sources[i].logs

(***************************************************************************)
(* "... prepared ahead of Open and reused while their source and options   *)
(* stay unchanged" (README.md:199): an opened log is of the logs its link  *)
(* is for now, as long as no address is used twice ...                     *)
(***************************************************************************)
ReusedWhileUnchanged == IsInjective(address) => PreparedIsCurrent

(***************************************************************************)
(* What is prepared is shared rather than made again, by whichever session *)
(* or page asks first, and shared only by those that ask for the same      *)
(* (144-207).                                                              *)
(***************************************************************************)
PreviewsReused == CopiedOnce /\ ReusedWhileUnchanged

=============================================================================
