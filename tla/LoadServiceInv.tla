---------------------------- MODULE LoadServiceInv ----------------------------
(***************************************************************************)
(* The inductive invariant behind the safety of LoadService: how the       *)
(* stamps a call holds in each phase - the source when it was asked, the   *)
(* signature, the scan key, the content read so far - are ordered, so that *)
(* what is published under a signature is never older than it.             *)
(***************************************************************************)
EXTENDS LoadService

AtMost(old, new) == \A f \in Files : old[f] <= new[f]

\* Each kind of thread stays in its own phases.
RolesInv ==
    /\ \A c \in Callers : pc[c] \notin {"next", "gate", "try", "pause", "finished"}
    /\ \A w \in Workers : pc[w] \notin {"idle", "enter", "wait", "exportwait", "export", "exit"}

\* A job inside a call has that call's bank at the head of its list.
TodoInv ==
    \A w \in Workers : pc[w] \in {"lookup", "gate", "try", "pause", "publish"} \union Loading
                         => todo[w] # <<>>

SourcesExist == \A f \in Files \ LateFiles : version[f] > 0

GoodResult(entry) ==
    /\ NoOlder(entry.rows, entry.signature)
    /\ entry.rows = Only(entry.rows, SourcesOf(entry.bank))
    /\ AtMost(entry.rows, version)

GoodScan(entry) ==
    /\ AtMost(entry.key, entry.seen)
    /\ Existing(entry.key) = Existing(entry.seen)
    /\ AtMost(entry.seen, version)

GoodResults == {entry \in ReadyEntry : GoodResult(entry)}
GoodScans == {entry \in ScanEntry : GoodScan(entry)}

CachesInv == loadedCache \in Seq(GoodResults) /\ scanCache \in Seq(GoodScans)

\* From the second signature to publication.
Signed(p) == pc[p] \in {"key", "scan", "diagnose", "publish"}

AskedInv(p) ==
    /\ AtMost(asked[p], version)
    /\ asked[p] = Only(asked[p], SourcesOf(bank[p]))
    /\ pc[p] = "lookup" => signature[p] = asked[p]

SignatureInv(p) ==
    Signed(p) =>
        /\ AtMost(asked[p], signature[p])
        /\ AtMost(signature[p], version)
        /\ signature[p] = Only(signature[p], SourcesOf(bank[p]))

ListedInv(p) ==
    Signed(p) \/ pc[p] = "sign" =>
        /\ listed[p] \subseteq SourcesOf(bank[p]) \intersect Existing(version)
        /\ SourcesOf(bank[p]) \ LateFiles \subseteq listed[p]

SeenInv(p) ==
    /\ AtMost(seen[p], version)
    /\ pc[p] \in {"sign", "key"} => seen[p] = Nothing
    /\ pc[p] = "scan" =>
          /\ AtMost(key[p], version)
          /\ Existing(key[p]) = AuditsListed(p)
          /\ Existing(seen[p]) \subseteq AuditsListed(p)
          /\ \A f \in AuditsListed(p) : key[p][f] >= signature[p][f]
          /\ \A f \in Existing(seen[p]) : seen[p][f] >= key[p][f]
    /\ pc[p] = "diagnose" => AuditsListed(p) \subseteq Existing(seen[p])
    /\ pc[p] = "publish" => listed[p] \subseteq Existing(seen[p])
    /\ pc[p] \in {"diagnose", "publish"} =>
          /\ Existing(seen[p]) \subseteq listed[p]
          /\ \A f \in Existing(seen[p]) : seen[p][f] >= signature[p][f]

CallInv(p) == AskedInv(p) /\ SignatureInv(p) /\ ListedInv(p) /\ SeenInv(p)

(***************************************************************************)
(* What every step of loading, exporting, preparing and changing files     *)
(* maintains: the typed state, the lock's owner, the count of requests, and *)
(* the order of the stamps of every call and every cached entry.           *)
(***************************************************************************)
ServiceInv ==
    /\ TypeOK
    /\ ParserExclusive
    /\ PendingMeansRequested
    /\ RolesInv
    /\ TodoInv
    /\ SourcesExist
    /\ CachesInv
    /\ \A p \in Procs : CallInv(p)
=============================================================================
