---------------------------- MODULE BlockIndexInv ----------------------------
(***************************************************************************)
(* Why a stale index never costs an export a message that a row shows: an  *)
(* entry that knows less than some finished scan is filed under a stamp    *)
(* the audits no longer have, or stands behind an entry that knows more.   *)
(***************************************************************************)
EXTENDS BlockIndex

\* Extents that have been read are extents the audits have.
PastInv ==
    /\ \A e \in locationCache : AtMost(e.extent, e.key) /\ AtMost(e.key, Stamp)
    /\ \A t \in textCache : AtMost(t.extent, t.key) /\ AtMost(t.key, Stamp)
    /\ \A s \in scans : AtMost(s, Stamp)
    /\ AtMost(seen, Stamp)

\* At most one entry per stamp.
OneEntryInv ==
    /\ \A e1, e2 \in locationCache : e1.key = e2.key => e1 = e2
    /\ \A t1, t2 \in textCache : t1.key = t2.key => t1 = t2

\* What the caches answer now is at least extent.
AnswersCover(extent) ==
    /\ \A e \in locationCache : e.key = Stamp => AtMost(extent, e.extent)
    /\ Located = {} => \A t \in textCache : t.key = Stamp => AtMost(extent, t.extent)

\* Audits read since the scan or export began are read beyond every scan
\* that was finished before.
ReadInv(extent) == \A f \in Audits \ unread : extent[f] <= seen[f]

ParserInv ==
    /\ doing \in {"scan", "summarise", "copy"} => \A s \in scans : ReadInv(s)
    /\ doing \in {"summary", "summarise", "write", "copy", "written"} => shown \in scans /\ wanted \subseteq UidsIn(shown) /\ wanted # {}
    /\ doing \in {"summarise", "copy"} => Located = {}
    /\ doing \in {"write", "copy", "written"} => AtMost(summary, Stamp) /\ AtMost(shown, summary)
    /\ doing = "write" => AnswersCover(summary)
    /\ doing = "copy" => ReadInv(summary)

LogInv == doing = "written" => AtMost(shown, seen) /\ AtMost(summary, seen)

(***************************************************************************)
(* What every scan, export and append maintains.                           *)
(***************************************************************************)
IndexInv ==
    /\ IndexTypeOK
    /\ PastInv
    /\ OneEntryInv
    /\ \A s \in scans : AnswersCover(s)
    /\ ParserInv
    /\ LogInv
=============================================================================
