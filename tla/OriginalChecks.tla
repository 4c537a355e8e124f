---------------------------- MODULE OriginalChecks ----------------------------
(***************************************************************************)
(* How reversals and voids are linked to their originals, and transactions *)
(* to others with the same RRN (diagnostic_common.py, 58-134, and          *)
(* transaction_checks.py, 65-129 and 139-163).  ts is the transactions in  *)
(* the order of the audits.                                                *)
(*                                                                         *)
(* A message has its fields as a function, None where a field is absent.   *)
(* A field that is compared by its number may be written with leading      *)
(* zeros: such a text is its number plus Padded.  A transaction is exempt  *)
(* when it is a reversal or void itself; network says that it has ISO      *)
(* messages (an original: or an OPN process or ISO flow).                  *)
(***************************************************************************)
EXTENDS Integers, Sequences, SequencesExt

CONSTANT NbgProcesses    \* processes named OPNWAY4N...

None == 0
Padded == 100
\* 000, the code of an approval, is Padded too.
Numbers == {"stan", "original_stan", "sequence", "original_sequence", "currency"}

Normalized(key, value) == IF key \in Numbers THEN value % Padded ELSE value

\* Both have the field, and it differs.
Different(v, w, key) ==
    v[key] # None /\ w[key] # None /\ Normalized(key, v[key]) # Normalized(key, w[key])

IsRequest(m) == m.phase = "request"
Requests(t) == {m \in ToSet(t.messages) : IsRequest(m)}

\* A request of a transaction that is no reversal or void, and where it is.
Original(ts, i, j) ==
    [at |-> <<i, j>>, uid |-> ts[i].uid, process |-> ts[i].messages[j].process, v |-> ts[i].messages[j].v]
Originals(ts) ==
    UNION {{Original(ts, i, j) : j \in {k \in DOMAIN ts[i].messages : IsRequest(ts[i].messages[k])}} :
              i \in {k \in DOMAIN ts : ~ts[k].exempt}}

\* The order in which they were read.
Sooner(o, p) == o.at[1] < p.at[1] \/ (o.at[1] = p.at[1] /\ o.at[2] < p.at[2])
First(candidates) == CHOOSE o \in candidates : \A p \in candidates \ {o} : Sooner(o, p)

\* The reference by which a request names its original: a field of the request
\* and the field of the original it is looked up by.
Reference(v, useRrn) ==
    CASE v["original_stan"] # None -> <<"original_stan", "stan">>
      [] v["original_stan"] = None /\ v["original_sequence"] # None /\ v["tid"] # None ->
             <<"original_sequence", "sequence">>
      [] OTHER ->
             IF useRrn /\ v["original_rrn"] # None THEN <<"original_rrn", "rrn">>
             ELSE IF useRrn /\ v["rrn"] # None THEN <<"rrn", "rrn">> ELSE <<>>

Refers(m, o, reference) ==
    LET key == reference[2] IN
    /\ o.process = m.process
    /\ o.v[key] # None /\ Normalized(key, o.v[key]) = Normalized(key, m.v[reference[1]])
    /\ key = "sequence" => o.v["tid"] = m.v["tid"]

\* DE90's time tells reused numbers apart where the original has a time.
InTime(m, o) == m.v["original_time"] # None => o.v["transmission_time"] \in {None, m.v["original_time"]}

Candidates(ts, uid, m, useRrn) ==
    {o \in Originals(ts) : Refers(m, o, Reference(m.v, useRrn)) /\ o.uid # uid /\ InTime(m, o)}

\* An NBG process refers to the 0100 of an authorization as 0200.
NbgMapping(m, o) ==
    m.process \in NbgProcesses /\ m.v["mti"] = 420 /\ m.v["original_mti"] = 200 /\ o.v["mti"] = 100

MtiDiffers(m, o) == m.v["original_mti"] # None /\ o.v["mti"] # None /\ m.v["original_mti"] # o.v["mti"]
RrnDiffers(m, o) == m.v["original_rrn"] # None /\ o.v["rrn"] # None /\ m.v["original_rrn"] # o.v["rrn"]

\* Mutant: the last of several candidates is taken for the original.
FindingsOfLast(ts, uid, m, useRrn) ==
    IF Reference(m.v, useRrn) = <<>> THEN {"no reference"}
    ELSE LET candidates == Candidates(ts, uid, m, useRrn) IN
         IF candidates = {} THEN {"not found"}
         ELSE LET last == CHOOSE o \in candidates : \A p \in candidates \ {o} : Sooner(p, o) IN
              IF \E key \in {"tid", "mid", "currency"} : Different(m.v, last.v, key) THEN {"mismatch"} ELSE {}

\* What is found of one request of a reversal or void.
FindingsOf(ts, uid, m, useRrn) ==
    IF Reference(m.v, useRrn) = <<>> THEN {"no reference"}
    ELSE LET candidates == Candidates(ts, uid, m, useRrn)
             unique == {<<c.uid, c.v>> : c \in candidates}
             o == First(candidates)
             mismatch ==
                 \/ \E key \in {"tid", "mid", "currency"} : Different(m.v, o.v, key)
                 \/ MtiDiffers(m, o) /\ ~NbgMapping(m, o)
                 \/ useRrn /\ RrnDiffers(m, o)
         IN  CASE unique = {} -> {"not found"}
               [] \E a, b \in unique : a # b -> {"ambiguous"}
               [] OTHER -> (IF mismatch THEN {"mismatch"} ELSE {})
                           \union (IF MtiDiffers(m, o) /\ NbgMapping(m, o) THEN {"NBG mapping"} ELSE {})

\* check_original_transactions for one reversal or void.
OriginalProblems(ts, t, useRrn) ==
    UNION {FindingsOf(ts, t.uid, m, useRrn) : m \in Requests(t)}

Errors == {"mismatch"}

-----------------------------------------------------------------------------
\* transactions_with_shared_rrns.

\* iso_rrn_phases: the RRNs of a transaction's ISO messages.
RrnsOf(t) == {m.v["rrn"] : m \in ToSet(t.messages)} \ {None}

\* Mutant: only the later one of two is marked.
ShareLater(found, t) ==
    IF t.exempt THEN found
    ELSE LET known == RrnsOf(t) \intersect DOMAIN found.owners IN
         [owners |-> [r \in DOMAIN found.owners \union RrnsOf(t) |-> IF r \in DOMAIN found.owners THEN found.owners[r] ELSE t.uid],
          shared |-> found.shared \union {t.uid : r \in {k \in known : found.owners[k] # t.uid}}]

\* The first transaction with an RRN owns it; both are marked when another
\* one has it.
Share(found, t) ==
    IF t.exempt THEN found
    ELSE LET known == RrnsOf(t) \intersect DOMAIN found.owners IN
         [owners |-> [r \in DOMAIN found.owners \union RrnsOf(t) |-> IF r \in DOMAIN found.owners THEN found.owners[r] ELSE t.uid],
          shared |-> found.shared \union UNION {{found.owners[r], t.uid} : r \in {k \in known : found.owners[k] # t.uid}}]

NoneShared == [owners |-> [r \in {} |-> 0], shared |-> {}]
SharedRrns(ts) == FoldLeft(Share, NoneShared, ts).shared

-----------------------------------------------------------------------------
\* successful_local_reversal_uids, of SPDH messages.

\* Each process that has messages has a request and an approved response.
Approved(t) ==
    LET ms == ToSet(t.messages) IN
    /\ ms # {}
    /\ \A p \in {m.process : m \in ms} : {"request", "response"} \subseteq {m.phase : m \in {n \in ms : n.process = p}}
    /\ \A m \in ms : m.phase = "response" => m.v["rc"] = Padded

\* Transactions whose request has the number this request refers to.
Matches(ts, m) == {o.uid : o \in {c \in Originals(ts) : Refers(m, c, Reference(m.v, FALSE))}}

\* By the times of the requests, else by the places in the audits.
Precedes(o, t) == IF o.time # None /\ t.time # None THEN o.time < t.time ELSE o.first < t.first

SuccessfulReversals(ts) ==
    {t.uid : t \in {r \in ToSet(ts) :
        /\ r.reversal /\ ~r.network
        /\ OriginalProblems(ts, r, FALSE) = {}
        /\ Approved(r)
        /\ LET matched == UNION {Matches(ts, m) : m \in Requests(r)} IN
           /\ \A m \in Requests(r) :
                  Reference(m.v, FALSE) # <<>> /\ \E uid \in matched : Matches(ts, m) = {uid}
           /\ \E o \in ToSet(ts) : matched = {o.uid} /\ ~o.network /\ Precedes(o, r)}}
=============================================================================
