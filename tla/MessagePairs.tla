----------------------------- MODULE MessagePairs -----------------------------
(***************************************************************************)
(* How the responses of a transaction are paired with its requests and     *)
(* what is found of the pairs (check_iso_messages, iso_checks.py, 210-266, *)
(* and check_spdh_messages, spdh_checks.py, 78-132).                       *)
(*                                                                         *)
(* A message has its fields as a function, None where one is absent, a     *)
(* number with leading zeros as that number plus Padded (OriginalChecks);  *)
(* its protocol is ISO of an OPN process and SPDH of a PTMS process;       *)
(* oneway is is_one_way_echo or is_inbound_logon.  EMV findings, malformed *)
(* fields and missing response codes are found of a message by itself and  *)
(* left out.                                                               *)
(***************************************************************************)
EXTENDS Integers, Sequences, SequencesExt, FiniteSetsExt

None == 0
Padded == 100
Numbers == {"stan", "currency", "transmission", "sequence", "transaction_code", "amount"}
Normalized(key, value) == IF key \in Numbers THEN value % Padded ELSE value

Both(m, n, key) == m.v[key] # None /\ n.v[key] # None
Different(m, n, key) == Both(m, n, key) /\ Normalized(key, m.v[key]) # Normalized(key, n.v[key])
Agree(m, n, key) == Both(m, n, key) /\ ~Different(m, n, key)

\* Where the requests of a process are among the messages; its responses.
Requests(ms, process) == {i \in DOMAIN ms : ms[i].process = process /\ ms[i].phase = "request"}
Responses(ms, process) == {m \in ToSet(ms) : m.process = process /\ m.phase = "response"}

\* Of several candidates those that have the response's number, if any has.
Narrow(ms, candidates, response, key) ==
    LET matched == {i \in candidates : Agree(ms[i], response, key)}
    IN  IF matched = {} THEN candidates ELSE matched

\* Mutant: candidates are counted.
AmbiguousByCount(ms, candidates) == Cardinality(candidates) > 1

\* Candidates with the same fields, as they are written, are one.
Ambiguous(ms, candidates) == \E i, j \in candidates : ms[i].v # ms[j].v

\* The one that was read first.
First(ms, candidates) == ms[Min(candidates)]

-----------------------------------------------------------------------------
\* ISO.

ResponseMti ==
    [n \in {100, 120, 121, 200, 220, 221, 400, 420, 421, 500, 520, 521, 800, 820} |-> (n \div 10) * 10 + 10]
Replies(m, response) == m.v["mti"] \in DOMAIN ResponseMti /\ ResponseMti[m.v["mti"]] = response.v["mti"]

OneWay(m) == m.oneway

RepliedTo(ms, requests, response) == {i \in requests : Replies(ms[i], response)}

\* Mutant: the first request with the response's MTI is taken.
IsoFirst(ms, requests, response) ==
    LET byMti == RepliedTo(ms, requests, response)
    IN  IF byMti = {} THEN {} ELSE {Min(byMti)}

IsoCandidates(ms, requests, response) ==
    LET byMti == RepliedTo(ms, requests, response)
        candidates == IF byMti # {} THEN byMti ELSE IF Cardinality(requests) = 1 THEN requests ELSE {}
    IN  IF Cardinality(candidates) > 1 /\ response.v["stan"] # None
        THEN Narrow(ms, candidates, response, "stan") ELSE candidates

IsoFindings(ms, requests, response) ==
    LET mti == response.v["mti"]
        candidates == IsoCandidates(ms, requests, response)
    IN  {f \in {"unexpected MTI"} :
            /\ mti \in DOMAIN ResponseMti \union {ResponseMti[n] : n \in DOMAIN ResponseMti}
            /\ \E i \in requests : ms[i].v["mti"] \in DOMAIN ResponseMti
            /\ RepliedTo(ms, requests, response) = {}}
        \union
        (CASE candidates = {} -> {}
           [] Ambiguous(ms, candidates) -> {"ambiguous"}
           [] OTHER ->
                LET request == First(ms, candidates) IN
                {f \in {"mismatch"} : \E key \in {"stan", "currency", "tid", "mid"} : Different(request, response, key)}
                \union {f \in {"amount"} : Different(request, response, "amount")})

IsoIdentity(m) == <<m.v["mti"], Normalized("stan", m.v["stan"])>>
IsoIdentified(m) == m.v["mti"] # None /\ m.v["stan"] # None

-----------------------------------------------------------------------------
\* SPDH.

SpdhCandidates(ms, requests, response) ==
    IF Cardinality(requests) > 1
    THEN Narrow(ms, Narrow(ms, requests, response, "transmission"), response, "sequence") ELSE requests

SpdhFindings(ms, requests, response) ==
    LET candidates == SpdhCandidates(ms, requests, response)
    IN  CASE candidates = {} -> {}
          [] Ambiguous(ms, candidates) -> {"ambiguous"}
          [] OTHER ->
                LET request == First(ms, candidates) IN
                {f \in {"mismatch"} :
                    \E key \in {"transmission", "tid", "mid", "currency", "stan", "transaction_code"} :
                        Different(request, response, key)}
                \union {f \in {"resynchronization"} : Different(request, response, "sequence")}
                \union {f \in {"amount"} : Different(request, response, "amount")}

\* Only one of the two numbers identifies a response.
SpdhNumber(m) == IF m.v["transmission"] # None THEN m.v["transmission"] ELSE m.v["sequence"]
SpdhIdentity(m) == <<m.v["tid"], m.v["transaction_code"], Normalized("transmission", SpdhNumber(m))>>
SpdhIdentified(m) == SpdhNumber(m) # None

-----------------------------------------------------------------------------
Findings(ms, requests, response) ==
    IF response.protocol = "ISO" THEN IsoFindings(ms, requests, response) ELSE SpdhFindings(ms, requests, response)
Identity(m) == IF m.protocol = "ISO" THEN IsoIdentity(m) ELSE SpdhIdentity(m)
Identified(m) == m.v["rc"] # None /\ (IF m.protocol = "ISO" THEN IsoIdentified(m) ELSE SpdhIdentified(m))

Conflict(responses) ==
    \E m, n \in {r \in responses : Identified(r)} : Identity(m) = Identity(n) /\ m.v["rc"] # n.v["rc"]

\* What is found of the messages of one process.
GroupProblems(ms, process) ==
    LET requests == Requests(ms, process)
        responses == Responses(ms, process)
    IN  (UNION {Findings(ms, requests, r) : r \in responses})
        \union {f \in {"missing response"} : responses = {} /\ \E i \in requests : ~OneWay(ms[i])}
        \union {f \in {"no request"} : responses # {} /\ requests = {}}
        \union {f \in {"conflict"} : Conflict(responses)}

\* What is found of the messages of a transaction, in the order they were read.
Problems(ms) == UNION {GroupProblems(ms, p) : p \in {m.process : m \in ToSet(ms)}}

-----------------------------------------------------------------------------
\* A request that agrees with the response on all that is compared, and has
\* its numbers.
Compared == {"stan", "currency", "tid", "mid", "transmission", "sequence", "transaction_code"}
Fits(m, response) ==
    /\ m.process = response.process /\ m.phase = "request"
    /\ \A key \in Compared : ~Different(m, response, key)
    /\ \A key \in {"stan", "transmission", "sequence"} : response.v[key] # None => m.v[key] # None
    /\ response.protocol = "ISO" => Replies(m, response)
=============================================================================
