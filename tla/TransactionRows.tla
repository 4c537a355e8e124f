---------------------------- MODULE TransactionRows ----------------------------
(***************************************************************************)
(* The row of a transaction, made of its audit blocks in the order they    *)
(* are read (Transaction.add and the select_... functions of log_core.py). *)
(* A block has its process ("OPN", "PTMS" or an internal one) and the bank *)
(* of its audit, its flow, whether its flow or its message type names a    *)
(* request anywhere, its time (None if it cannot be read), MTIs and        *)
(* network management codes, and the acquirers it names.                   *)
(***************************************************************************)
EXTENDS Integers, Sequences, SequencesExt, FiniteSetsExt

CONSTANTS
    TangoMtis,      \* TANGO_TRANSACTION_MTI_NAMES
    OtherMtis,      \* MTI_NAMES
    PreferredMtis,  \* those of them that come before the others
    NetworkMtis,    \* 0800, 0810, 0820 and 0830
    SharedProcess,  \* banks that share an OPN process (AKTIF/BKT, AKTIF/BKTKOS)
    NoTime

\* The code of a logon, an echo and a cutoff.
LogonCode == 1
NetworkCodes == [code \in {LogonCode, 301, 201} |->
    CASE code = LogonCode -> "Logon" [] code = 301 -> "Echo_Test" [] OTHER -> "Cutoff_Initiation"]

NoBlocksYet ==
    [first |-> NoTime, requested |-> NoTime, flows |-> {}, mtis |-> <<>>, requestMtis |-> <<>>,
     codes |-> {}, processes |-> {}, acquirers |-> {}]

\* Mutant: the first time that is read.
EarlierRead(old, new) == IF old = NoTime THEN new ELSE old

\* The earlier of two times, one of which may be missing.
Earlier(old, new) == IF old = NoTime THEN new ELSE IF new = NoTime \/ old < new THEN old ELSE new

\* A position is a time (datetime.max without one) and the place in the audits.
Before(p, q) ==
    IF p.time = q.time THEN p.index < q.index
    ELSE q.time = NoTime \/ (p.time # NoTime /\ p.time < q.time)

\* operation_flows: where each phase begins.
PhaseFound(flows, flow) ==
    IF \E f \in flows : f.phase = flow.phase /\ ~Before(flow, f) THEN flows
    ELSE {f \in flows : f.phase # flow.phase} \union {flow}

\* Transaction.add of the block at a place.
Added(t, read) == LET block == read.block IN
    [first |-> Earlier(t.first, block.time),
     requested |-> IF block.request THEN Earlier(t.requested, block.time) ELSE t.requested,
     flows |-> IF block.process \in {"OPN", "PTMS"} /\ block.flow # "other"
               THEN PhaseFound(t.flows, [phase |-> <<block.process, block.flow>>, time |-> block.time, index |-> read.index])
               ELSE t.flows,
     mtis |-> t.mtis \o block.mtis,
     requestMtis |-> IF block.request THEN t.requestMtis \o block.mtis ELSE t.requestMtis,
     codes |-> IF block.process = "OPN" /\ ToSet(block.mtis) \intersect NetworkMtis # {} THEN t.codes \union block.codes ELSE t.codes,
     processes |-> t.processes \union {<<block.process, block.bank>>},
     acquirers |-> t.acquirers \union block.acquirers]

RowOf(blocks) ==
    FoldLeft(Added, NoBlocksYet, [i \in DOMAIN blocks |-> [block |-> blocks[i], index |-> i]])

\* transaction_matches_bank; banks of one process are told apart by acquirer,
\* and a logon that names none belongs to each.
MatchesBank(t, bank) ==
    \/ bank \in t.acquirers
    \/ /\ \E p \in t.processes : p[1] = "OPN" /\ (p[2] = bank \/ {p[2], bank} \subseteq SharedProcess)
       /\ bank \in SharedProcess =>
             t.acquirers = {} /\ LogonCode \in t.codes /\ ToSet(t.mtis) \intersect {800, 810} # {}

\* select_iso_mti: the first of some kind, requests first.
InOrder(t) == t.requestMtis \o t.mtis
Having(t, mtis) == {i \in DOMAIN InOrder(t) : InOrder(t)[i] \in mtis}
FirstOf(t, mtis) == InOrder(t)[Min(Having(t, mtis))]

\* select_transaction_operation, without the descriptions of messages.
Operation(t) ==
    IF \E code \in DOMAIN NetworkCodes : t.codes = {code}
    THEN NetworkCodes[CHOOSE code \in DOMAIN NetworkCodes : t.codes = {code}]
    ELSE IF Having(t, TangoMtis) # {} THEN FirstOf(t, TangoMtis)
    ELSE IF Having(t, PreferredMtis) # {} THEN FirstOf(t, PreferredMtis)
    ELSE IF Having(t, OtherMtis) # {} THEN FirstOf(t, OtherMtis) ELSE "Unknown"

\* select_transaction_type: the phases in the order they began.
Phases(t) ==
    [k \in 1..Cardinality(t.flows) |->
        (CHOOSE f \in t.flows : Cardinality({g \in t.flows : Before(g, f)}) = k - 1).phase]
=============================================================================
