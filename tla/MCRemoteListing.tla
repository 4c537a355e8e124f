---------------------------- MODULE MCRemoteListing ----------------------------
(***************************************************************************)
(* A small instance of RemoteListing: two hosts with other files on two    *)
(* days; two banks with audits of their own, and the shared audits.        *)
(***************************************************************************)
EXTENDS RemoteListing

CONSTANTS alpha, eurobank, opnA, opnE, ptms

Audit(day, code) == [kind |-> "audit", day |-> day, code |-> code]
Log(day) == [kind |-> "log", day |-> day, code |-> ptms]

MCBankOf == [c \in {opnA, opnE} |-> IF c = opnA THEN {alpha} ELSE {eurobank}]
MCSources == {Audit(1, opnA), Audit(2, opnA), Audit(2, opnE), Audit(2, ptms), Log(2)}
MCSourcesAt == <<{Audit(1, opnA), Audit(2, opnA), Audit(2, opnE)}, {Audit(2, ptms), Log(2)}>>
=============================================================================
