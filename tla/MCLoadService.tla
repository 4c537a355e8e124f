---------------------------- MODULE MCLoadService ----------------------------
(***************************************************************************)
(* Small instances of LoadService: two banks that share the PTMS audit, as *)
(* the real ones do, one of them with an OPN audit of its own, and one     *)
(* Tango log.                                                              *)
(***************************************************************************)
EXTENDS LoadServiceInv

CONSTANTS cosmos, bkm, ptms, opn, tango

MCBanks == {cosmos, bkm}
MCAuditsOf == [b \in Banks |-> IF b = cosmos THEN {ptms} ELSE {ptms, opn} \intersect Files]
MCOneBank == <<bkm>>
MCTwoBanks == <<cosmos, bkm>>
MCRowCount == [b \in Banks |-> IF b = cosmos THEN 1 ELSE 2]
=============================================================================
