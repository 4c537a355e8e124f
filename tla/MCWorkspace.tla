----------------------------- MODULE MCWorkspace -----------------------------
(***************************************************************************)
(* Small instances of Workspace with two banks.                            *)
(***************************************************************************)
EXTENDS Workspace

CONSTANTS cosmos, bkm

MCBanks == {cosmos, bkm}
MCNone == {}
MCBkm == {bkm}
MCFirstDay == {1}
MCBothDays == {1, 2}
=============================================================================
