--------------------------- MODULE MCPreviewStore ---------------------------
(***************************************************************************)
(* A small instance of PreviewStore: two sessions, one transaction with    *)
(* two sets of options, one task and one token kept.                       *)
(***************************************************************************)
EXTENDS PreviewStore, TLC

CONSTANTS s1, s2, u1, text, hex, a, b

MCSessions == {s1, s2}
MCOneUid == {u1}
MCOptions == {text, hex}
MCTwoAddresses == {a, b}
Symmetry == Permutations(Sessions) \union Permutations(Uids) \union Permutations(Addresses)
=============================================================================
