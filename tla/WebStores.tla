------------------------------ MODULE WebStores ------------------------------
(***************************************************************************)
(* The dictionaries of web_app.py (41-45) that every session shares.  Each *)
(* keeps its entries in the order they came, up to a limit.                *)
(***************************************************************************)
EXTENDS Naturals, SequencesExt

CONSTANTS
    Sessions,       \* browser sessions
    TokenLimit,     \* 128 tokens of previews, and as many of comparisons
    MaxLoads        \* bound: times new logs are loaded (of a session: ComparisonStore)

ASSUME StoresAssumption == TokenLimit \in Nat \ {0} /\ MaxLoads \in Nat

\* Of an ordered dictionary: the newest entries that fit.
Newest(entries, limit) ==
    IF Len(entries) > limit THEN SubSeq(entries, Len(entries) - limit + 1, Len(entries)) ELSE entries
=============================================================================
