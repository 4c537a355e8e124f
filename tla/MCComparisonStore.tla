-------------------------- MODULE MCComparisonStore --------------------------
(***************************************************************************)
(* A small instance of ComparisonStore: two sessions that select the same  *)
(* two rows and keep fewer tokens than they make.                          *)
(***************************************************************************)
EXTENDS ComparisonStore

CONSTANTS s1, s2, u1, u2

MCSessions == {s1, s2}
MCPair == {{u1, u2}}
=============================================================================
