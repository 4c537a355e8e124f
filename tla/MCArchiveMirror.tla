--------------------------- MODULE MCArchiveMirror ---------------------------
(***************************************************************************)
(* An archive of two members that changes twice.                           *)
(***************************************************************************)
EXTENDS ArchiveMirror
=============================================================================
