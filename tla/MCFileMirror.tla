---------------------------- MODULE MCFileMirror ----------------------------
(***************************************************************************)
(* Small instances of FileMirror: a file of up to three bytes, read byte   *)
(* by byte, one byte compared at each end, two contents.                   *)
(***************************************************************************)
EXTENDS FileMirror
=============================================================================
