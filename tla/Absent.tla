------------------------------- MODULE Absent -------------------------------
(***************************************************************************)
(* The value that stands for null and undefined in the web client.         *)
(***************************************************************************)
CONSTANT None
=============================================================================
