---------------------------- MODULE MCLogTailer ----------------------------
(***************************************************************************)
(* Every file of up to MaxBytes bytes and every way of writing it: enough  *)
(* for a history longer than TailLines, a line split between the two       *)
(* readers and lines written in the gap between them.                      *)
(***************************************************************************)
EXTENDS LogTailer

=============================================================================
