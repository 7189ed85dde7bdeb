------------------------------ MODULE Nothing -------------------------------
(***************************************************************************)
(* The value that stands for an absent row, file or answer in the modules  *)
(* that Master puts together.                                              *)
(***************************************************************************)
CONSTANT None
=============================================================================
