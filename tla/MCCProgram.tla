----------------------------- MODULE MCCProgram -----------------------------
(***************************************************************************)
(* A small instance of CProgram.                                           *)
(***************************************************************************)
EXTENDS CProgram, MCPrograms
=============================================================================
