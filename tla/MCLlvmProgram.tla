--------------------------- MODULE MCLlvmProgram ---------------------------
(***************************************************************************)
(* A small instance of LlvmProgram.                                        *)
(***************************************************************************)
EXTENDS LlvmProgram, MCPrograms
=============================================================================
