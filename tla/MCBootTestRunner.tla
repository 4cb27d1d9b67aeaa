-------------------------- MODULE MCBootTestRunner --------------------------
(***************************************************************************)
(* Model values for BootTestRunner: two architectures, and an emulator   *)
(* that prints either a success line or a failure line.                  *)
(***************************************************************************)
EXTENDS BootTestRunner

CONSTANTS arm, x86

MCArchOrder == <<arm, x86>>

MCOutputs == { <<"s", "U", NL>>, <<"F", "a", NL>> }
=============================================================================
