--------------------------- MODULE MCFaultRegistry ---------------------------
(***************************************************************************)
(* FaultRegistry with one target beside `global', and latencies on both    *)
(* sides of HangTime.                                                      *)
(***************************************************************************)
EXTENDS FaultRegistry, TLC

OneTarget == {"payments"}
=============================================================================
