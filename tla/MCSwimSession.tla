--------------------------- MODULE MCSwimSession ---------------------------
(***************************************************************************)
(* SwimSession for TLC: the two wired pins, a spare one a host may switch  *)
(* to, and one beyond bank 0 that PIO cannot own.                          *)
(***************************************************************************)
EXTENDS SwimSession

MCBank0 == {"gpio2", "gpio3", "gpio4"}
MCPins == MCBank0 \cup {"gpio30"}
=============================================================================
