--------------------------- MODULE MCWebRecovery ---------------------------
(* Two tabs, two commands and a quote. *)
EXTENDS WebRecovery, TLC
=============================================================================
