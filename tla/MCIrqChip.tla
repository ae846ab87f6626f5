----------------------------- MODULE MCIrqChip -----------------------------
(***************************************************************************)
(* TLC instance of IrqChip.  The driver has five hwirqs; the run keeps a    *)
(* plain one and an error interrupt, so that one pass can find events of    *)
(* both registers, and both may wake the system.                            *)
(***************************************************************************)
EXTENDS IrqChip

MCErrorIrqs == {1}
MCWakeIrqs  == {0, 1}
=============================================================================
