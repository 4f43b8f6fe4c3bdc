-------------------------- MODULE MCElfBreakpoints --------------------------
(***************************************************************************)
(* Two neighbouring addresses, so that a write can cover one record, both, *)
(* or stop at an unmapped byte between them; three byte values: the trap,  *)
(* the zero of an unread record, and one that is neither.  An image holds  *)
(* the same byte everywhere; mixed contents arise from the writes.         *)
(***************************************************************************)
EXTENDS ElfBreakpoints

MCAddr == 1 .. 2
MCByte == {0, 144, 204}
MCImages == {[a \in MCAddr |-> b] : b \in MCByte}
=============================================================================
