--------------------------- MODULE MCNuggetTools ---------------------------
(* NuggetTools with a wait of two ticks instead of four seconds. *)
EXTENDS NuggetTools

\* What the chip does after the last tool returned is of no interest.
Explored == pc # "idle" \/ ops < MaxOps
=============================================================================
