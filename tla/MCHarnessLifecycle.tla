------------------------- MODULE MCHarnessLifecycle -------------------------
(* Three harnesses in a row and the two descriptors one of them needs. *)
EXTENDS HarnessLifecycle
=============================================================================
