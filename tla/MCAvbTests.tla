----------------------------- MODULE MCAvbTests -----------------------------
(* Two rollback slots, three nonces and one lost call in every test. *)
EXTENDS AvbTests
=============================================================================
