---------------------------- MODULE MCStressTest ----------------------------
(* StressTest with a signal that may come twice and two calls that fail.    *)
EXTENDS StressTest
=============================================================================
