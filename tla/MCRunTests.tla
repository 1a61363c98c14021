----------------------------- MODULE MCRunTests -----------------------------
(* RunTests with the longest id of the firmware, one lost call in every     *)
(* test and all sets of flags.                                              *)
EXTENDS RunTests

Flag == {"list_slow_tests", "disable_slow_tests", "release_tests"}

WeaverOnly == <<[suite |-> "WeaverTest", name |-> "*"]>>

\* Without a filter, and with one where it is used and where it is overwritten.
MCCommandLines ==
  [flags : SUBSET Flag, asked : {<<Dash>>}]
    \union [flags : {{}, {"disable_slow_tests", "release_tests"}}, asked : {WeaverOnly}]
=============================================================================
