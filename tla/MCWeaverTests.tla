--------------------------- MODULE MCWeaverTests ---------------------------
(* WeaverTests with a lost call in every test, or with a slow call: it      *)
(* takes just less than the sleep, just less than what the sleep leaves of  *)
(* the throttle, or exactly that.  The slot drawn shares a record with      *)
(* another slot of the tests or does not.                                   *)
EXTENDS WeaverTests
=============================================================================
