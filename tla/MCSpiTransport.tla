--------------------------- MODULE MCSpiTransport ---------------------------
(* SpiTransport with a buffer of a few bytes and messages around its size. *)
EXTENDS SpiTransport
=============================================================================
