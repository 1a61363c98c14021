---------------------------- MODULE MCProtoTests ----------------------------
(* ProtoTests with two test vectors, the three key sizes of AesCbc and two  *)
(* requests for random bytes; two replies may be late at a time.            *)
EXTENDS ProtoTests

\* The key sizes of AesCbc, in bytes.
MCKeySizes == <<16, 24, 32>>

\* The requests that the tests make.
MCRequest ==
  [op : {"ping", "invalid", "control", "sequence", "echo", "trng"}, data : {0}]
    \union [op : {"cbc"}, data : {16, 24, 32}] \union [op : {"gcm", "cmac"}, data : 1 .. 2]
=============================================================================
