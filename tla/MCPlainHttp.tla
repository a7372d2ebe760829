----------------------------- MODULE MCPlainHttp -----------------------------
(* The instances of PlainHttp that TLC checks: one connection with one or   *)
(* two requests, one of them with a body, each cfg choosing what client and *)
(* servers may do that they should not, and how much of it at a time.       *)
EXTENDS PlainHttp
=============================================================================
