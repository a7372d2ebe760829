---------------------------- MODULE MCLiveProxy ----------------------------
(* Two proxies one after the other; two connections, to either or to one     *)
(* each.                                                                     *)
EXTENDS LiveProxy

=============================================================================
