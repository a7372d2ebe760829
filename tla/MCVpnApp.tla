------------------------------ MODULE MCVpnApp ------------------------------
(***************************************************************************)
(* Model values for VpnApp.  A teardown thread goes back to the pool when  *)
(* it ends, and there are as many as there can be taps, so that OnStop     *)
(* always finds one; likewise handles and service objects never run out.   *)
(***************************************************************************)
EXTENDS VpnApp, TLC

CONSTANTS main, t1, t2, t3

OneStopper    == {t1}
TwoStoppers   == {t1, t2}
ThreeStoppers == {t1, t2, t3}

StopperSymmetry == Permutations(Stoppers)

=============================================================================
