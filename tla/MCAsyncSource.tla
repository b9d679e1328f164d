---------------------------- MODULE MCAsyncSource ----------------------------
(* AsyncSource for TLC: both classes, an inbox of two places, three reads   *)
(* and two messages from elsewhere, so that ACQUIREs are dropped.           *)
EXTENDS AsyncSource

=============================================================================
