-------------------------- MODULE MCPoolLifecycle --------------------------
(* Instances of PoolLifecycle for TLC: constants are model values.          *)
EXTENDS PoolLifecycle
=============================================================================
