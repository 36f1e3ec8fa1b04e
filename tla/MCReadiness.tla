---------------------------- MODULE MCReadiness ----------------------------
(* The three readiness reconcilers on a small instance.  The Gateway's first  *)
(* generation names a key, the second does not, the third has a provider that *)
(* is not probed; the third version of the Secret lacks the key.              *)
EXTENDS Readiness

WorkingPairs == {<<1, 1>>, <<1, 2>>, <<2, 1>>}
=============================================================================
