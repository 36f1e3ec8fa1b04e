------------------------------- MODULE MCTee -------------------------------
(* The tee on small instances; the cfgs choose the bounds.                  *)
EXTENDS Tee
=============================================================================
