----------------------------- MODULE MCBaseline -----------------------------
(***************************************************************************)
(* Instances of Baseline.                                                  *)
(***************************************************************************)
EXTENDS Baseline

=============================================================================
