----------------------------- MODULE MCGateway -----------------------------
(* An instance of the egress gateway for TLC: two requests of one sandbox,  *)
(* two hosts of which one is allowed, and every limit at its smallest.      *)
EXTENDS Gateway
=============================================================================
