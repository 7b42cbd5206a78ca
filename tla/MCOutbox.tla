------------------------------ MODULE MCOutbox ------------------------------
(***************************************************************************)
(* A small instance of Outbox: a webhook and an alert channel.             *)
(***************************************************************************)
EXTENDS Outbox

=============================================================================
