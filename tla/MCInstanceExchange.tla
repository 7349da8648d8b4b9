-------------------------- MODULE MCInstanceExchange --------------------------
(* A record that two requests at a time work on; see instance_exchange.cfg. *)
EXTENDS InstanceExchange
=============================================================================
