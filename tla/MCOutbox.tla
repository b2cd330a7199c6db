------------------------------- MODULE MCOutbox -------------------------------
(* Outbox for TLC: two sender processes share the queue.                     *)
EXTENDS Outbox
===============================================================================
