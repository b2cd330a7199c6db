-------------------------- MODULE MCReservationSplit --------------------------
(* ReservationSplit for TLC.                                                 *)
EXTENDS ReservationSplit

MCAmounts == 1..12
MCQuantities == 1..12
===============================================================================
