---------------------------- MODULE MCModemWatch ----------------------------
(* ModemWatch with the limit the code has, three misses in a row. *)
EXTENDS ModemWatch
=============================================================================
