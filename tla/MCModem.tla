------------------------------ MODULE MCModem -------------------------------
(* Modem with the two goroutines that poll it.                               *)
EXTENDS Modem

CONSTANTS probe, status, nil

MCPollers == {probe, status}
=============================================================================
