----------------------------- MODULE MCObserver -----------------------------
(* Observer on a flooded and a direct packet and two brokers: one that       *)
(* admits both and deduplicates, one that admits one and does not.           *)
EXTENDS Observer, TLC

CONSTANTS p1, p2, b1, b2, nil

MCPackets == {p1, p2}
MCDirect == {p2}
MCBrokers == {b1, b2}
MCAllowed == (b1 :> {p1, p2}) @@ (b2 :> {p1})
MCDedups == {b1}
=============================================================================
