---------------------------- MODULE MCSupervisor ----------------------------
(* Supervisor on two modem names, a device of each kind, and config files   *)
(* of every kind the reload path tells apart.                                *)
EXTENDS Supervisor, TLC

CONSTANTS m1, m2, nil

File(loads, b, q, s) == [loads |-> loads, bots |-> b, mqtt |-> q, modem |-> s]

MCModems == {m1, m2}
MCSymmetry == Permutations(MCModems)
MCFiles == {
  File(FALSE, "none", FALSE, "kiss"),   \* does not parse or validate
  File(TRUE, "good", TRUE, "kiss"),     \* bots and an observer on KISS
  File(TRUE, "good", FALSE, "kiss"),    \* the same modem, without the observer
  File(TRUE, "bad", FALSE, "kiss"),     \* the same modem, a trigger that fails
  File(TRUE, "good", FALSE, "spi"),     \* another modem, no observer
  File(TRUE, "good", TRUE, "openhop")}  \* a third modem, with an observer

\* Reloads that are refused or change nothing but the bots, for the liveness run.
MCFilesLive == {
  File(FALSE, "none", FALSE, "kiss"),
  File(TRUE, "good", FALSE, "kiss")}
=============================================================================
