---------------------------- MODULE RadioService ----------------------------
(***************************************************************************)
(* What meshcore-bot promises its operator, modem generations, timers and   *)
(* channels aside.  Once it has come up, the process serves the config in   *)
(* force or waits for its radio to come back.  It gives a radio up only     *)
(* after somebody reported it, a shutdown or a reload; it takes a new       *)
(* config only after a SIGHUP, from the file as it is then; and it ends     *)
(* only when told to, or over a reload on the same radio whose bots cannot  *)
(* be started.  No failure of the radio ends it.                            *)
(***************************************************************************)
EXTENDS Integers

CONSTANTS
  Files,     \* what the config file may hold
  Configs,   \* those of them that load and list bots
  Sound,     \* those whose bots can all be started
  SameModem  \* the pairs of configs that the same modem serves

VARIABLES
  phase,    \* "starting", "running" or "ended"
  wanted,   \* the config in force
  serving,  \* the configs bots run from: none or one
  suspect,  \* the radio in use has been reported
  due,      \* how often SIGHUPs still make the process read the file
  told,     \* SIGINT or SIGTERM has arrived
  disk      \* the config file

vars == <<phase, wanted, serving, suspect, due, told, disk>>

Init ==
  /\ phase = "starting"
  /\ disk \in Configs
  /\ wanted = disk
  /\ serving = {}
  /\ suspect = FALSE
  /\ due = 0
  /\ told = FALSE

-----------------------------------------------------------------------------
(* The radio.                                                               *)

\* The first bring-up, which may fail, and the later ones, which are retried.
Begin ==
  /\ phase = "starting"
  /\ wanted \in Sound
  /\ phase' = "running"
  /\ serving' = {wanted}
  /\ UNCHANGED <<wanted, suspect, due, told, disk>>

GiveUp ==
  /\ phase = "starting"
  /\ phase' = "ended"
  /\ UNCHANGED <<wanted, serving, suspect, due, told, disk>>

Recover ==
  /\ phase = "running"
  /\ serving = {}
  /\ wanted \in Sound
  /\ serving' = {wanted}
  /\ UNCHANGED <<phase, wanted, suspect, due, told, disk>>

\* The radio in use is reported, and then taken down.
Report ==
  /\ phase = "running"
  /\ serving # {}
  /\ suspect' = TRUE
  /\ UNCHANGED <<phase, wanted, serving, due, told, disk>>

TakeDown ==
  /\ phase = "running"
  /\ suspect
  /\ serving' = {}
  /\ suspect' = FALSE
  /\ UNCHANGED <<phase, wanted, due, told, disk>>

-----------------------------------------------------------------------------
(* The operator.                                                            *)

Edit == phase # "ended" /\ disk' \in Files /\ UNCHANGED <<phase, wanted, serving, suspect, due, told>>

\* One more reading, unless one that has not begun will serve this SIGHUP too.
Sighup ==
  /\ phase # "ended"
  /\ due' \in {due, due + 1} \ {0}
  /\ UNCHANGED <<phase, wanted, serving, suspect, told, disk>>

Tell == phase # "ended" /\ told' = TRUE /\ UNCHANGED <<phase, wanted, serving, suspect, due, disk>>

Read ==
  /\ phase = "running"
  /\ due > 0
  /\ due' = due - 1
  /\ UNCHANGED <<told, disk>>

\* A file that is no config changes nothing.
Reject ==
  /\ Read
  /\ disk \notin Configs
  /\ UNCHANGED <<phase, wanted, serving, suspect>>

\* The radio stays and the new config is served at once.
Reload ==
  /\ Read
  /\ serving # {}
  /\ <<wanted, disk>> \in SameModem
  /\ disk \in Sound
  /\ wanted' = disk
  /\ serving' = {disk}
  /\ UNCHANGED <<phase, suspect>>

\* ... or ends the process, when its bots cannot be started.
Mistake ==
  /\ Read
  /\ serving # {}
  /\ <<wanted, disk>> \in SameModem
  /\ disk \in Configs \ Sound
  /\ phase' = "ended"
  /\ serving' = {}
  /\ UNCHANGED <<wanted, suspect>>

\* The new config needs a radio that is not up.
Reconnect ==
  /\ Read
  /\ serving = {} \/ <<wanted, disk>> \notin SameModem
  /\ disk \in Configs
  /\ wanted' = disk
  /\ serving' = {}
  /\ suspect' = FALSE
  /\ UNCHANGED phase

End ==
  /\ phase = "running"
  /\ told
  /\ phase' = "ended"
  /\ serving' = {}
  /\ suspect' = FALSE
  /\ UNCHANGED <<wanted, due, told, disk>>

Next ==
  \/ Begin \/ GiveUp \/ Recover \/ Report \/ TakeDown
  \/ Edit \/ Sighup \/ Tell
  \/ Reject \/ Reload \/ Mistake \/ Reconnect \/ End

Spec == Init /\ [][Next]_vars
=============================================================================
