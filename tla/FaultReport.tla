----------------------------- MODULE FaultReport -----------------------------
(***************************************************************************)
(* What the main loop relies on from the watchers of one modem: a watcher   *)
(* starts to report only while the modem is open, the one on Dead() only    *)
(* once the device has really failed, a report in progress is either taken  *)
(* by the main loop or abandoned because the modem was closed, and a watcher *)
(* that has finished stays so.                                              *)
(***************************************************************************)

VARIABLES
  open,    \* the modem has not been closed
  fault,   \* its device has failed by itself
  stage    \* of each watcher: "watching", "reporting" or "off"

vars == <<open, fault, stage>>
Watchers == {"dead", "probe"}

Init ==
  /\ open = TRUE
  /\ fault = FALSE
  /\ stage \in [Watchers -> {"watching", "off"}]

Fail == open /\ fault' = TRUE /\ UNCHANGED <<open, stage>>

Close == open' = FALSE /\ UNCHANGED <<fault, stage>>

\* The watcher commits to reporting.
Fire(w) ==
  /\ open
  /\ stage[w] = "watching"
  /\ w = "dead" => fault
  /\ stage' = [stage EXCEPT ![w] = "reporting"]
  /\ UNCHANGED <<open, fault>>

\* The main loop takes the report.
Deliver(w) ==
  /\ stage[w] = "reporting"
  /\ stage' = [stage EXCEPT ![w] = "off"]
  /\ UNCHANGED <<open, fault>>

\* The modem was closed: the watcher returns.
Quit(w) ==
  /\ ~open
  /\ stage[w] # "off"
  /\ stage' = [stage EXCEPT ![w] = "off"]
  /\ UNCHANGED <<open, fault>>

Next == Fail \/ Close \/ \E w \in Watchers : Fire(w) \/ Deliver(w) \/ Quit(w)

Spec == Init /\ [][Next]_vars
=============================================================================
