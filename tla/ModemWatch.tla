----------------------------- MODULE ModemWatch -----------------------------
(***************************************************************************)
(* The watchers of one modem (modem_watch.go) and its Close (main.go): one  *)
(* goroutine waits for Dead(), one polls the board and counts polls nobody  *)
(* answered, and both deliver their verdict on an unbuffered channel, unless *)
(* the modem is closed first.  Close may run on any goroutine at any time.  *)
(*                                                                          *)
(* Time is left out: a tick is a step the probe may take, and whether a     *)
(* reply falls into a poll's window is decided by the board's mood.         *)
(***************************************************************************)
EXTENDS Naturals, Sequences

CONSTANT ProbeMisses   \* probeMisses

ASSUME MissesAssumption == ProbeMisses \in Nat \ {0}

VARIABLES
  closing,    \* modemState.Close: not called, watchDone closed, closers run
  readEnded,  \* the driver's read loop is over, so Dead() has fired
  fault,      \* history: it ended because the device failed, not by Close
  board,      \* "prompt": answers within the poll; "slow": sometime; "silent"
  answered,   \* LastReply is not zero
  newer,      \* LastReply is after the one the probe read before its poll
  zero,       \* the probe read a zero LastReply before its poll
  misses,     \* misses
  recent,     \* history: the outcomes of the latest polls that count
  dead,       \* the goroutine on Dead()
  probe       \* the goroutine that polls

vars == <<closing, readEnded, fault, board, answered, newer, zero, misses,
          recent, dead, probe>>
closeVars == <<closing, readEnded, fault>>
boardVars == <<board, answered>>
pollVars == <<newer, zero, misses, recent>>

watchDone == closing # "open"

TypeOK ==
  /\ closing \in {"open", "halfway", "closed"}
  /\ readEnded \in BOOLEAN /\ fault \in BOOLEAN
  /\ board \in {"prompt", "slow", "silent"}
  /\ answered \in BOOLEAN /\ newer \in BOOLEAN /\ zero \in BOOLEAN
  /\ misses \in 0 .. ProbeMisses
  /\ recent \in Seq({"answered", "missed"}) /\ Len(recent) <= ProbeMisses
  /\ dead \in {"wait", "report", "sending", "off"}
  /\ probe \in {"tick", "poll", "report", "sending", "off"}

\* watch() starts the watchers this transport offers.
Init ==
  /\ closing = "open" /\ readEnded = FALSE /\ fault = FALSE
  /\ board \in {"prompt", "slow", "silent"}
  /\ answered = FALSE /\ newer = FALSE /\ zero = TRUE
  /\ misses = 0 /\ recent = <<>>
  /\ dead \in {"wait", "off"}
  /\ probe \in {"tick", "off"}

-----------------------------------------------------------------------------
(* Close, the device and the board.                                         *)

\* Close first closes watchDone ...
CloseWatchDone ==
  /\ closing = "open"
  /\ closing' = "halfway"
  /\ UNCHANGED <<readEnded, fault, boardVars, pollVars, dead, probe>>

\* ... and then the modem, which ends the read loop and so fires Dead().
CloseModem ==
  /\ closing = "halfway"
  /\ closing' = "closed"
  /\ readEnded' = TRUE
  /\ UNCHANGED <<fault, boardVars, pollVars, dead, probe>>

\* The port goes away: the read loop ends by itself.
DeviceFails ==
  /\ ~readEnded
  /\ closing = "open"
  /\ readEnded' = TRUE
  /\ fault' = TRUE
  /\ UNCHANGED <<closing, boardVars, pollVars, dead, probe>>

BoardTurns ==
  /\ board' \in {"prompt", "slow", "silent"}
  /\ UNCHANGED <<closeVars, answered, pollVars, dead, probe>>

\* An answer to any query of any poller arrives (answered() in stats.go).
Reply ==
  /\ ~readEnded
  /\ board # "silent"
  /\ answered' = TRUE
  /\ newer' = TRUE
  /\ UNCHANGED <<closeVars, board, zero, misses, recent, dead, probe>>

-----------------------------------------------------------------------------
(* The goroutine on Dead().                                                 *)

DeadFires ==
  /\ dead = "wait"
  /\ readEnded
  /\ dead' = "report"
  /\ UNCHANGED <<closeVars, boardVars, pollVars, probe>>

DeadStops ==
  /\ dead = "wait"
  /\ watchDone
  /\ dead' = "off"
  /\ UNCHANGED <<closeVars, boardVars, pollVars, probe>>

-----------------------------------------------------------------------------
(* The probe.                                                               *)

ProbeStops ==
  /\ probe = "tick"
  /\ watchDone
  /\ probe' = "off"
  /\ UNCHANGED <<closeVars, boardVars, pollVars, dead>>

\* A tick: LastReply is read, and the poll begins.
ProbeAsks ==
  /\ probe = "tick"
  /\ zero' = ~answered
  /\ newer' = FALSE
  /\ probe' = "poll"
  /\ UNCHANGED <<closeVars, boardVars, misses, recent, dead>>

\* Stats has returned.  A prompt board has answered by then.
PollOver == probe = "poll" /\ (board = "prompt" /\ ~readEnded => newer)

\* history: the last ProbeMisses outcomes.
Remember(o) ==
  recent' = IF Len(recent) < ProbeMisses THEN Append(recent, o)
            ELSE Append(Tail(recent), o)

\* The board had never answered when the poll began: nothing can be said.
NeverAnswered == zero

ProbeUnsure ==
  /\ PollOver
  /\ NeverAnswered
  /\ probe' = "tick"
  /\ UNCHANGED <<closeVars, boardVars, pollVars, dead>>

BugForget == UNCHANGED misses
Forget == misses' = 0

ProbeAnswered ==
  /\ PollOver
  /\ ~NeverAnswered /\ newer
  /\ Forget
  /\ Remember("answered")
  /\ probe' = "tick"
  /\ UNCHANGED <<closeVars, boardVars, newer, zero, dead>>

\* One more unanswered poll: give up at the limit, go on below it.
BugProbeMissed ==
  /\ PollOver
  /\ ~NeverAnswered /\ ~newer
  /\ misses' = 0
  /\ Remember("missed")
  /\ probe' = IF misses + 1 < ProbeMisses THEN "tick" ELSE "report"
  /\ UNCHANGED <<closeVars, boardVars, newer, zero, dead>>
BugProbeGoesOn ==
  /\ PollOver
  /\ ~NeverAnswered /\ ~newer
  /\ misses' = misses + 1
  /\ Remember("missed")
  /\ probe' = "tick"
  /\ UNCHANGED <<closeVars, boardVars, newer, zero, dead>>
ProbeMissed ==
  /\ PollOver
  /\ ~NeverAnswered /\ ~newer
  /\ misses' = misses + 1
  /\ Remember("missed")
  /\ probe' = IF misses' < ProbeMisses THEN "tick" ELSE "report"
  /\ UNCHANGED <<closeVars, boardVars, newer, zero, dead>>

-----------------------------------------------------------------------------
(* report(), of either goroutine.                                           *)

\* Where goroutine w is, and where it goes.
At(w) == IF w = "dead" THEN dead ELSE probe
Goto(w, to) ==
  IF w = "dead" THEN dead' = to /\ UNCHANGED probe ELSE probe' = to /\ UNCHANGED dead

\* The first select: a modem closed by then is not reported.
BugReportChecks(w) ==
  /\ At(w) = "report"
  /\ Goto(w, "sending")
  /\ UNCHANGED <<closeVars, boardVars, pollVars>>
ReportChecks(w) ==
  /\ At(w) = "report"
  /\ Goto(w, IF watchDone THEN "off" ELSE "sending")
  /\ UNCHANGED <<closeVars, boardVars, pollVars>>

\* The second select: the main loop receives ...
ReportTaken(w) ==
  /\ At(w) = "sending"
  /\ Goto(w, "off")
  /\ UNCHANGED <<closeVars, boardVars, pollVars>>

\* ... or the modem is closed.
BugReportAbandoned(w) == w = "neither" /\ UNCHANGED vars
ReportAbandoned(w) ==
  /\ At(w) = "sending"
  /\ watchDone
  /\ Goto(w, "off")
  /\ UNCHANGED <<closeVars, boardVars, pollVars>>

-----------------------------------------------------------------------------
Watchers == {"dead", "probe"}

Deadwatch == DeadFires \/ DeadStops
Probing == ProbeStops \/ ProbeAsks \/ ProbeUnsure \/ ProbeAnswered \/ ProbeMissed
Reporting == \E w \in Watchers : ReportChecks(w) \/ ReportTaken(w) \/ ReportAbandoned(w)
Closing == CloseWatchDone \/ CloseModem

Next == Closing \/ DeviceFails \/ BoardTurns \/ Reply \/ Deadwatch \/ Probing \/ Reporting

Spec == Init /\ [][Next]_vars

\* Goroutines that can run do, a begun Close finishes, ticks come, and a board
\* that stays prompt answers.  Nothing forces the main loop to receive: it may
\* be busy with a teardown.  The probe's select does not starve watchDone.
Fairness ==
  /\ WF_vars(CloseModem)
  /\ WF_vars(Reply /\ board = "prompt")
  /\ WF_vars(Deadwatch)
  /\ WF_vars(Probing) /\ SF_vars(ProbeStops)
  /\ \A w \in Watchers : WF_vars(ReportChecks(w)) /\ WF_vars(ReportAbandoned(w))

FairSpec == Spec /\ Fairness

-----------------------------------------------------------------------------
\* The probe reports only a board whose last ProbeMisses polls that count were
\* all unanswered, and that had answered before: one that drops a reply now and
\* then is left alone, and so is firmware that knows none of the queries.
OnlyInARow ==
  probe \in {"report", "sending"} =>
    answered /\ Len(recent) = ProbeMisses /\ \A i \in 1 .. Len(recent) : recent[i] = "missed"

\* A board that goes silent after it has answered is reported, unless the
\* modem is closed first: a wedged board behind an open port is found.
SilenceFound ==
  (probe # "off" /\ <>[](board = "silent") /\ <>answered)
    => <>(probe = "sending" \/ watchDone)

\* After a Close both goroutines return, whether or not anybody receives.
WatchersReturn == watchDone ~> (dead = "off" /\ probe = "off")

\* The two goroutines do what the main loop relies on.
Stage(pc) == CASE pc = "sending" -> "reporting" [] pc = "off" -> "off" [] OTHER -> "watching"
Promise == INSTANCE FaultReport WITH
  open <- ~watchDone,
  fault <- fault,
  stage <- [w \in {"dead", "probe"} |-> Stage(At(w))]
ReportsFaithfully == Promise!Spec
=============================================================================
