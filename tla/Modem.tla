------------------------------- MODULE Modem --------------------------------
(***************************************************************************)
(* One modem after another, as main sets them up and closes them, and the   *)
(* polls of the board's readings by the liveness probe and by the MQTT      *)
(* status (stats.go, modem_openhop.go, modem_spi.go).                       *)
(*                                                                          *)
(* A KISS board answers each command with a frame of its own, a value or an *)
(* error, and the driver hands any error to the counters request that is    *)
(* waiting, whatever the error answers.  An openHop board answers one       *)
(* command with everything.  A chip on SPI is read without a question.      *)
(***************************************************************************)
EXTENDS Naturals, Sequences

CONSTANTS
  Pollers,  \* the probe and the status
  Limit,    \* staleReadingAfter, in ticks of the clock
  Backlog,  \* bound: commands and replies on their way
  Nil       \* nobody, no answer

ASSUME PollersAssumption == Nil \notin Pollers
ASSUME BoundsAssumption == {Limit, Backlog} \subseteq Nat

VARIABLES
  kind,     \* the transport the config asks for
  phase,    \* of the modem: "off", "setup", "up" or "closing"
  done,     \* steps of the setup that have succeeded
  open,     \* what is open: the SPI port, the modem
  closers,  \* modemState.closers
  periph,   \* periphOnce: what host.Init has said, once for the process
  mood,     \* the board is prompt, slow or silent
  errors,   \* the commands this board answers with an error
  at,       \* where each poller is
  ctx,      \* whether its context is still alive
  mu,       \* the poller that holds pollMu
  answer,   \* what the request of the counters has been handed
  cmds,     \* commands the board has yet to answer
  wire,     \* its replies on their way
  age,      \* ticks since lastReply, or lastAt
  have,     \* haveBattery, haveMCUTemp
  quiet,    \* history: ticks since the board was last heard
  shown,    \* history: quiet when a poll last returned a battery, Nil if it had none
  late      \* history: the last poll returned before all it asked was answered

setupVars == <<kind, phase, done, open, closers, periph>>
boardVars == <<mood, errors>>
pollVars == <<at, ctx, mu, answer, cmds, wire, age, have, quiet, shown, late>>
vars == <<setupVars, boardVars, pollVars>>

Kinds == {"kiss", "openhop", "spi"}
Resources == {"port", "modem"}
Queries == <<"noise", "battery">>
Commands == {"counters", "noise", "battery"}
Stale == Limit + 1

TypeOK ==
  /\ kind \in Kinds /\ phase \in {"off", "setup", "up", "closing"} /\ done \in Nat
  /\ open \subseteq Resources /\ closers \in Seq(Resources) /\ periph \in {"unknown", "ok", "bad"}
  /\ mood \in {"prompt", "slow", "silent"} /\ errors \subseteq Commands
  /\ at \in [Pollers -> {"idle", "lock", "asked", "replied", "queried"}]
  /\ ctx \in [Pollers -> BOOLEAN] /\ mu \in Pollers \cup {Nil}
  /\ answer \in [of : Commands, ok : BOOLEAN] \cup {Nil}
  /\ cmds \in Seq(Commands) /\ wire \in Seq(Commands) /\ Len(cmds) + Len(wire) <= Backlog
  /\ {age, quiet} \subseteq 0 .. Stale /\ have \in BOOLEAN /\ late \in BOOLEAN
  /\ shown \in 0 .. Stale \cup {Nil}
  \* pollMu: one KISS poll at a time.
  /\ kind = "kiss" => \A p \in Pollers : at[p] \in {"asked", "queried"} => mu = p

\* A provider that has heard nothing, and that nobody polls.
Fresh ==
  /\ at = [p \in Pollers |-> "idle"] /\ ctx = [p \in Pollers |-> TRUE]
  /\ mu = Nil /\ answer = Nil /\ cmds = <<>> /\ wire = <<>>
  /\ age = Stale /\ have = FALSE /\ quiet = Stale
  /\ shown = Nil /\ late = FALSE

Init ==
  /\ kind \in Kinds /\ phase = "off" /\ done = 0
  /\ open = {} /\ closers = <<>> /\ periph = "unknown"
  /\ mood = "prompt" /\ errors \in SUBSET Commands
  /\ Fresh

-----------------------------------------------------------------------------
(* setupModem and modemState.Close.                                         *)

Steps ==
  [kiss |-> <<"connect", "radio", "power">>,
   openhop |-> <<"connect">>,
   spi |-> <<"board", "periph", "port", "chip", "modem">>]
Step == Steps[kind][done + 1]

Opened == CASE Step \in {"connect", "modem"} -> <<"modem">> [] Step = "port" -> <<"port">> [] OTHER -> <<>>

\* A retry, or a reload for another kind of modem (bound: not between the SPI
\* bus and a port).
Setup ==
  /\ phase = "off" /\ phase' = "setup" /\ done' = 0
  /\ kind' \in Kinds /\ (kind' = "spi" <=> kind = "spi")
  /\ UNCHANGED <<open, closers, periph, boardVars, pollVars>>

\* host.Init runs once: later setups get the result of the first.
StepSucceeds ==
  /\ phase = "setup" /\ done < Len(Steps[kind])
  /\ Step = "periph" => periph # "bad"
  /\ periph' = IF Step = "periph" THEN "ok" ELSE periph
  /\ open' = open \cup {Opened[n] : n \in DOMAIN Opened}
  /\ closers' = closers \o Opened
  /\ done' = done + 1
  /\ UNCHANGED <<kind, phase, boardVars, pollVars>>

\* Where the setup calls ms.Close; connect leaves nothing behind, for openHop
\* because it closes the modem itself, and board, periph and port open nothing.
BugClosesOn == {"radio", "power", "modem"}
ClosesOn == {"radio", "power", "chip", "modem"}

StepFails ==
  /\ phase = "setup" /\ done < Len(Steps[kind])
  /\ Step = "periph" => periph # "ok"
  /\ periph' = IF Step = "periph" THEN "bad" ELSE periph
  /\ phase' = IF Step \in ClosesOn THEN "closing" ELSE "off"
  /\ closers' = IF Step \in ClosesOn THEN closers ELSE <<>>
  /\ UNCHANGED <<kind, done, open, boardVars, pollVars>>

SetupEnds ==
  /\ phase = "setup" /\ done = Len(Steps[kind])
  /\ phase' = "up"
  /\ UNCHANGED <<kind, done, open, closers, periph, boardVars, pollVars>>

\* Main closes the modem and lets its provider go: a poll that is under way ends
\* with the driver, and nobody reads what it returns.
Close ==
  /\ phase = "up" /\ phase' = "closing"
  /\ mood' = "prompt"
  /\ at' = [p \in Pollers |-> "idle"] /\ ctx' = [p \in Pollers |-> TRUE]
  /\ mu' = Nil /\ answer' = Nil /\ cmds' = <<>> /\ wire' = <<>>
  /\ age' = Stale /\ have' = FALSE /\ quiet' = Stale /\ shown' = Nil /\ late' = FALSE
  /\ UNCHANGED <<kind, done, open, closers, periph, errors>>

CloseNext ==
  /\ phase = "closing"
  /\ IF closers = <<>> THEN phase' = "off" /\ UNCHANGED <<open, closers>>
     ELSE /\ open' = open \ {closers[Len(closers)]}
          /\ closers' = SubSeq(closers, 1, Len(closers) - 1)
          /\ UNCHANGED phase
  /\ UNCHANGED <<kind, done, periph, boardVars, pollVars>>

-----------------------------------------------------------------------------
(* The board and the driver's reader.                                       *)

BoardTurns ==
  /\ phase = "up" /\ kind # "spi"
  /\ mood' \in {"prompt", "slow", "silent"} \ {mood}
  /\ UNCHANGED <<setupVars, errors, pollVars>>

\* A silent board and one with too much to do lose commands.
Sent(q) ==
  IF mood = "silent" \/ Len(cmds \o wire \o q) > Backlog THEN cmds ELSE cmds \o q

BoardAnswers ==
  /\ cmds # <<>> /\ mood # "silent"
  /\ wire' = Append(wire, Head(cmds)) /\ cmds' = Tail(cmds)
  /\ UNCHANGED <<setupVars, boardVars, at, ctx, mu, answer, age, have, quiet, shown, late>>

\* Any error is an answer, to lastReply and to the request that waits.
Waiting == answer = Nil /\ \E p \in Pollers : at[p] = "asked"
Handed(r) ==
  IF Waiting /\ (r = "counters" \/ r \in errors) THEN [of |-> r, ok |-> r \notin errors] ELSE answer

Receive ==
  LET r == Head(wire) IN
  /\ wire # <<>>
  /\ wire' = Tail(wire) /\ quiet' = 0
  /\ answer' = Handed(r)
  /\ age' = IF r \in errors \/ r # "counters" THEN 0 ELSE age
  /\ have' = (have \/ (r = "battery" /\ r \notin errors))
  /\ UNCHANGED <<setupVars, boardVars, at, ctx, mu, cmds, shown, late>>

\* A poll is short against the life of a reading: time passes between polls.
Tick ==
  /\ \A p \in Pollers : at[p] = "idle"
  /\ age' = IF age < Stale THEN age + 1 ELSE age
  /\ quiet' = IF quiet < Stale THEN quiet + 1 ELSE quiet
  /\ <<age, quiet>>' # <<age, quiet>>
  /\ UNCHANGED <<setupVars, boardVars, at, ctx, mu, answer, cmds, wire, have, shown, late>>

-----------------------------------------------------------------------------
(* Stats of the KISS provider and of the openHop provider.                  *)

Goes(p, to) == at' = [at EXCEPT ![p] = to]
Returns(p) == Goes(p, "idle") /\ ctx' = [ctx EXCEPT ![p] = TRUE]
PollUnchanged == UNCHANGED <<setupVars, boardVars>>

Poll(p) ==
  /\ phase = "up" /\ kind # "spi" /\ at[p] = "idle"
  /\ Goes(p, IF kind = "kiss" THEN "lock" ELSE "asked")
  /\ PollUnchanged /\ UNCHANGED <<ctx, mu, answer, cmds, wire, age, have, quiet, shown, late>>

\* The observer stops, or the probe's time is up.
Cut(p) ==
  /\ at[p] # "idle" /\ ctx[p]
  /\ ctx' = [ctx EXCEPT ![p] = FALSE]
  /\ PollUnchanged /\ UNCHANGED <<at, mu, answer, cmds, wire, age, have, quiet, shown, late>>

\* pollMu, then the counters: FirmwareCounters registers and asks.  In BugLocks
\* they are asked after the queries.
BugMuFree(p) == TRUE
MuFree(p) == mu = Nil

BugLocks(p) ==
  /\ kind = "kiss" /\ at[p] = "lock" /\ MuFree(p)
  /\ mu' = p /\ answer' = Nil
  /\ cmds' = Sent(Queries \o <<"counters">>)
  /\ Goes(p, "asked")
  /\ PollUnchanged /\ UNCHANGED <<ctx, wire, age, have, quiet, shown, late>>

Locks(p) ==
  /\ kind = "kiss" /\ at[p] = "lock" /\ MuFree(p)
  /\ mu' = p /\ answer' = Nil
  /\ cmds' = Sent(<<"counters">>)
  /\ Goes(p, "asked")
  /\ PollUnchanged /\ UNCHANGED <<ctx, wire, age, have, quiet, shown, late>>

\* A prompt board answers in the time a poll gives it.
Coming == mood = "prompt" /\ cmds \o wire # <<>>

\* The counters, their error, or another's; then the three queries.
Concludes(p) ==
  /\ kind = "kiss" /\ at[p] = "asked" /\ answer # Nil
  /\ age' = IF answer.ok THEN 0 ELSE age
  /\ cmds' = Sent(Queries)
  /\ Goes(p, "queried")
  /\ PollUnchanged /\ UNCHANGED <<ctx, mu, answer, wire, have, quiet, shown, late>>

\* hwRequestTimeout or the context: the request itself has no limit.
BugTimesOut(p) == ~ctx[p]
TimesOut(p) == ~ctx[p] \/ ~Coming

GivesUp(p) ==
  /\ kind = "kiss" /\ at[p] = "asked" /\ answer = Nil /\ TimesOut(p)
  /\ cmds' = Sent(Queries)
  /\ Goes(p, "queried")
  /\ PollUnchanged /\ UNCHANGED <<ctx, mu, answer, wire, age, have, quiet, shown, late>>

\* snapshot: the flags are sticky, the freshness is not.
BugSnapshot == IF have THEN quiet ELSE Nil
Snapshot == IF have /\ age <= Limit THEN quiet ELSE Nil

PollOver(p) ==
  /\ kind = "kiss" /\ at[p] = "queried" /\ (~ctx[p] \/ ~Coming)
  /\ shown' = Snapshot
  /\ late' = (cmds \o wire # <<>>)
  /\ mu' = Nil /\ answer' = Nil
  /\ Returns(p)
  /\ PollUnchanged /\ UNCHANGED <<cmds, wire, age, have, quiet>>

\* openHop: STATUS is answered, and stored, by both pollers at once.
StatusAnswered(p) ==
  /\ kind = "openhop" /\ at[p] = "asked" /\ mood # "silent"
  /\ quiet' = 0
  /\ Goes(p, "replied")
  /\ PollUnchanged /\ UNCHANGED <<ctx, mu, answer, cmds, wire, age, have, shown, late>>

StatusStored(p) ==
  /\ at[p] = "replied"
  /\ age' = 0 /\ have' = ("battery" \notin errors)
  /\ shown' = IF "battery" \in errors THEN Nil ELSE quiet
  /\ Returns(p)
  /\ PollUnchanged /\ UNCHANGED <<mu, answer, cmds, wire, quiet, late>>

StatusFails(p) ==
  /\ kind = "openhop" /\ at[p] = "asked" /\ (mood # "prompt" \/ ~ctx[p])
  /\ shown' = Snapshot
  /\ Returns(p)
  /\ PollUnchanged /\ UNCHANGED <<mu, answer, cmds, wire, age, have, quiet, late>>

-----------------------------------------------------------------------------
Stats(p) ==
  \/ Concludes(p) \/ GivesUp(p) \/ PollOver(p)
  \/ StatusAnswered(p) \/ StatusStored(p) \/ StatusFails(p)

Next ==
  \/ Setup \/ StepSucceeds \/ StepFails \/ SetupEnds \/ Close \/ CloseNext
  \/ BoardTurns \/ BoardAnswers \/ Receive \/ Tick
  \/ \E p \in Pollers : Poll(p) \/ Cut(p) \/ Locks(p) \/ Stats(p)

Spec == Init /\ [][Next]_vars

\* Goroutines run and timers end, whatever the board does meanwhile; sync.Mutex
\* lets nobody wait for ever; what a prompt board has to say comes.  Nothing is
\* assumed of contexts.
FairSpec ==
  /\ Spec
  /\ WF_vars(mood = "prompt" /\ BoardAnswers) /\ WF_vars(Receive)
  /\ \A p \in Pollers : SF_vars(Locks(p) \/ Stats(p))

-----------------------------------------------------------------------------
\* A setup that fails at any step, and a Close, leave nothing open for the next
\* setup to find busy, and no port is closed under a modem that is using it.
NothingLeftOpen ==
  /\ phase = "off" => open = {}
  /\ kind = "spi" /\ "modem" \in open => "port" \in open

\* A board that has been silent for longer than staleReadingAfter shows no
\* battery and no temperature, whatever was polled in between.
SilentShowsNothing == shown # Nil => shown <= Limit

\* The counters request is never answered by another query's error, as long as
\* the poll before it could wait for its replies: what pollMu and the order of
\* the queries are for, whoever polls.
CountersAreOwn == answer # Nil /\ answer.of # "counters" => late

\* Every poll returns, of either provider, by the board's answer or by its own
\* timeouts, and lets the other in, though the board is silent and no context ends.
PollsReturn == \A p \in Pollers : at[p] # "idle" ~> at[p] = "idle"
=============================================================================
