----------------------------- MODULE ModemProofs -----------------------------
(***************************************************************************)
(* The modems of Modem, for any pollers, staleness limit and backlog.  Opens *)
(* is the invariant of setupModem and Close, Polls that of the readings:     *)
(* each half is left alone by the actions of the other.                      *)
(***************************************************************************)
EXTENDS Modem, SequenceTheorems, TLAPS

\* The closers are what is open, in the order it was opened.
Closable ==
  /\ closers \in Seq(Resources)
  /\ \/ open = {} /\ Len(closers) = 0
     \/ open = {"modem"} /\ Len(closers) = 1 /\ closers[1] = "modem" /\ kind # "spi"
     \/ open = {"port"} /\ Len(closers) = 1 /\ closers[1] = "port" /\ kind = "spi"
     \/ /\ open = {"port", "modem"} /\ kind = "spi"
        /\ Len(closers) = 2 /\ closers[1] = "port" /\ closers[2] = "modem"

\* What the steps that have succeeded have opened.
OpenedSoFar ==
  IF kind = "spi"
  THEN /\ done <= 5
       /\ open = IF done <= 2 THEN {} ELSE IF done <= 4 THEN {"port"} ELSE {"port", "modem"}
  ELSE open = IF done = 0 THEN {} ELSE {"modem"}

Opens ==
  /\ kind \in Kinds /\ phase \in {"off", "setup", "up", "closing"} /\ done \in Nat
  /\ periph \in {"unknown", "ok", "bad"}
  /\ Closable
  /\ phase = "off" => open = {}
  /\ phase = "setup" => OpenedSoFar

PollsTypeOK ==
  /\ mood \in {"prompt", "slow", "silent"} /\ errors \subseteq Commands
  /\ at \in [Pollers -> {"idle", "lock", "asked", "replied", "queried"}]
  /\ ctx \in [Pollers -> BOOLEAN]
  /\ answer \in [of : Commands, ok : BOOLEAN] \cup {Nil}
  /\ cmds \in Seq(Commands) /\ wire \in Seq(Commands) /\ Len(cmds) + Len(wire) <= Backlog
  /\ {age, quiet} \subseteq 0 .. Stale /\ have \in BOOLEAN /\ late \in BOOLEAN
  /\ shown \in 0 .. Stale \cup {Nil}

\* Who polls, and who holds pollMu.
Locked ==
  /\ mu # Nil => mu \in Pollers /\ at[mu] \in {"asked", "queried"}
  /\ kind = "kiss" => \A p \in Pollers : at[p] \in {"asked", "queried"} => mu = p
  /\ kind # "kiss" => /\ mu = Nil /\ answer = Nil /\ cmds = <<>> /\ wire = <<>>
                      /\ \A p \in Pollers : at[p] \notin {"lock", "queried"}
  /\ kind = "kiss" => \A p \in Pollers : at[p] # "replied"
  /\ phase # "up" => /\ mu = Nil /\ answer = Nil /\ cmds = <<>> /\ wire = <<>>
                     /\ \A p \in Pollers : at[p] = "idle"

\* No reading is younger than what the board last said; a reply not yet used
\* has just come.
Heard ==
  /\ quiet <= age
  /\ answer # Nil => quiet = 0 /\ mu # Nil
  /\ \A p \in Pollers : at[p] = "replied" => quiet = 0
  /\ SilentShowsNothing

\* Unless the last poll was cut short, what is under way while the counters are
\* awaited is the counters.
Own ==
  ~late => /\ mu = Nil => cmds = <<>> /\ wire = <<>>
           /\ mu # Nil /\ at[mu] = "asked" =>
                cmds \in Seq({"counters"}) /\ wire \in Seq({"counters"})
           /\ answer # Nil => answer.of = "counters"

Polls == PollsTypeOK /\ Locked /\ Heard /\ Own

IInv == Opens /\ Polls

-----------------------------------------------------------------------------
(* The setup and the closing of a modem.                                    *)

\* The steps of each transport.
LEMMA StepsOf ==
  ASSUME kind \in Kinds, done \in Nat, done < Len(Steps[kind])
  PROVE  \/ kind # "spi" /\ done = 0 /\ Step = "connect"
         \/ kind = "kiss" /\ done \in {1, 2} /\ Step \in {"radio", "power"}
         \/ kind = "spi" /\ done \in {0, 1} /\ Step \in {"board", "periph"}
         \/ kind = "spi" /\ done = 2 /\ Step = "port"
         \/ kind = "spi" /\ done = 3 /\ Step = "chip"
         \/ kind = "spi" /\ done = 4 /\ Step = "modem"
<1>1. CASE kind = "kiss"
  <2>1. Steps[kind] = <<"connect", "radio", "power">>
    BY <1>1 DEF Steps
  <2>2. done \in {0, 1, 2}
    BY <2>1
  <2> QED
    BY <1>1, <2>1, <2>2 DEF Step
<1>2. CASE kind = "openhop"
  <2>1. Steps[kind] = <<"connect">>
    BY <1>2 DEF Steps
  <2>2. done = 0
    BY <2>1
  <2> QED
    BY <1>2, <2>1, <2>2 DEF Step
<1>3. CASE kind = "spi"
  <2>1. Steps[kind] = <<"board", "periph", "port", "chip", "modem">>
    BY <1>3 DEF Steps
  <2>2. done \in {0, 1, 2, 3, 4}
    BY <2>1
  <2> QED
    BY <1>3, <2>1, <2>2 DEF Step
<1> QED
  BY <1>1, <1>2, <1>3 DEF Kinds

\* Before a setup nothing is open.
LEMMA InitOpens == Init => Opens
  BY DEF Init, Opens, Closable

\* A step of a setup opens what it appends to the closers.
LEMMA SetupOpens ==
  ASSUME Opens, Setup
  PROVE  Opens'
  BY DEF Setup, Opens, Closable, OpenedSoFar

\* A step opens what its closer will close.
LEMMA StepSucceedsOpens ==
  ASSUME Opens, StepSucceeds
  PROVE  Opens'
<1>1. kind \in Kinds /\ done \in Nat /\ phase = "setup" /\ done < Len(Steps[kind]) /\ OpenedSoFar /\ Closable
  BY DEF StepSucceeds, Opens
<1>2. /\ UNCHANGED <<kind, phase>> /\ done' = done + 1 /\ periph' \in {"unknown", "ok", "bad"}
      /\ open' = open \cup {Opened[n] : n \in DOMAIN Opened} /\ closers' = closers \o Opened
  BY DEF StepSucceeds, Opens
<1>3. CASE kind # "spi" /\ done = 0 /\ Step = "connect"
  <2>1. Opened = <<"modem">>
    BY <1>3 DEF Opened
  <2>2. open = {} /\ closers = <<>>
    <3>1. open = {}
      BY <1>1, <1>3 DEF OpenedSoFar
    <3>2. closers \in Seq(Resources) /\ Len(closers) = 0
      BY <1>1, <3>1 DEF Closable
    <3> QED
      BY <3>1, <3>2, EmptySeq
  <2>3. open' = {"modem"} /\ closers' = <<"modem">> /\ done' = 1
    BY <1>2, <1>3, <2>1, <2>2
  <2> QED
    BY <1>1, <1>2, <1>3, <2>3 DEF Opens, Closable, OpenedSoFar, Resources
<1>4. CASE kind = "spi" /\ done = 2 /\ Step = "port"
  <2>1. Opened = <<"port">>
    BY <1>4 DEF Opened
  <2>2. open = {} /\ closers = <<>>
    BY <1>1, <1>4 DEF OpenedSoFar, Closable
  <2>3. open' = {"port"} /\ closers' = <<"port">> /\ done' = 3
    BY <1>2, <1>4, <2>1, <2>2
  <2> QED
    BY <1>1, <1>2, <1>4, <2>3 DEF Opens, Closable, OpenedSoFar, Resources
<1>5. CASE kind = "spi" /\ done = 4 /\ Step = "modem"
  <2>1. Opened = <<"modem">>
    BY <1>5 DEF Opened
  <2>2. open = {"port"} /\ closers \in Seq(Resources) /\ Len(closers) = 1 /\ closers[1] = "port"
    <3>1. open = {"port"}
      BY <1>1, <1>5 DEF OpenedSoFar
    <3> QED
      BY <1>1, <3>1 DEF Closable
  <2>3. open' = {"port", "modem"} /\ done' = 5
    BY <1>2, <1>5, <2>1, <2>2
  <2>4. /\ closers' \in Seq(Resources) /\ Len(closers') = 2
        /\ closers'[1] = "port" /\ closers'[2] = "modem"
    <3>1. closers' = Append(closers, "modem")
      BY <1>2, <2>1, <2>2, AppendIsConcat DEF Resources
    <3>2. "modem" \in Resources
      BY DEF Resources
    <3>3. /\ closers' \in Seq(Resources) /\ Len(closers') = Len(closers) + 1
          /\ closers'[Len(closers) + 1] = "modem"
      BY Zenon, <2>2, <3>1, <3>2, AppendProperties
    <3>4. closers'[1] = closers[1]
      BY <2>2, <3>1, <3>2
    <3> QED
      BY <2>2, <3>3, <3>4
  <2> QED
    BY <1>1, <1>2, <1>5, <2>3, <2>4 DEF Opens, Closable, OpenedSoFar
<1>6. CASE \/ kind = "kiss" /\ done \in {1, 2} /\ Step \in {"radio", "power"}
           \/ kind = "spi" /\ done \in {0, 1} /\ Step \in {"board", "periph"}
           \/ kind = "spi" /\ done = 3 /\ Step = "chip"
  <2>1. Opened = <<>>
    BY <1>6 DEF Opened
  <2>2. open' = open /\ closers' = closers
    BY <1>1, <1>2, <2>1 DEF Closable
  <2>3. OpenedSoFar'
    <3>1. CASE kind = "kiss" /\ done \in {1, 2}
      BY <1>1, <1>2, <2>2, <3>1 DEF OpenedSoFar
    <3>2. CASE kind = "spi" /\ (done = 0 \/ done = 1)
      BY <1>1, <1>2, <2>2, <3>2 DEF OpenedSoFar
    <3>3. CASE kind = "spi" /\ done = 3
      BY <1>1, <1>2, <2>2, <3>3 DEF OpenedSoFar
    <3> QED
      BY <1>6, <3>1, <3>2, <3>3
  <2>4. Closable'
    BY <1>1, <1>2, <2>2 DEF Closable
  <2> QED
    BY <1>1, <1>2, <2>3, <2>4 DEF Opens
<1> QED
  BY <1>1, <1>3, <1>4, <1>5, <1>6, StepsOf

\* A step that fails without Close has nothing open before it.
LEMMA StepFailsOpens ==
  ASSUME Opens, StepFails
  PROVE  Opens'
<1>1. kind \in Kinds /\ done \in Nat /\ phase = "setup" /\ done < Len(Steps[kind]) /\ OpenedSoFar /\ Closable
  BY DEF StepFails, Opens
<1>2. /\ UNCHANGED <<kind, done, open>> /\ periph' \in {"unknown", "ok", "bad"}
      /\ phase' = IF Step \in ClosesOn THEN "closing" ELSE "off"
      /\ closers' = IF Step \in ClosesOn THEN closers ELSE <<>>
  BY DEF StepFails, Opens
<1>3. Step \notin ClosesOn => open = {}
  <2>1. Step \notin ClosesOn => \/ kind # "spi" /\ done = 0
                                \/ kind = "spi" /\ (done = 0 \/ done = 1 \/ done = 2)
    BY <1>1, StepsOf DEF ClosesOn
  <2> QED
    BY <1>1, <2>1 DEF OpenedSoFar
<1> QED
  BY <1>1, <1>2, <1>3 DEF Opens, Closable

\* A setup that is through, and a Close that begins, have yet to close anything.
LEMMA SetupEndsOpens ==
  ASSUME Opens, SetupEnds \/ Close
  PROVE  Opens'
  BY DEF SetupEnds, Close, Opens, Closable

\* The closers run backwards: the modem before the port under it.
LEMMA CloseNextOpens ==
  ASSUME Opens, CloseNext
  PROVE  Opens'
<1>1. phase = "closing" /\ UNCHANGED <<kind, done, periph>>
  BY DEF CloseNext
<1>2. CASE closers = <<>>
  BY <1>1, <1>2 DEF CloseNext, Opens, Closable
<1>3. CASE closers # <<>>
  <2> DEFINE last == Len(closers)
  <2>1. /\ open' = open \ {closers[last]} /\ closers' = SubSeq(closers, 1, last - 1)
        /\ phase' = phase
    BY <1>1, <1>3 DEF CloseNext
  <2>2. closers \in Seq(Resources) /\ (last = 1 \/ last = 2)
    BY <1>3 DEF Opens, Closable
  <2>3. /\ closers' \in Seq(Resources) /\ Len(closers') = last - 1
        /\ last = 2 => closers'[1] = closers[1]
    <3>1. \A n \in 1 .. last - 1 : closers[n] \in Resources
      BY <2>2
    <3>2. /\ closers' \in Seq(Resources)
          /\ Len(closers') = IF 1 <= last - 1 THEN last - 1 - 1 + 1 ELSE 0
          /\ \A n \in 1 .. last - 1 - 1 + 1 : closers'[n] = closers[1 + n - 1]
      <4>1. 1 \in Int /\ last - 1 \in Int
        BY <2>2
      <4> HIDE DEF last
      <4> QED
        BY <2>1, <3>1, <4>1, SubSeqProperties
    <3>3. CASE last = 1
      BY <3>2, <3>3
    <3>4. CASE last = 2
      BY <3>2, <3>4
    <3> QED
      BY <2>2, <3>3, <3>4
  <2>4. \/ last = 1 /\ open' = {}
        \/ last = 2 /\ kind = "spi" /\ closers[1] = "port" /\ open' = {"port"}
    BY <2>1, <2>2 DEF Opens, Closable
  <2> QED
    BY <1>1, <2>1, <2>3, <2>4 DEF Opens, Closable
<1> QED
  BY <1>2, <1>3

\* Polls open and close nothing.
LEMMA SetupKeptOpens ==
  ASSUME Opens, UNCHANGED setupVars
  PROVE  Opens'
  BY DEF setupVars, Opens, Closable, OpenedSoFar

-----------------------------------------------------------------------------
(* The polls of a modem.                                                    *)

\* At first nobody polls and nothing is on its way.
LEMMA InitPolls == Init => Polls
<1> SUFFICES ASSUME Init PROVE Polls
  OBVIOUS
<1>1. PollsTypeOK
  <2>1. have \in BOOLEAN /\ late \in BOOLEAN /\ ctx \in [Pollers -> BOOLEAN]
    BY DEF Init, Fresh
  <2>2. Len(cmds) + Len(wire) <= Backlog /\ {age, quiet} \subseteq 0 .. Stale
    BY BoundsAssumption DEF Init, Fresh, Stale
  <2> QED
    BY <2>1, <2>2 DEF Init, Fresh, PollsTypeOK, Commands
<1>2. Locked
  BY DEF Init, Fresh, Locked
<1>3. Heard /\ Own
  BY BoundsAssumption DEF Init, Fresh, Heard, Own, SilentShowsNothing, Stale
<1> QED
  BY <1>1, <1>2, <1>3 DEF Polls

\* A setup begins, goes on or ends with nobody polling.
LEMMA SetupPolls ==
  ASSUME Polls, UNCHANGED <<boardVars, pollVars>>, phase' # "up" => phase # "up",
         kind' = kind \/ phase = "off"
  PROVE  Polls'
<1> USE DEF boardVars, pollVars
<1>1. PollsTypeOK'
  BY DEF Polls, PollsTypeOK
<1>2. Locked'
  BY DEF Polls, Locked
<1>3. Heard' /\ Own'
  BY DEF Polls, Heard, Own, SilentShowsNothing
<1> QED
  BY <1>1, <1>2, <1>3 DEF Polls

\* Close leaves nothing of a poll to be answered.
LEMMA ClosePolls ==
  ASSUME Polls, Close
  PROVE  Polls'
<1>1. PollsTypeOK'
  <2>1. Len(cmds') + Len(wire') <= Backlog /\ {age', quiet'} \subseteq 0 .. Stale
    BY BoundsAssumption DEF Close, Stale
  <2>2. have' \in BOOLEAN /\ late' \in BOOLEAN /\ ctx' \in [Pollers -> BOOLEAN]
    BY DEF Close
  <2>3. /\ at' \in [Pollers -> {"idle", "lock", "asked", "replied", "queried"}]
        /\ cmds' \in Seq(Commands) /\ wire' \in Seq(Commands)
    BY DEF Close
  <2> QED
    BY <2>1, <2>2, <2>3 DEF Close, Polls, PollsTypeOK
<1>2. Locked'
  BY DEF Close, Locked
<1>3. Heard' /\ Own'
  BY BoundsAssumption DEF Close, Heard, Own, SilentShowsNothing, Stale
<1> QED
  BY <1>1, <1>2, <1>3 DEF Polls

\* A change of the board's mood answers nothing.
LEMMA BoardTurnsPolls ==
  ASSUME Polls, BoardTurns
  PROVE  Polls'
<1> USE DEF setupVars, pollVars
<1>1. PollsTypeOK'
  BY DEF BoardTurns, Polls, PollsTypeOK
<1>2. Locked' /\ Heard' /\ Own'
  BY DEF BoardTurns, Polls, Locked, Heard, Own, SilentShowsNothing
<1> QED
  BY <1>1, <1>2 DEF Polls

\* A command becomes its reply: what is on its way is of the same kind.
LEMMA BoardAnswersPolls ==
  ASSUME Polls, BoardAnswers
  PROVE  Polls'
<1>1. /\ UNCHANGED <<kind, phase, mood, errors, at, ctx, mu, answer, age, have, quiet, shown, late>>
      /\ cmds # <<>> /\ wire' = Append(wire, Head(cmds)) /\ cmds' = Tail(cmds)
  BY DEF BoardAnswers, setupVars, boardVars
<1>2. ASSUME NEW S, cmds \in Seq(S), wire \in Seq(S)
      PROVE  cmds' \in Seq(S) /\ wire' \in Seq(S) /\ Len(cmds') + Len(wire') = Len(cmds) + Len(wire)
  <2>1. Head(cmds) \in S /\ Tail(cmds) \in Seq(S) /\ Len(Tail(cmds)) = Len(cmds) - 1
    BY <1>1, <1>2, HeadTailProperties
  <2>2. wire' \in Seq(S) /\ Len(wire') = Len(wire) + 1
    BY Zenon, <1>1, <1>2, <2>1, AppendProperties
  <2>3. Len(cmds) \in Nat /\ Len(wire) \in Nat
    BY <1>2
  <2> QED
    BY <1>1, <2>1, <2>2, <2>3
<1>3. PollsTypeOK'
  BY <1>1, <1>2 DEF Polls, PollsTypeOK
<1>4. Locked' /\ Heard'
  BY <1>1 DEF Polls, Locked, Heard, SilentShowsNothing
<1>5. Own'
  BY <1>1, <1>2 DEF Polls, Own
<1> QED
  BY <1>3, <1>4, <1>5 DEF Polls

\* An error handed to the request that waits is that of the counters, if the
\* poll before left nothing behind.
LEMMA ReceivePolls ==
  ASSUME Polls, Receive
  PROVE  Polls'
<1> DEFINE r == Head(wire)
<1>1. /\ UNCHANGED <<kind, phase, mood, errors, at, ctx, mu, cmds, shown, late>>
      /\ wire # <<>> /\ wire' = Tail(wire) /\ quiet' = 0 /\ answer' = Handed(r)
      /\ age' = 0 \/ age' = age
      /\ have' = (have \/ (r = "battery" /\ r \notin errors))
  BY DEF Receive, setupVars, boardVars
<1>2. r \in Commands /\ wire' \in Seq(Commands) /\ Len(wire') = Len(wire) - 1
  BY <1>1, HeadTailProperties DEF Polls, PollsTypeOK
<1>3. kind = "kiss"
  BY <1>1 DEF Polls, Locked
<1>4. \/ answer' = answer
      \/ /\ answer' = [of |-> r, ok |-> r \notin errors]
         /\ answer = Nil /\ mu # Nil /\ at[mu] = "asked"
  <2>1. Waiting => answer = Nil /\ mu # Nil /\ at[mu] = "asked"
    BY <1>3, PollersAssumption DEF Waiting, Polls, Locked
  <2> QED
    BY <1>1, <2>1 DEF Handed
<1>5. PollsTypeOK'
  <2>1. have' \in BOOLEAN
    BY <1>1 DEF Polls, PollsTypeOK
  <2>2. answer' \in [of : Commands, ok : BOOLEAN] \cup {Nil}
    <3>1. [of |-> r, ok |-> r \notin errors] \in [of : Commands, ok : BOOLEAN]
      BY <1>2
    <3> QED
      BY Zenon, <1>4, <3>1 DEF Polls, PollsTypeOK
  <2>3. {age', quiet'} \subseteq 0 .. Stale
    BY <1>1, BoundsAssumption DEF Polls, PollsTypeOK, Stale
  <2>4. Len(cmds') + Len(wire') <= Backlog
    BY <1>1, <1>2, BoundsAssumption DEF Polls, PollsTypeOK
  <2> QED
    BY <1>1, <1>2, <2>1, <2>2, <2>3, <2>4 DEF Polls, PollsTypeOK
<1>6. Locked'
  BY <1>1, <1>3 DEF Polls, Locked
<1>7. Heard'
  BY <1>1, <1>4 DEF Polls, PollsTypeOK, Heard, SilentShowsNothing
<1>8. Own'
  <2>1. ASSUME ~late PROVE mu # Nil
    BY <1>1, <2>1 DEF Polls, Own
  <2>2. ASSUME ~late, at[mu] = "asked"
        PROVE  cmds' \in Seq({"counters"}) /\ wire' \in Seq({"counters"}) /\ r = "counters"
    <3>1. cmds \in Seq({"counters"}) /\ wire \in Seq({"counters"})
      BY <2>1, <2>2 DEF Polls, Own
    <3>2. r \in {"counters"} /\ Tail(wire) \in Seq({"counters"})
      BY <1>1, <3>1, HeadTailProperties
    <3> QED
      BY <1>1, <3>1, <3>2
  <2>3. ASSUME ~late, answer' # Nil PROVE answer'.of = "counters"
    BY <1>4, <2>2, <2>3 DEF Polls, Own
  <2> QED
    BY <1>1, <2>1, <2>2, <2>3 DEF Own
<1> QED
  BY <1>5, <1>6, <1>7, <1>8 DEF Polls

\* Time passes only with no answer in hand.
LEMMA TickPolls ==
  ASSUME Polls, Tick
  PROVE  Polls'
<1>1. /\ UNCHANGED <<kind, phase, mood, errors, at, ctx, mu, answer, cmds, wire, have, shown, late>>
      /\ \A p \in Pollers : at[p] = "idle"
      /\ age' = IF age < Stale THEN age + 1 ELSE age
      /\ quiet' = IF quiet < Stale THEN quiet + 1 ELSE quiet
  BY DEF Tick, setupVars, boardVars
<1>2. age \in 0 .. Stale /\ quiet \in 0 .. Stale /\ quiet <= age /\ Stale \in Nat
  BY BoundsAssumption DEF Polls, PollsTypeOK, Heard, Stale
<1>3. age' \in 0 .. Stale /\ quiet' \in 0 .. Stale /\ quiet' <= age'
  BY <1>1, <1>2
<1>4. PollsTypeOK'
  BY <1>1, <1>3 DEF Polls, PollsTypeOK
<1>5. Locked' /\ Own'
  BY <1>1 DEF Polls, Locked, Own
<1>6. Heard'
  BY <1>1, <1>3 DEF Polls, Locked, Heard, SilentShowsNothing
<1> QED
  BY <1>4, <1>5, <1>6 DEF Polls

-----------------------------------------------------------------------------
(* What each poller does.                                                   *)

\* A poll that only moves on, or loses its context.
LEMMA PollPolls ==
  ASSUME Polls, NEW p \in Pollers, Poll(p) \/ Cut(p)
  PROVE  Polls'
<1>1. /\ UNCHANGED <<kind, phase, mood, errors, mu, answer, cmds, wire, age, have, quiet, shown, late>>
      /\ \/ /\ at' = [at EXCEPT ![p] = IF kind = "kiss" THEN "lock" ELSE "asked"]
            /\ phase = "up" /\ kind # "spi" /\ at[p] = "idle" /\ UNCHANGED ctx
         \/ at' = at /\ ctx' = [ctx EXCEPT ![p] = FALSE]
  BY DEF Poll, Cut, Goes, PollUnchanged, setupVars, boardVars
<1>2. PollsTypeOK'
  <2>1. ctx' \in [Pollers -> BOOLEAN]
    BY <1>1 DEF Polls, PollsTypeOK
  <2> QED
    BY <1>1, <2>1 DEF Polls, PollsTypeOK
<1>3. Locked'
  BY <1>1 DEF Polls, PollsTypeOK, Locked
<1>4. Heard'
  BY <1>1 DEF Polls, PollsTypeOK, Heard, SilentShowsNothing
<1>5. Own'
  BY <1>1 DEF Polls, PollsTypeOK, Locked, Own
<1> QED
  BY <1>2, <1>3, <1>4, <1>5 DEF Polls

\* A request is sent only within the backlog.
LEMMA SentTyped ==
  ASSUME PollsTypeOK, NEW q \in Seq(Commands)
  PROVE  Sent(q) \in Seq(Commands) /\ Len(Sent(q)) + Len(wire) <= Backlog
<1>1. cmds \in Seq(Commands) /\ wire \in Seq(Commands) /\ Len(cmds) + Len(wire) <= Backlog
  BY DEF PollsTypeOK
<1>2. /\ cmds \o q \in Seq(Commands) /\ Len(cmds \o q) = Len(cmds) + Len(q)
      /\ Len(cmds \o wire \o q) = Len(cmds) + Len(wire) + Len(q)
  BY <1>1, ConcatProperties
<1>3. {Backlog, Len(cmds), Len(wire), Len(q)} \subseteq Nat
  BY <1>1, BoundsAssumption
<1> QED
  BY <1>1, <1>2, <1>3 DEF Sent

\* The poll that gets pollMu finds nothing on its way but what a poll before it
\* left, and asks for the counters alone.
LEMMA LocksPolls ==
  ASSUME Polls, NEW p \in Pollers, Locks(p)
  PROVE  Polls'
<1>1. /\ UNCHANGED <<kind, phase, mood, errors, ctx, wire, age, have, quiet, shown, late>>
      /\ kind = "kiss" /\ at[p] = "lock" /\ mu = Nil /\ mu' = p /\ answer' = Nil
      /\ cmds' = Sent(<<"counters">>) /\ at' = [at EXCEPT ![p] = "asked"]
  BY DEF Locks, MuFree, Goes, PollUnchanged, setupVars, boardVars
<1>2. PollsTypeOK'
  <2>1. cmds' \in Seq(Commands) /\ Len(cmds') + Len(wire') <= Backlog
    <3>1. <<"counters">> \in Seq(Commands)
      BY DEF Commands
    <3> QED
      BY <1>1, <3>1, SentTyped DEF Polls
  <2> QED
    BY <1>1, <2>1 DEF Polls, PollsTypeOK
<1>3. Locked'
  BY <1>1, PollersAssumption DEF Polls, PollsTypeOK, Locked
<1>4. Heard'
  BY <1>1 DEF Polls, PollsTypeOK, Heard, SilentShowsNothing
<1>5. Own'
  <2> SUFFICES ASSUME ~late PROVE cmds' \in Seq({"counters"}) /\ wire' \in Seq({"counters"})
    BY <1>1, PollersAssumption DEF Own
  <2>1. cmds = <<>> /\ wire = <<>>
    BY <1>1 DEF Polls, Own
  <2>2. cmds' = <<>> \/ cmds' = <<"counters">>
    BY <1>1, <2>1 DEF Sent
  <2>3. <<>> \in Seq({"counters"}) /\ <<"counters">> \in Seq({"counters"})
    OBVIOUS
  <2> QED
    BY Zenon, <1>1, <2>1, <2>2, <2>3
<1> QED
  BY <1>2, <1>3, <1>4, <1>5 DEF Polls

\* The three queries follow the counters, answered or not.
LEMMA QueriesPolls ==
  ASSUME Polls, NEW p \in Pollers, Concludes(p) \/ GivesUp(p)
  PROVE  Polls'
<1>1. /\ UNCHANGED <<kind, phase, mood, errors, ctx, mu, answer, wire, have, quiet, shown, late>>
      /\ kind = "kiss" /\ at[p] = "asked"
      /\ cmds' = Sent(Queries) /\ at' = [at EXCEPT ![p] = "queried"]
      /\ age' = age \/ (age' = 0 /\ answer # Nil)
  BY DEF Concludes, GivesUp, Goes, PollUnchanged, setupVars, boardVars
<1>2. mu = p /\ mu # Nil /\ phase = "up"
  BY <1>1, PollersAssumption DEF Polls, Locked
<1>3. PollsTypeOK'
  <2>1. cmds' \in Seq(Commands) /\ Len(cmds') + Len(wire') <= Backlog
    <3>1. Queries \in Seq(Commands)
      BY DEF Queries, Commands
    <3> QED
      BY <1>1, <3>1, SentTyped DEF Polls
  <2>2. {age', quiet'} \subseteq 0 .. Stale
    BY <1>1, BoundsAssumption DEF Polls, PollsTypeOK, Stale
  <2> QED
    BY <1>1, <2>1, <2>2 DEF Polls, PollsTypeOK
<1>4. Locked'
  BY <1>1, <1>2 DEF Polls, PollsTypeOK, Locked
<1>5. Heard'
  BY <1>1 DEF Polls, PollsTypeOK, Heard, SilentShowsNothing
<1>6. Own'
  BY <1>1, <1>2 DEF Polls, PollsTypeOK, Own
<1> QED
  BY <1>3, <1>4, <1>5, <1>6 DEF Polls

\* A reading is shown only while the board was heard within the limit.
LEMMA SnapshotFresh ==
  ASSUME Polls
  PROVE  /\ Snapshot \in 0 .. Stale \cup {Nil}
         /\ Snapshot # Nil => Snapshot <= Limit
<1>1. quiet \in 0 .. Stale /\ age \in 0 .. Stale /\ quiet <= age /\ Limit \in Nat
  BY BoundsAssumption DEF Polls, PollsTypeOK, Heard
<1> QED
  BY <1>1 DEF Snapshot, Stale

\* A poll that leaves replies on their way is remembered as late.
LEMMA PollOverPolls ==
  ASSUME Polls, NEW p \in Pollers, PollOver(p)
  PROVE  Polls'
<1>1. /\ UNCHANGED <<kind, phase, mood, errors, cmds, wire, age, have, quiet>>
      /\ kind = "kiss" /\ at[p] = "queried" /\ mu' = Nil /\ answer' = Nil
      /\ at' = [at EXCEPT ![p] = "idle"] /\ ctx' = [ctx EXCEPT ![p] = TRUE]
      /\ shown' = Snapshot /\ late' = (cmds \o wire # <<>>)
  BY DEF PollOver, Returns, Goes, PollUnchanged, setupVars, boardVars
<1>2. PollsTypeOK'
  <2>1. late' \in BOOLEAN /\ ctx' \in [Pollers -> BOOLEAN]
    BY <1>1 DEF Polls, PollsTypeOK
  <2> QED
    BY <1>1, <2>1, SnapshotFresh DEF Polls, PollsTypeOK
<1>3. Locked'
  BY <1>1 DEF Polls, PollsTypeOK, Locked
<1>4. Heard'
  BY <1>1, SnapshotFresh DEF Polls, PollsTypeOK, Heard, SilentShowsNothing
<1>5. Own'
  <2>1. ASSUME ~late' PROVE cmds = <<>> /\ wire = <<>>
    <3>1. cmds \o wire = <<>> /\ cmds \in Seq(Commands) /\ wire \in Seq(Commands)
      BY <1>1, <2>1 DEF Polls, PollsTypeOK
    <3>2. Len(cmds) + Len(wire) = 0 /\ Len(cmds) \in Nat /\ Len(wire) \in Nat
      BY <3>1, ConcatProperties
    <3> QED
      BY <3>1, <3>2
  <2> QED
    BY <1>1, <2>1 DEF Own
<1> QED
  BY <1>2, <1>3, <1>4, <1>5 DEF Polls

\* openHop polls: the reply is stored at the time it came.
LEMMA StatusPolls ==
  ASSUME Polls, NEW p \in Pollers, StatusAnswered(p) \/ StatusStored(p) \/ StatusFails(p)
  PROVE  Polls'
<1>1. UNCHANGED <<kind, phase, mood, errors, mu, answer, cmds, wire, late>>
  BY DEF StatusAnswered, StatusStored, StatusFails, PollUnchanged, setupVars, boardVars
<1>2. kind # "kiss" /\ phase = "up" /\ mu = Nil /\ answer = Nil /\ cmds = <<>> /\ wire = <<>>
  BY DEF StatusAnswered, StatusStored, StatusFails, Polls, Locked
<1>3. \/ /\ at' = [at EXCEPT ![p] = "replied"] /\ quiet' = 0 /\ UNCHANGED <<ctx, age, have, shown>>
      \/ /\ at' = [at EXCEPT ![p] = "idle"] /\ ctx' = [ctx EXCEPT ![p] = TRUE] /\ UNCHANGED quiet
         /\ \/ /\ at[p] = "replied" /\ age' = 0 /\ have' = ("battery" \notin errors)
               /\ shown' \in {Nil, quiet}
            \/ UNCHANGED <<age, have>> /\ shown' = Snapshot
  BY DEF StatusAnswered, StatusStored, StatusFails, Returns, Goes
<1>4. at[p] = "replied" => quiet = 0
  BY DEF Polls, Heard
<1>5. PollsTypeOK'
  <2>1. have' \in BOOLEAN /\ ctx' \in [Pollers -> BOOLEAN]
    BY <1>3 DEF Polls, PollsTypeOK
  <2>2. {age', quiet'} \subseteq 0 .. Stale /\ shown' \in 0 .. Stale \cup {Nil}
    BY <1>3, SnapshotFresh, BoundsAssumption DEF Polls, PollsTypeOK, Stale
  <2> QED
    BY <1>1, <1>3, <2>1, <2>2 DEF Polls, PollsTypeOK
<1>6. Locked'
  BY <1>1, <1>2, <1>3 DEF Polls, PollsTypeOK, Locked
<1>7. Heard'
  BY <1>1, <1>2, <1>3, <1>4, SnapshotFresh, BoundsAssumption
     DEF Polls, PollsTypeOK, Heard, SilentShowsNothing
<1>8. Own'
  BY <1>1, <1>2 DEF Own
<1> QED
  BY <1>5, <1>6, <1>7, <1>8 DEF Polls

-----------------------------------------------------------------------------
\* The invariant is inductive.
LEMMA NextHolds == IInv /\ [Next]_vars => IInv'
<1> SUFFICES ASSUME IInv, [Next]_vars PROVE IInv'
  OBVIOUS
<1>1. Opens /\ Polls
  BY DEF IInv
<1>2. Opens'
  <2>1. CASE UNCHANGED setupVars
    BY <1>1, <2>1, SetupKeptOpens
  <2>2. CASE Setup \/ StepSucceeds \/ StepFails \/ SetupEnds \/ Close \/ CloseNext
    BY <1>1, <2>2, SetupOpens, StepSucceedsOpens, StepFailsOpens, SetupEndsOpens, CloseNextOpens
  <2> QED
    BY <2>1, <2>2 DEF Next, vars, BoardTurns, BoardAnswers, Receive, Tick, Poll, Cut, Locks, Stats,
                      Concludes, GivesUp, PollOver, StatusAnswered, StatusStored, StatusFails,
                      PollUnchanged
<1>3. Polls'
  <2>1. CASE Setup \/ StepSucceeds \/ StepFails \/ SetupEnds \/ CloseNext \/ UNCHANGED vars
    <3>1. /\ UNCHANGED <<boardVars, pollVars>> /\ (phase' # "up" => phase # "up")
          /\ kind' = kind \/ phase = "off"
      BY <2>1 DEF Setup, StepSucceeds, StepFails, SetupEnds, CloseNext, vars, setupVars
    <3> QED
      BY <1>1, <3>1, SetupPolls
  <2>2. CASE \E p \in Pollers : Poll(p) \/ Cut(p) \/ Locks(p) \/ Stats(p)
    BY <1>1, <2>2, PollPolls, LocksPolls, QueriesPolls, PollOverPolls, StatusPolls DEF Stats
  <2> QED
    BY <1>1, <2>1, <2>2, ClosePolls, BoardTurnsPolls, BoardAnswersPolls, ReceivePolls, TickPolls
       DEF Next
<1> QED
  BY <1>2, <1>3 DEF IInv

\* Both parts of the invariant hold always.
LEMMA Invariance == Spec => []IInv
<1>1. Init => IInv
  BY InitOpens, InitPolls DEF IInv
<1> QED
  BY <1>1, NextHolds, PTL DEF Spec

-----------------------------------------------------------------------------
\* Every variable keeps its type, and one KISS poll at a time is past pollMu.
THEOREM TypeCorrect == Spec => []TypeOK
<1>1. IInv => TypeOK
  <2> SUFFICES ASSUME IInv PROVE TypeOK
    OBVIOUS
  <2>1. open \subseteq Resources /\ closers \in Seq(Resources)
    BY DEF IInv, Opens, Closable, Resources
  <2>2. mu \in Pollers \cup {Nil}
    BY DEF IInv, Polls, Locked
  <2>3. kind = "kiss" => \A p \in Pollers : at[p] \in {"asked", "queried"} => mu = p
    BY DEF IInv, Polls, Locked
  <2> QED
    BY <2>1, <2>2, <2>3 DEF IInv, Opens, Polls, PollsTypeOK, TypeOK
<1> QED
  BY <1>1, Invariance, PTL

\* A setup that fails at any step, and a Close, leave nothing open, and no port is
\* closed under its modem (setupModem, modemState.Close).
THEOREM NothingIsLeftOpen == Spec => []NothingLeftOpen
<1>1. IInv => NothingLeftOpen
  BY DEF IInv, Opens, Closable, NothingLeftOpen
<1> QED
  BY <1>1, Invariance, PTL

\* A board silent for longer than the limit shows no battery, whatever was polled
\* in between (snapshot).
THEOREM SilenceShowsNothing == Spec => []SilentShowsNothing
<1>1. IInv => SilentShowsNothing
  BY DEF IInv, Polls, Heard
<1> QED
  BY <1>1, Invariance, PTL

\* The counters are answered by their own reply, unless the poll before was cut
\* short (pollMu and the order of Stats).
THEOREM CountersAreTheirOwn == Spec => []CountersAreOwn
<1>1. IInv => CountersAreOwn
  BY DEF IInv, Polls, Own, CountersAreOwn
<1> QED
  BY <1>1, Invariance, PTL

=============================================================================
