-------------------------- MODULE ModemWatchProofs --------------------------
(***************************************************************************)
(* The safety of ModemWatch for every limit of misses, and that its steps   *)
(* are steps of FaultReport: what the main loop relies on.                  *)
(***************************************************************************)
EXTENDS ModemWatch, SequenceTheorems, TLAPS

\* The last misses outcomes of the polls that count were all unanswered.
Row == misses <= Len(recent)
       /\ \A i \in 1 .. Len(recent) : i > Len(recent) - misses => recent[i] = "missed"

\* The probe stops at the limit and only there.
AtTheLimit ==
  /\ probe \in {"tick", "poll"} => misses < ProbeMisses
  /\ probe \in {"report", "sending"} => misses = ProbeMisses

\* Misses are counted only of a board that has answered.
OnceAlive ==
  /\ misses > 0 => answered
  /\ probe = "poll" /\ ~zero => answered

\* The read loop of an open modem ends only by a fault, and only then does the
\* goroutine on Dead() set out to report.
DeadMeansFault ==
  /\ readEnded /\ closing \in {"open", "halfway"} => fault
  /\ dead = "report" => readEnded

\* The flags among the variables.
Flags ==
  /\ readEnded \in BOOLEAN /\ fault \in BOOLEAN
  /\ answered \in BOOLEAN /\ newer \in BOOLEAN /\ zero \in BOOLEAN

IInv == TypeOK /\ Row /\ AtTheLimit /\ OnceAlive /\ DeadMeansFault

-----------------------------------------------------------------------------
\* What Remember makes of the history: one more outcome, at its end, and the
\* oldest forgotten when it is full.
LEMMA Remembered ==
  ASSUME TypeOK, NEW o \in {"answered", "missed"}, Remember(o)
  PROVE  /\ recent' \in Seq({"answered", "missed"})
         /\ Len(recent') <= ProbeMisses /\ Len(recent') > 0
         /\ recent'[Len(recent')] = o
         /\ \/ /\ Len(recent') = Len(recent) + 1
               /\ \A i \in 1 .. Len(recent) : recent'[i] = recent[i]
            \/ /\ Len(recent) = ProbeMisses /\ Len(recent') = Len(recent)
               /\ \A i \in 1 .. Len(recent) - 1 : recent'[i] = recent[i + 1]
<1> DEFINE S == {"answered", "missed"}
<1>1. recent \in Seq(S) /\ Len(recent) \in Nat /\ Len(recent) <= ProbeMisses
  BY LenProperties DEF TypeOK
<1>2. CASE Len(recent) < ProbeMisses
  <2>1. recent' = Append(recent, o)
    BY <1>2 DEF Remember
  <2> QED
    BY <1>1, <1>2, <2>1, MissesAssumption
<1>3. CASE Len(recent) = ProbeMisses
  <2> DEFINE t == Tail(recent)
  <2>1. recent' = Append(t, o)
    BY <1>3 DEF Remember
  <2>2. recent # <<>>
    BY <1>3, MissesAssumption
  <2>3. /\ t \in Seq(S) /\ Len(t) = Len(recent) - 1
        /\ \A i \in 1 .. Len(t) : t[i] = recent[i + 1]
    BY <1>1, <2>2, HeadTailProperties
  <2> HIDE DEF t
  <2> QED
    BY <1>1, <1>3, <2>1, <2>3, MissesAssumption
<1> QED
  BY <1>1, <1>2, <1>3, MissesAssumption

\* The invariant holds when the watchers are started.
LEMMA InitHolds == Init => IInv
<1> SUFFICES ASSUME Init PROVE IInv
  OBVIOUS
<1>1. recent \in Seq({"answered", "missed"}) /\ Len(recent) = 0 /\ misses = 0
  BY EmptySeq DEF Init
<1>2. Flags
  BY Zenon DEF Init, Flags
<1>3. TypeOK
  BY <1>1, <1>2, MissesAssumption DEF Init, TypeOK, Flags
<1>4. Row /\ AtTheLimit /\ OnceAlive /\ DeadMeansFault
  BY <1>1, MissesAssumption DEF Init, Row, AtTheLimit, OnceAlive, DeadMeansFault
<1> QED
  BY <1>3, <1>4 DEF IInv

\* Closing, the device and the board leave the count alone.
LEMMA WorldHolds ==
  ASSUME IInv, Closing \/ DeviceFails \/ BoardTurns \/ Reply
  PROVE  IInv'
<1> USE DEF Closing, CloseWatchDone, CloseModem, DeviceFails, BoardTurns, Reply, closeVars,
        boardVars, pollVars
<1>1. TypeOK'
  <2>1. Flags'
    BY Zenon DEF IInv, TypeOK, Flags
  <2> QED
    BY <2>1 DEF IInv, TypeOK, Flags
<1>2. Row' /\ AtTheLimit'
  BY DEF IInv, Row, AtTheLimit
<1>3. OnceAlive' /\ DeadMeansFault'
  BY DEF IInv, TypeOK, OnceAlive, DeadMeansFault
<1> QED
  BY <1>1, <1>2, <1>3 DEF IInv

\* So does the goroutine on Dead(), which leaves its wait when it has fired.
LEMMA DeadwatchHolds ==
  ASSUME IInv, Deadwatch
  PROVE  IInv'
  BY DEF IInv, TypeOK, Row, AtTheLimit, OnceAlive, DeadMeansFault, Deadwatch, DeadFires,
         DeadStops, closeVars, boardVars, pollVars

\* Reporting moves a goroutine on from where it is.
LEMMA ReportingHolds ==
  ASSUME IInv, Reporting
  PROVE  IInv'
<1>1. PICK w \in Watchers : ReportChecks(w) \/ ReportTaken(w) \/ ReportAbandoned(w)
  BY DEF Reporting
<1>2. UNCHANGED <<closeVars, boardVars, pollVars>>
  BY <1>1 DEF ReportChecks, ReportTaken, ReportAbandoned
<1>3. \/ probe' = probe /\ dead' \in {"off", "sending"}
      \/ dead' = dead /\ probe \in {"report", "sending"} /\ probe' \in {"off", "sending"}
  BY <1>1 DEF ReportChecks, ReportTaken, ReportAbandoned, Goto, At, Watchers
<1> QED
  BY <1>2, <1>3
     DEF IInv, TypeOK, Row, AtTheLimit, OnceAlive, DeadMeansFault, closeVars, boardVars,
         pollVars

\* A poll that begins notes whether the board had answered; one that ends
\* starts the row over or makes it longer.
LEMMA ProbingHolds ==
  ASSUME IInv, Probing
  PROVE  IInv'
<1> USE DEF IInv
<1>1. CASE ProbeStops \/ ProbeAsks \/ ProbeUnsure
  <2> USE DEF ProbeStops, ProbeAsks, ProbeUnsure, PollOver, closeVars, boardVars, pollVars
  <2>1. TypeOK'
    BY <1>1 DEF TypeOK
  <2>2. Row' /\ AtTheLimit'
    BY <1>1 DEF Row, AtTheLimit
  <2>3. OnceAlive'
    BY <1>1 DEF TypeOK, OnceAlive
  <2>4. DeadMeansFault'
    BY <1>1 DEF TypeOK, DeadMeansFault
  <2> QED
    BY <2>1, <2>2, <2>3, <2>4
<1>2. CASE ProbeAnswered
  <2>1. misses' = 0 /\ probe' = "tick" /\ UNCHANGED <<closeVars, boardVars, newer, zero, dead>>
    BY <1>2 DEF ProbeAnswered, Forget
  <2>2. /\ recent' \in Seq({"answered", "missed"})
        /\ Len(recent') \in Nat /\ Len(recent') <= ProbeMisses
    BY <1>2, Remembered, LenProperties DEF ProbeAnswered
  <2> QED
    BY <2>1, <2>2, MissesAssumption
       DEF TypeOK, Row, AtTheLimit, OnceAlive, DeadMeansFault, closeVars, boardVars
<1>3. CASE ProbeMissed
  <2>1. /\ probe = "poll" /\ ~zero /\ misses' = misses + 1
        /\ probe' = (IF misses' < ProbeMisses THEN "tick" ELSE "report")
        /\ UNCHANGED <<closeVars, boardVars, newer, zero, dead>>
    BY <1>3 DEF ProbeMissed, PollOver, NeverAnswered
  <2>2. misses \in Nat /\ misses < ProbeMisses
    BY <2>1 DEF TypeOK, AtTheLimit
  <2>3. Remember("missed")
    BY <1>3 DEF ProbeMissed
  <2>4. recent' \in Seq({"answered", "missed"}) /\ Len(recent') <= ProbeMisses
    BY <2>3, Remembered
  <2>5. TypeOK'
    BY <2>1, <2>2, <2>4, MissesAssumption DEF TypeOK, closeVars, boardVars
  <2>6. Row'
    <3>1. Len(recent) \in Nat /\ Len(recent') \in Nat
      BY <2>4, LenProperties DEF TypeOK
    <3>2. CASE /\ Len(recent') = Len(recent) + 1
               /\ \A i \in 1 .. Len(recent) : recent'[i] = recent[i]
      <4> SUFFICES ASSUME NEW i \in 1 .. Len(recent'), i > Len(recent') - misses'
                   PROVE  recent'[i] = "missed"
        BY <2>1, <2>2, <3>1, <3>2 DEF Row
      <4>1. CASE i = Len(recent')
        BY <4>1, <2>3, Remembered
      <4>2. CASE i < Len(recent')
        <5>1. i \in 1 .. Len(recent) /\ i > Len(recent) - misses
          BY <4>2, <3>1, <3>2, <2>1, <2>2
        <5> QED
          BY <5>1, <3>2 DEF Row
      <4> QED
        BY <4>1, <4>2, <3>1
    <3>3. CASE /\ Len(recent) = ProbeMisses /\ Len(recent') = Len(recent)
               /\ \A i \in 1 .. Len(recent) - 1 : recent'[i] = recent[i + 1]
      <4> SUFFICES ASSUME NEW i \in 1 .. Len(recent'), i > Len(recent') - misses'
                   PROVE  recent'[i] = "missed"
        BY <2>1, <2>2, <3>1, <3>3 DEF Row
      <4>1. CASE i = Len(recent')
        BY <4>1, <2>3, Remembered
      <4>2. CASE i < Len(recent')
        <5>1. i \in 1 .. Len(recent) - 1 /\ i + 1 \in 1 .. Len(recent)
              /\ i + 1 > Len(recent) - misses
          BY <4>2, <3>1, <3>3, <2>1, <2>2
        <5> QED
          BY <5>1, <3>3 DEF Row
      <4> QED
        BY <4>1, <4>2, <3>1
    <3> QED
      BY <2>3, <3>2, <3>3, Remembered
  <2>7. AtTheLimit'
    BY <2>1, <2>2, MissesAssumption DEF AtTheLimit
  <2>8. OnceAlive' /\ DeadMeansFault'
    BY <2>1 DEF OnceAlive, DeadMeansFault, closeVars, boardVars
  <2> QED
    BY <2>5, <2>6, <2>7, <2>8
<1> QED
  BY <1>1, <1>2, <1>3 DEF Probing

\* The invariant is inductive.
LEMMA NextHolds == IInv /\ [Next]_vars => IInv'
<1>1. IInv /\ UNCHANGED vars => IInv'
  BY DEF vars, IInv, TypeOK, Row, AtTheLimit, OnceAlive, DeadMeansFault
<1> QED
  BY <1>1, WorldHolds, DeadwatchHolds, ProbingHolds, ReportingHolds DEF Next

\* The types hold, and the count of misses never passes the limit.
THEOREM TypeCorrect == Spec => []TypeOK
<1>1. IInv => TypeOK
  BY DEF IInv
<1> QED
  BY <1>1, InitHolds, NextHolds, PTL DEF Spec

\* The probe reports only a board that had answered and then left as many polls
\* in a row unanswered as the limit says, whatever the limit is.
THEOREM AlwaysInARow == Spec => []OnlyInARow
<1>1. IInv => OnlyInARow
  <2> SUFFICES ASSUME IInv, probe \in {"report", "sending"}
               PROVE  /\ answered /\ Len(recent) = ProbeMisses
                      /\ \A i \in 1 .. Len(recent) : recent[i] = "missed"
    BY DEF OnlyInARow
  <2>1. misses = ProbeMisses /\ Len(recent) \in Nat
    BY LenProperties DEF IInv, AtTheLimit, TypeOK
  <2> QED
    BY <2>1, MissesAssumption DEF IInv, TypeOK, Row, OnceAlive
<1> QED
  BY <1>1, InitHolds, NextHolds, PTL DEF Spec

-----------------------------------------------------------------------------
(* The refinement of FaultReport.                                           *)

\* What the main loop sees of the two goroutines.
Seen == [w \in {"dead", "probe"} |-> Stage(At(w))]

\* Only the stages a step changes are seen to change.
LEMMA SeenSame ==
  ASSUME Stage(dead') = Stage(dead), Stage(probe') = Stage(probe)
  PROVE  Seen' = Seen
  BY DEF Seen, At

\* A watcher that moves is seen to move, and the other not.
LEMMA SeenMoves ==
  ASSUME NEW w \in Watchers, NEW to, Goto(w, to)
  PROVE  Seen' = [Seen EXCEPT ![w] = Stage(to)]
<1>1. CASE w = "dead"
  BY <1>1 DEF Goto, Seen, At
<1>2. CASE w = "probe"
  BY <1>2 DEF Goto, Seen, At
<1> QED
  BY <1>1, <1>2 DEF Watchers

\* What FaultReport sees of each place of a watcher.
LEMMA StageValues ==
  /\ Stage("sending") = "reporting"
  /\ Stage("off") = "off"
  /\ \A pc \in {"wait", "tick", "poll", "report"} : Stage(pc) = "watching"
  BY DEF Stage

\* A step that neither closes watchDone nor fails the device nor moves a stage.
LEMMA Unseen ==
  ASSUME watchDone' = watchDone, fault' = fault, Seen' = Seen
  PROVE  UNCHANGED Promise!vars
  BY DEF Promise!vars, Seen

\* At first both watchers are watching, or were never started.
LEMMA InitReports == Init => Promise!Init
<1> SUFFICES ASSUME Init PROVE Promise!Init
  OBVIOUS
<1>1. Stage(dead) \in {"watching", "off"} /\ Stage(probe) \in {"watching", "off"}
  BY StageValues DEF Init
<1>2. Seen \in [{"dead", "probe"} -> {"watching", "off"}]
  BY <1>1 DEF Seen, At
<1>3. (~watchDone) = TRUE /\ fault = FALSE
  BY DEF Init, watchDone
<1> QED
  BY <1>2, <1>3 DEF Promise!Init, Promise!Watchers, Seen

\* Closing and the device: what is seen is that the modem is closed, and when
\* its device fails.
LEMMA WorldReports ==
  ASSUME IInv, Closing \/ DeviceFails \/ BoardTurns \/ Reply
  PROVE  [Promise!Next]_Promise!vars
<1>1. UNCHANGED <<dead, probe>>
  BY DEF Closing, CloseWatchDone, CloseModem, DeviceFails, BoardTurns, Reply
<1>2. Seen' = Seen
  BY <1>1, SeenSame
<1>3. CASE CloseWatchDone
  <2>1. (~watchDone)' = FALSE /\ fault' = fault
    BY <1>3 DEF CloseWatchDone, watchDone
  <2>2. Promise!Close
    BY <1>2, <2>1 DEF Promise!Close, Seen
  <2> QED
    BY <2>2 DEF Promise!Next
<1>4. CASE DeviceFails
  <2>1. ~watchDone /\ watchDone' = watchDone /\ fault' = TRUE
    BY <1>4 DEF DeviceFails, watchDone
  <2>2. Promise!Fail
    BY <1>2, <2>1 DEF Promise!Fail, Seen
  <2> QED
    BY <2>2 DEF Promise!Next
<1>5. CASE CloseModem \/ BoardTurns \/ Reply
  <2>1. watchDone' = watchDone /\ fault' = fault
    BY <1>5 DEF CloseModem, BoardTurns, Reply, closeVars, watchDone
  <2> QED
    BY <1>2, <2>1, Unseen
<1> QED
  BY <1>3, <1>4, <1>5 DEF Closing

\* A goroutine that has not set out to report is only seen to return, and only
\* once the modem is closed.
LEMMA WaitingReports ==
  ASSUME IInv, Deadwatch \/ Probing
  PROVE  [Promise!Next]_Promise!vars
<1>1. closing' = closing /\ fault' = fault /\ watchDone' = watchDone
  BY DEF Deadwatch, DeadFires, DeadStops, Probing, ProbeStops, ProbeAsks, ProbeUnsure,
         ProbeAnswered, ProbeMissed, closeVars, watchDone
<1>2. CASE DeadStops
  <2>1. Seen' = [Seen EXCEPT !["dead"] = "off"] /\ Seen["dead"] = "watching"
    BY <1>2, SeenMoves, StageValues DEF DeadStops, Goto, Watchers, Seen, At
  <2>2. Promise!Quit("dead")
    BY <1>1, <1>2, <2>1 DEF DeadStops, Promise!Quit, Seen
  <2> QED
    BY <2>2 DEF Promise!Next, Promise!Watchers
<1>3. CASE ProbeStops
  <2>1. Seen' = [Seen EXCEPT !["probe"] = "off"] /\ Seen["probe"] = "watching"
    BY <1>3, SeenMoves, StageValues DEF ProbeStops, Goto, Watchers, Seen, At
  <2>2. Promise!Quit("probe")
    BY <1>1, <1>3, <2>1 DEF ProbeStops, Promise!Quit, Seen
  <2> QED
    BY <2>2 DEF Promise!Next, Promise!Watchers
<1>4. CASE DeadFires \/ ProbeAsks \/ ProbeUnsure \/ ProbeAnswered \/ ProbeMissed
  <2>1. Stage(dead') = Stage(dead) /\ Stage(probe') = Stage(probe)
    BY <1>4, StageValues
       DEF DeadFires, ProbeAsks, ProbeUnsure, ProbeAnswered, ProbeMissed, PollOver
  <2> QED
    BY <1>1, <2>1, SeenSame, Unseen
<1> QED
  BY <1>2, <1>3, <1>4 DEF Deadwatch, Probing

\* report() is the fire of the abstract watcher, its delivery or its return.
LEMMA ReportingReports ==
  ASSUME IInv, Reporting
  PROVE  [Promise!Next]_Promise!vars
<1>1. PICK w \in Watchers : ReportChecks(w) \/ ReportTaken(w) \/ ReportAbandoned(w)
  BY DEF Reporting
<1>2. closing' = closing /\ fault' = fault /\ watchDone' = watchDone
  BY <1>1 DEF ReportChecks, ReportTaken, ReportAbandoned, closeVars, watchDone
<1>3. Seen[w] = Stage(At(w))
  BY DEF Seen, Watchers
<1>4. CASE ReportChecks(w) /\ ~watchDone
  <2>1. Seen' = [Seen EXCEPT ![w] = "reporting"] /\ Seen[w] = "watching"
    BY <1>3, <1>4, SeenMoves, StageValues DEF ReportChecks
  <2>2. w = "dead" => fault
    BY <1>4 DEF ReportChecks, At, IInv, DeadMeansFault, watchDone
  <2>3. Promise!Fire(w)
    BY <1>2, <1>4, <2>1, <2>2 DEF Promise!Fire, Seen
  <2> QED
    BY <2>3 DEF Promise!Next, Promise!Watchers, Watchers
<1>5. CASE (ReportChecks(w) \/ ReportAbandoned(w)) /\ watchDone
  <2>1. Seen' = [Seen EXCEPT ![w] = "off"] /\ Seen[w] # "off"
    BY <1>3, <1>5, SeenMoves, StageValues DEF ReportChecks, ReportAbandoned
  <2>2. Promise!Quit(w)
    BY <1>2, <1>5, <2>1 DEF Promise!Quit, Seen
  <2> QED
    BY <2>2 DEF Promise!Next, Promise!Watchers, Watchers
<1>6. CASE ReportTaken(w)
  <2>1. Seen' = [Seen EXCEPT ![w] = "off"] /\ Seen[w] = "reporting"
    BY <1>3, <1>6, SeenMoves, StageValues DEF ReportTaken
  <2>2. Promise!Deliver(w)
    BY <1>2, <1>6, <2>1 DEF Promise!Deliver, Seen
  <2> QED
    BY <2>2 DEF Promise!Next, Promise!Watchers, Watchers
<1> QED
  BY <1>1, <1>4, <1>5, <1>6 DEF ReportAbandoned

\* The goroutines implement what the main loop relies on: the one on Dead()
\* reports only a device that has really failed, none sets out to report a
\* closed modem, and one that has finished stays so.
THEOREM ImplementsFaultReport == Spec => ReportsFaithfully
<1>1. IInv /\ [Next]_vars => [Promise!Next]_Promise!vars
  <2>1. IInv /\ UNCHANGED vars => UNCHANGED Promise!vars
    BY SeenSame, Unseen DEF vars, watchDone
  <2> QED
    BY <2>1, WorldReports, WaitingReports, ReportingReports DEF Next
<1> QED
  BY <1>1, InitReports, InitHolds, NextHolds, PTL DEF Spec, ReportsFaithfully, Promise!Spec
=============================================================================
