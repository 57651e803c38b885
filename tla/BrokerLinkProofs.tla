-------------------------- MODULE BrokerLinkProofs --------------------------
(***************************************************************************)
(* The broker of BrokerLink, for any number of retry loops, clients and      *)
(* queued jobs.  Which loop is at work (Owned) is settled by the flag alone; *)
(* that in turn settles who may touch the client of a broker with basic      *)
(* auth (Basic), and so that it is neither left alone nor doubled.           *)
(***************************************************************************)
EXTENDS BrokerLink, FiniteSetTheorems, TLAPS

Working(l) == loop[l] \notin {"off", "begin"}
Dialling(l) == loop[l] \in {"dial", "adopt", "swap"}

\* The flag is up as long as the loop that raised it works.
OneOwner ==
  /\ \A l, m \in Loops : Working(l) /\ Working(m) => l = m
  /\ retrying = TRUE <=> \E l \in Loops : Working(l)

\* Stop cancels the context before anything else.
Cancelled == stopped \/ stop # "no" => ctxDone

\* A loop holds a client of its own from the dial until it is adopted.
Dialled == \A l \in Loops : new[l] \in Clients <=> Dialling(l)

\* With basic auth, the client in use is one loop's to replace: it dials another,
\* retires the old one before it adopts the new, and leaves it connected.
Replaced(l) ==
  /\ Dialling(l) => new[l] # client
  /\ loop[l] \in {"adopt", "swap"} => conn[new[l]] \in Live
  /\ loop[l] = "swap" => ~IsConnected(client)
  /\ loop[l] = "status" /\ ~ctxDone => IsConnected(client)

Basic ==
  auth = "basic" =>
    /\ refresh \in {"off", "tick"}
    /\ \A l \in Loops : Replaced(l)
    /\ Attended
    /\ BasicNoStray

IInv == TypeOK /\ OneOwner /\ Cancelled /\ Dialled /\ Basic

-----------------------------------------------------------------------------
(* The operators of the model.                                              *)

\* A full queue drops, so that it never outgrows its depth (enqueuePublish).
LEMMA EnqueueType ==
  ASSUME TypeOK, NEW s \in Statuses, Enqueue(s)
  PROVE  queue' \in Seq(Statuses) /\ Len(queue') <= QueueDepth
<1>1. queue \in Seq(Statuses) /\ Len(queue) <= QueueDepth /\ QueueDepth \in Nat
  BY DepthAssumption DEF TypeOK
<1> HIDE DEF Statuses
<1>2. Append(queue, s) \in Seq(Statuses) /\ Len(Append(queue, s)) = Len(queue) + 1
  BY <1>1
<1> QED
  BY <1>1, <1>2 DEF Enqueue

\* A connection made kicks the others, which reconnect: none of them ends.
LEMMA ConnectsLive ==
  ASSUME TypeOK, NEW c, Connects(c)
  PROVE  /\ conn' \in [Clients -> {"none", "dialing", "up", "reconnecting"}]
         /\ shown' \in Statuses \cup {"none"}
         /\ \A x \in Clients : conn'[x] \in Live <=> conn[x] \in Live \/ x = c
  BY DEF TypeOK, Connects, Kicked, WillShown, Live, Statuses

\* Dropping a client with the same ClientID leaves it live: paho reconnects it.
LEMMA KickedLive ==
  ASSUME TypeOK
  PROVE  /\ Kicked \in [Clients -> {"none", "dialing", "up", "reconnecting"}]
         /\ \A x \in Clients : Kicked[x] \in Live <=> conn[x] \in Live
  BY DEF TypeOK, Kicked, Live

\* Disconnect ends its own client and no other.
LEMMA DisconnectedLive ==
  ASSUME TypeOK, NEW c
  PROVE  /\ Disconnected(c) \in [Clients -> {"none", "dialing", "up", "reconnecting"}]
         /\ \A x \in Clients : Disconnected(c)[x] \in Live <=> conn[x] \in Live /\ x # c
  BY DEF TypeOK, Disconnected, Live

\* A client that dials was nobody's, and is not connected yet.
LEMMA BeginDialLive ==
  ASSUME TypeOK, NEW d \in Dialers, BeginDial(d)
  PROVE  /\ conn' \in [Clients -> {"none", "dialing", "up", "reconnecting"}]
         /\ new' \in [Dialers -> Clients \cup {Nil}]
         /\ new'[d] \in Clients /\ new'[d] # client
         /\ \A e \in Dialers \ {d} : new'[e] = new[e]
         /\ \A x \in Clients : conn'[x] \in Live <=> conn[x] \in Live
<1>1. PICK c \in Clients : /\ Unused(c) /\ new' = [new EXCEPT ![d] = c]
                           /\ conn' = [conn EXCEPT ![c] = "dialing"]
  BY DEF BeginDial
<1> QED
  BY <1>1 DEF TypeOK, Unused, Live

\* A loop dials, and is not the refresh.
LEMMA LoopsDial == ASSUME NEW l \in Loops PROVE l \in Dialers /\ l # "refresh"
  BY LoopsAssumption DEF Dialers

-----------------------------------------------------------------------------
\* At first one loop has been started and nothing is connected.
LEMMA InitHolds == Init => IInv
<1> SUFFICES ASSUME Init PROVE IInv
  OBVIOUS
<1>1. PICK l \in Loops : loop = [x \in Loops |-> IF x = l THEN "begin" ELSE "off"]
  BY DEF Init
<1>2. TypeOK
  <2>1. queue \in Seq(Statuses) /\ Len(queue) <= QueueDepth
    BY DepthAssumption DEF Init
  <2>2. reachable \in BOOLEAN /\ retrying \in BOOLEAN /\ ctxDone \in BOOLEAN /\ stopped \in BOOLEAN
    BY Zenon DEF Init
  <2>3. /\ auth \in AuthTypes /\ client \in Clients \cup {Nil}
        /\ conn \in [Clients -> {"none", "dialing", "up", "reconnecting"}]
        /\ loop \in [Loops -> {"off", "begin", "wait", "check", "dial", "adopt", "swap", "status"}]
        /\ new \in [Dialers -> Clients \cup {Nil}] /\ old \in [Dialers -> Clients \cup {Nil}]
    BY <1>1 DEF Init
  <2> QED
    BY <2>1, <2>2, <2>3 DEF Init, TypeOK
<1>3. OneOwner
  BY <1>1 DEF Init, OneOwner, Working
<1>4. Cancelled
  BY DEF Init, Cancelled
<1>5. Dialled
  BY <1>1, NilAssumption, LoopsDial DEF Init, Dialled, Dialling
<1>6. Basic
  BY <1>1 DEF Init, Basic, Replaced, Dialling, IsConnected, Attended, BasicNoStray, Live
<1> QED
  BY <1>2, <1>3, <1>4, <1>5, <1>6 DEF IInv

-----------------------------------------------------------------------------
(* Steps that leave the loops to themselves.                                *)

\* No client changes hands, none is connected or lost for good.
LEMMA ClientsKept ==
  ASSUME TypeOK, Dialled, Basic, UNCHANGED <<auth, client, new, loop, refresh>>, ctxDone => ctxDone',
         \A x \in Clients : conn'[x] \in Live <=> conn[x] \in Live
  PROVE  Basic'
<1> SUFFICES ASSUME auth = "basic"
             PROVE  /\ refresh' \in {"off", "tick"}
                    /\ \A l \in Loops : Replaced(l)'
                    /\ Attended'
                    /\ BasicNoStray'
  BY DEF Basic
<1>1. IsConnected(client)' <=> IsConnected(client)
  BY DEF TypeOK, IsConnected
<1>2. ASSUME NEW l \in Loops PROVE Replaced(l)'
  BY <1>1 DEF Basic, Replaced, Dialling, Dialled
<1>3. Attended'
  BY <1>1 DEF Basic, Attended
<1>4. BasicNoStray'
  BY DEF Basic, BasicNoStray
<1> QED
  BY <1>2, <1>3, <1>4 DEF Basic

-----------------------------------------------------------------------------
(* connectAndRetry.                                                         *)

\* Where a loop goes: the flag follows it, as long as it alone has the flag.
LEMMA OwnerGoes ==
  ASSUME TypeOK, OneOwner, NEW l \in Loops, Working(l), NEW to,
         \/ LoopGoes(l, to) /\ to \notin {"off", "begin"} /\ retrying' = retrying
         \/ LoopGoes(l, "off") /\ retrying' = FALSE
  PROVE  OneOwner'
<1>1. \A m \in Loops \ {l} : ~Working(m) /\ ~Working(m)'
  BY DEF TypeOK, OneOwner, LoopGoes, Working
<1> QED
  BY <1>1 DEF TypeOK, OneOwner, LoopGoes, Working

\* Of the loops none but the one at work has dialled, so no other is disturbed.
LEMMA BasicGoes ==
  ASSUME IInv, NEW l \in Loops, Working(l), NEW to, LoopGoes(l, to),
         UNCHANGED <<auth, refresh, ctxDone>>,
         auth = "basic" => Replaced(l)' /\ Attended' /\ BasicNoStray'
  PROVE  Basic'
<1>1. \A m \in Loops \ {l} : ~Working(m) /\ ~Working(m)'
  BY DEF IInv, TypeOK, OneOwner, LoopGoes, Working
<1>2. \A m \in Loops \ {l} : Replaced(m)'
  BY <1>1 DEF Working, Replaced, Dialling
<1> QED
  BY <1>2 DEF IInv, Basic

\* A loop at work is in none of the places of an idle one.
LEMMA AtWork ==
  ASSUME NEW l \in Loops, loop[l] \in {"wait", "check", "dial", "adopt", "swap", "status"}
  PROVE  Working(l)
  BY DEF Working

\* A loop's step keeps the types when what it writes has them.
LEMMA LoopTypes ==
  ASSUME TypeOK, NEW l \in Loops, LoopUnchanged,
         NEW to \in {"off", "begin", "wait", "check", "dial", "adopt", "swap", "status"},
         LoopGoes(l, to), retrying' \in BOOLEAN,
         client' \in Clients \cup {Nil},
         conn' \in [Clients -> {"none", "dialing", "up", "reconnecting"}],
         new' \in [Dialers -> Clients \cup {Nil}], old' \in [Dialers -> Clients \cup {Nil}],
         queue' \in Seq(Statuses), Len(queue') <= QueueDepth,
         shown' \in Statuses \cup {"none"}
  PROVE  TypeOK'
<1>1. loop' \in [Loops -> {"off", "begin", "wait", "check", "dial", "adopt", "swap", "status"}]
  BY DEF TypeOK, LoopGoes
<1>2. UNCHANGED <<auth, reachable, refresh, heartbeat, ctxDone, stopped, stop, worker, job>>
  BY DEF LoopUnchanged, stopVars
<1>3. reachable' \in BOOLEAN /\ ctxDone' \in BOOLEAN /\ stopped' \in BOOLEAN
  BY Zenon, <1>2 DEF TypeOK
<1> QED
  BY <1>1, <1>2, <1>3 DEF TypeOK

\* A loop that returns gives up the flag and whatever it held.
LEMMA ReturnsClean ==
  ASSUME TypeOK, OneOwner, Dialled, NEW l \in Loops, Working(l), LoopReturns(l)
  PROVE  /\ LoopGoes(l, "off") /\ retrying' \in BOOLEAN /\ OneOwner' /\ Dialled'
         /\ new' \in [Dialers -> Clients \cup {Nil}] /\ old' \in [Dialers -> Clients \cup {Nil}]
         /\ new'[l] = Nil /\ \A d \in Dialers \ {l} : new'[d] = new[d]
         /\ loop'[l] = "off"
<1>1. /\ LoopGoes(l, "off") /\ retrying' = FALSE
      /\ new' = [new EXCEPT ![l] = Nil] /\ old' = [old EXCEPT ![l] = Nil]
  BY DEF LoopReturns
<1>2. OneOwner'
  BY <1>1, OwnerGoes
<1>3. /\ new' \in [Dialers -> Clients \cup {Nil}] /\ old' \in [Dialers -> Clients \cup {Nil}]
      /\ new'[l] = Nil /\ loop'[l] = "off" /\ \A d \in Dialers \ {l} : new'[d] = new[d]
  BY <1>1, LoopsDial DEF TypeOK, LoopGoes
<1>4. retrying' \in BOOLEAN
  BY <1>1
<1>5. Dialled'
  BY <1>1, <1>3, NilAssumption, LoopsDial DEF TypeOK, Dialled, Dialling, LoopGoes
<1> QED
  BY <1>1, <1>2, <1>3, <1>4, <1>5

\* What a step of a loop leaves of the rest.
LEMMA LoopLeaves ==
  ASSUME IInv, LoopUnchanged
  PROVE  UNCHANGED <<auth, refresh, ctxDone, stopped, stop>> /\ Cancelled'
  BY DEF IInv, Cancelled, LoopUnchanged, stopVars

\* The flag was down, so no other loop is at work.
LEMMA LoopBeginsHolds ==
  ASSUME IInv, NEW l \in Loops, LoopBegins(l)
  PROVE  IInv'
<1>1. /\ LoopUnchanged /\ UNCHANGED <<shown, client, conn, new, old, queue>>
      /\ loop[l] = "begin" /\ retrying' = TRUE
      /\ \/ retrying = TRUE /\ LoopGoes(l, "off")
         \/ retrying = FALSE /\ LoopGoes(l, "wait")
  BY DEF LoopBegins, clientVars, Owned, IInv, TypeOK
<1>2. PICK to \in {"off", "wait"} : LoopGoes(l, to)
  BY <1>1
<1>3. TypeOK'
  <2>1. retrying' \in BOOLEAN
    BY <1>1
  <2> QED
    BY <1>1, <1>2, <2>1, LoopTypes DEF IInv, TypeOK
<1>4. OneOwner'
  BY <1>1 DEF IInv, TypeOK, OneOwner, Working, LoopGoes
<1>5. Dialled'
  BY <1>1 DEF IInv, TypeOK, Dialled, Dialling, LoopGoes
<1>6. Basic'
  <2>1. auth = "basic" => \A m \in Loops : Replaced(m)'
    BY <1>1, LoopLeaves DEF IInv, TypeOK, Basic, Replaced, Dialling, LoopGoes, IsConnected
  <2>2. auth = "basic" => Attended'
    <3>1. \E m \in Loops : loop'[m] # "off"
      BY <1>1 DEF IInv, TypeOK, OneOwner, Working, LoopGoes
    <3> QED
      BY <3>1 DEF Attended
  <2>3. auth = "basic" => BasicNoStray'
    BY <1>1, LoopLeaves DEF IInv, Basic, BasicNoStray
  <2> QED
    BY <2>1, <2>2, <2>3, <1>1, LoopLeaves DEF IInv, Basic
<1> QED
  BY <1>1, <1>3, <1>4, <1>5, <1>6, LoopLeaves DEF IInv

\* A loop that is cancelled leaves nobody, and need not.
LEMMA LoopStopsHolds ==
  ASSUME IInv, NEW l \in Loops, LoopStops(l)
  PROVE  IInv'
<1>1. /\ LoopUnchanged /\ UNCHANGED <<shown, client, conn, queue>> /\ LoopReturns(l)
      /\ Working(l) /\ loop[l] = "wait" /\ ctxDone = TRUE
  BY DEF LoopStops, clientVars, IInv, TypeOK, Cancelled, Working
<1>2. TypeOK'
  BY <1>1, ReturnsClean, LoopTypes DEF IInv, TypeOK
<1>3. Replaced(l)'
  BY <1>1, ReturnsClean DEF IInv, Replaced, Dialling
<1>4. auth = "basic" => Attended' /\ BasicNoStray'
  <2>1. \A d \in Dialers : new[d] \in Clients => new'[d] = new[d]
    BY <1>1, ReturnsClean, LoopsDial DEF IInv, Dialled, Dialling
  <2> QED
    BY <1>1, <2>1, LoopLeaves DEF IInv, Attended, Basic, BasicNoStray
<1> QED
  BY <1>1, <1>2, <1>3, <1>4, ReturnsClean, BasicGoes, LoopLeaves DEF IInv

\* The loop at work goes on to its check.
LEMMA LoopWakesHolds ==
  ASSUME IInv, NEW l \in Loops, LoopWakes(l)
  PROVE  IInv'
<1>1. /\ LoopUnchanged /\ UNCHANGED <<shown, client, conn, retrying, new, old, queue>>
      /\ LoopGoes(l, "check") /\ Working(l) /\ loop[l] = "wait"
  BY DEF LoopWakes, clientVars, Working
<1>2. TypeOK'
  BY <1>1, LoopTypes DEF IInv, TypeOK
<1>3. OneOwner'
  BY <1>1, OwnerGoes DEF IInv
<1>4. Dialled'
  BY <1>1 DEF IInv, TypeOK, Dialled, Dialling, LoopGoes
<1>5. loop'[l] = "check"
  BY <1>1 DEF IInv, TypeOK, LoopGoes
<1>6. Replaced(l)' /\ (auth = "basic" => Attended' /\ BasicNoStray')
  BY <1>1, <1>5, LoopLeaves DEF IInv, Basic, BasicNoStray, Attended, Replaced, Dialling
<1> QED
  BY <1>1, <1>2, <1>3, <1>4, <1>6, BasicGoes, LoopLeaves DEF IInv

\* A loop that finds the client connected may leave it.
LEMMA LoopFindsHealthyHolds ==
  ASSUME IInv, NEW l \in Loops, LoopFindsHealthy(l)
  PROVE  IInv'
<1>1. /\ LoopUnchanged /\ UNCHANGED <<shown, client, conn, queue>> /\ LoopReturns(l)
      /\ Working(l) /\ loop[l] = "check" /\ IsConnected(client)
  BY DEF LoopFindsHealthy, clientVars, Working
<1>2. TypeOK'
  BY <1>1, ReturnsClean, LoopTypes DEF IInv, TypeOK
<1>3. Replaced(l)'
  BY <1>1, ReturnsClean DEF IInv, Replaced, Dialling
<1>4. auth = "basic" => Attended' /\ BasicNoStray'
  <2>1. \A d \in Dialers : new[d] \in Clients => new'[d] = new[d]
    BY <1>1, ReturnsClean, LoopsDial DEF IInv, Dialled, Dialling
  <2> QED
    BY <1>1, <2>1, LoopLeaves DEF IInv, Attended, IsConnected, Basic, BasicNoStray
<1> QED
  BY <1>1, <1>2, <1>3, <1>4, ReturnsClean, BasicGoes, LoopLeaves DEF IInv

\* The client it dials with is neither the one in use nor another's.
LEMMA LoopDialsHolds ==
  ASSUME IInv, NEW l \in Loops, LoopDials(l)
  PROVE  IInv'
<1>1. /\ LoopUnchanged /\ UNCHANGED <<client, retrying, old, queue, shown>> /\ BeginDial(l)
      /\ LoopGoes(l, "dial") /\ Working(l) /\ loop[l] = "check"
  BY DEF LoopDials, BeginDial, Working
<1>2. /\ conn' \in [Clients -> {"none", "dialing", "up", "reconnecting"}]
      /\ new' \in [Dialers -> Clients \cup {Nil}]
      /\ new'[l] \in Clients /\ new'[l] # client
      /\ \A e \in Dialers \ {l} : new'[e] = new[e]
      /\ \A x \in Clients : conn'[x] \in Live <=> conn[x] \in Live
  BY <1>1, BeginDialLive, LoopsDial DEF IInv
<1>3. TypeOK'
  BY <1>1, <1>2, LoopTypes DEF IInv, TypeOK
<1>4. OneOwner'
  BY <1>1, OwnerGoes DEF IInv
<1>5. Dialled'
  BY <1>1, <1>2, LoopsDial DEF IInv, TypeOK, Dialled, Dialling, LoopGoes
<1>6. loop'[l] = "dial"
  BY <1>1 DEF IInv, TypeOK, LoopGoes
<1>7. Replaced(l)'
  BY <1>1, <1>2, <1>6 DEF Replaced
<1>8. auth = "basic" => Attended' /\ BasicNoStray'
  <2>1. new[l] \notin Clients
    BY <1>1 DEF IInv, Dialled, Dialling
  <2> QED
    BY <1>1, <1>2, <1>6, <2>1, LoopLeaves DEF IInv, Attended, Basic, BasicNoStray
<1> QED
  BY <1>1, <1>3, <1>4, <1>5, <1>7, <1>8, BasicGoes, LoopLeaves DEF IInv

\* The connection it makes is about to be adopted.
LEMMA LoopConnectsHolds ==
  ASSUME IInv, NEW l \in Loops, LoopConnects(l)
  PROVE  IInv'
<1>1. /\ LoopUnchanged /\ UNCHANGED <<client, retrying, new, old, queue>> /\ Connects(new[l])
      /\ LoopGoes(l, "adopt") /\ Working(l) /\ loop[l] = "dial"
  BY DEF LoopConnects, DialSucceeds, Working
<1>2. /\ conn' \in [Clients -> {"none", "dialing", "up", "reconnecting"}]
      /\ shown' \in Statuses \cup {"none"}
      /\ \A x \in Clients : conn'[x] \in Live <=> conn[x] \in Live \/ x = new[l]
  BY <1>1, ConnectsLive DEF IInv
<1>3. TypeOK'
  BY <1>1, <1>2, LoopTypes DEF IInv, TypeOK
<1>4. OneOwner'
  BY <1>1, OwnerGoes DEF IInv
<1>5. Dialled'
  BY <1>1 DEF IInv, TypeOK, Dialled, Dialling, LoopGoes
<1>6. loop'[l] = "adopt" /\ new[l] \in Clients
  BY <1>1 DEF IInv, TypeOK, LoopGoes, Dialled, Dialling
<1>7. auth = "basic" => Replaced(l)'
  BY <1>1, <1>2, <1>6 DEF IInv, Basic, Replaced, Dialling
<1>8. auth = "basic" => Attended' /\ BasicNoStray'
  BY <1>1, <1>2, <1>6, LoopLeaves, LoopsDial DEF IInv, Attended, Basic, BasicNoStray
<1> QED
  BY <1>1, <1>3, <1>4, <1>5, <1>7, <1>8, BasicGoes, LoopLeaves DEF IInv

\* A dial that fails ends the client it made, which is not the one in use.
LEMMA DialFailsKeeps ==
  ASSUME IInv, NEW l \in Loops, Dialling(l), conn' = Disconnected(new[l]),
         new' = [new EXCEPT ![l] = Nil], UNCHANGED client, auth = "basic"
  PROVE  BasicNoStray' /\ (IsConnected(client)' <=> IsConnected(client))
<1>1. \A x \in Clients : conn'[x] \in Live <=> conn[x] \in Live /\ x # new[l]
  BY DisconnectedLive DEF IInv
<1>2. \A d \in Dialers \ {l} : new'[d] = new[d]
  BY DEF IInv, TypeOK
<1>3. new[l] # client
  BY DEF IInv, Basic, Replaced
<1>4. IsConnected(client)' <=> IsConnected(client)
  BY <1>1, <1>3 DEF IInv, TypeOK, IsConnected
<1>5. BasicNoStray'
  BY <1>1, <1>2, LoopsDial DEF IInv, Basic, BasicNoStray
<1> QED
  BY <1>4, <1>5

\* A dial that fails leaves no connection behind.
LEMMA LoopMissesHolds ==
  ASSUME IInv, NEW l \in Loops, LoopMisses(l)
  PROVE  IInv'
<1>1. /\ LoopUnchanged /\ UNCHANGED <<client, retrying, old, queue, shown>>
      /\ conn' = Disconnected(new[l]) /\ new' = [new EXCEPT ![l] = Nil]
      /\ LoopGoes(l, "wait") /\ Working(l) /\ loop[l] = "dial"
  BY DEF LoopMisses, DialFails, Working
<1>2. /\ conn' \in [Clients -> {"none", "dialing", "up", "reconnecting"}]
      /\ new' \in [Dialers -> Clients \cup {Nil}]
      /\ new'[l] = Nil /\ \A d \in Dialers \ {l} : new'[d] = new[d]
  BY <1>1, DisconnectedLive, LoopsDial DEF IInv, TypeOK
<1>3. TypeOK'
  BY <1>1, <1>2, LoopTypes DEF IInv, TypeOK
<1>4. OneOwner'
  BY <1>1, OwnerGoes DEF IInv
<1>5. Dialled'
  BY <1>1, <1>2, NilAssumption, LoopsDial DEF IInv, TypeOK, Dialled, Dialling, LoopGoes
<1>6. loop'[l] = "wait"
  BY <1>1 DEF IInv, TypeOK, LoopGoes
<1>7. Replaced(l)'
  BY <1>6 DEF Replaced, Dialling
<1>8. auth = "basic" => Attended' /\ BasicNoStray'
  BY <1>1, <1>6, DialFailsKeeps DEF Attended, Dialling
<1> QED
  BY <1>1, <1>3, <1>4, <1>5, <1>7, <1>8, BasicGoes, LoopLeaves DEF IInv

\* Too late for Stop: the client is ended as after a dial that failed.
LEMMA LoopTooLateHolds ==
  ASSUME IInv, NEW l \in Loops, LoopTooLate(l)
  PROVE  IInv'
<1>1. /\ LoopUnchanged /\ UNCHANGED <<client, queue, shown>> /\ LoopReturns(l)
      /\ conn' = Disconnected(new[l]) /\ new' = [new EXCEPT ![l] = Nil]
      /\ Working(l) /\ loop[l] = "adopt" /\ ctxDone = TRUE
  BY DEF LoopTooLate, LoopReturns, Working, IInv, TypeOK, Cancelled
<1>2. TypeOK'
  BY <1>1, ReturnsClean, DisconnectedLive, LoopTypes DEF IInv, TypeOK
<1>3. Replaced(l)'
  BY <1>1, ReturnsClean DEF IInv, Replaced, Dialling
<1>4. auth = "basic" => Attended' /\ BasicNoStray'
  BY <1>1, DialFailsKeeps, LoopLeaves DEF Attended, Dialling
<1> QED
  BY <1>1, <1>2, <1>3, <1>4, ReturnsClean, BasicGoes, LoopLeaves DEF IInv

\* The client in use is disconnected before it is replaced.
LEMMA LoopRetiresHolds ==
  ASSUME IInv, NEW l \in Loops, LoopRetires(l)
  PROVE  IInv'
<1>1. /\ LoopUnchanged /\ UNCHANGED <<shown, client, retrying, new, old, queue>>
      /\ conn' = Disconnected(client)
      /\ LoopGoes(l, "swap") /\ Working(l) /\ loop[l] = "adopt"
  BY DEF LoopRetires, Working
<1>2. /\ conn' \in [Clients -> {"none", "dialing", "up", "reconnecting"}]
      /\ \A x \in Clients : conn'[x] \in Live <=> conn[x] \in Live /\ x # client
  BY <1>1, DisconnectedLive DEF IInv
<1>3. TypeOK'
  BY <1>1, <1>2, LoopTypes DEF IInv, TypeOK
<1>4. OneOwner'
  BY <1>1, OwnerGoes DEF IInv
<1>5. Dialled'
  BY <1>1 DEF IInv, TypeOK, Dialled, Dialling, LoopGoes
<1>6. loop'[l] = "swap" /\ new[l] \in Clients
  BY <1>1 DEF IInv, TypeOK, LoopGoes, Dialled, Dialling
<1>7. auth = "basic" => Replaced(l)'
  BY <1>1, <1>2, <1>6 DEF IInv, TypeOK, Basic, Replaced, Dialling, IsConnected
<1>8. auth = "basic" => Attended' /\ BasicNoStray'
  BY <1>1, <1>2, <1>6, LoopLeaves DEF IInv, Attended, Basic, BasicNoStray
<1> QED
  BY <1>1, <1>3, <1>4, <1>5, <1>7, <1>8, BasicGoes, LoopLeaves DEF IInv

\* The client that is adopted is connected, and the one it replaces is not.
LEMMA LoopSwapsHolds ==
  ASSUME IInv, NEW l \in Loops, LoopSwaps(l)
  PROVE  IInv'
<1>1. /\ LoopUnchanged /\ UNCHANGED <<shown, conn, retrying, old, queue>>
      /\ client' = new[l] /\ new' = [new EXCEPT ![l] = Nil]
      /\ LoopGoes(l, "status") /\ Working(l) /\ loop[l] = "swap"
  BY DEF LoopSwaps, Working
<1>2. /\ new' \in [Dialers -> Clients \cup {Nil}]
      /\ new'[l] = Nil /\ \A d \in Dialers \ {l} : new'[d] = new[d]
      /\ new[l] \in Clients
  BY <1>1, LoopsDial DEF IInv, TypeOK, Dialled, Dialling
<1>3. TypeOK'
  BY <1>1, <1>2, LoopTypes DEF IInv, TypeOK
<1>4. OneOwner'
  BY <1>1, OwnerGoes DEF IInv
<1>5. Dialled'
  BY <1>1, <1>2, NilAssumption, LoopsDial DEF IInv, TypeOK, Dialled, Dialling, LoopGoes
<1>6. loop'[l] = "status"
  BY <1>1 DEF IInv, TypeOK, LoopGoes
<1>7. auth = "basic" => IsConnected(client)' /\ ~IsConnected(client)
  BY <1>1, <1>2, NilAssumption DEF IInv, Basic, Replaced, IsConnected
<1>8. auth = "basic" => Replaced(l)'
  BY <1>6, <1>7 DEF Replaced, Dialling
<1>9. auth = "basic" => Attended' /\ BasicNoStray'
  BY <1>1, <1>2, <1>6, <1>7, NilAssumption DEF IInv, IsConnected, Attended, Basic, BasicNoStray
<1> QED
  BY <1>1, <1>3, <1>4, <1>5, <1>8, <1>9, BasicGoes, LoopLeaves DEF IInv

\* The loop returns from a client that is connected, or from an observer cancelled.
LEMMA LoopPublishesHolds ==
  ASSUME IInv, NEW l \in Loops, LoopPublishes(l)
  PROVE  IInv'
<1>1. /\ LoopUnchanged /\ UNCHANGED <<shown, client, conn>> /\ LoopReturns(l)
      /\ Enqueue("online") /\ Working(l) /\ loop[l] = "status"
  BY DEF LoopPublishes, clientVars, Working
<1>2. TypeOK'
  <2>1. queue' \in Seq(Statuses) /\ Len(queue') <= QueueDepth
    BY <1>1, EnqueueType DEF IInv, Statuses
  <2> QED
    BY <1>1, <2>1, ReturnsClean, LoopTypes DEF IInv, TypeOK
<1>3. Replaced(l)'
  BY <1>1, ReturnsClean DEF IInv, Replaced, Dialling
<1>4. auth = "basic" => Attended' /\ BasicNoStray'
  <2>1. \A d \in Dialers : new[d] \in Clients => new'[d] = new[d]
    BY <1>1, ReturnsClean, LoopsDial DEF IInv, Dialled, Dialling
  <2>2. auth = "basic" /\ ~ctxDone => IsConnected(client)
    BY <1>1 DEF IInv, Basic, Replaced
  <2> QED
    BY <1>1, <2>1, <2>2, LoopLeaves DEF IInv, Attended, IsConnected, Basic, BasicNoStray
<1> QED
  BY <1>1, <1>2, <1>3, <1>4, ReturnsClean, BasicGoes, LoopLeaves DEF IInv

\* Every step of a loop.
LEMMA LoopHolds == ASSUME IInv, NEW l \in Loops, Loop(l) PROVE IInv'
  BY LoopBeginsHolds, LoopStopsHolds, LoopWakesHolds, LoopFindsHealthyHolds, LoopDialsHolds,
     LoopConnectsHolds, LoopMissesHolds, LoopTooLateHolds, LoopRetiresHolds, LoopSwapsHolds,
     LoopPublishesHolds
  DEF Loop

-----------------------------------------------------------------------------
(* tokenRefreshLoop: with basic auth it only ends.                          *)

\* The refresh may start one more loop; with basic auth it does nothing.
LEMMA RefreshHolds == ASSUME IInv, Refresh PROVE IInv'
<1>1. /\ UNCHANGED <<auth, reachable, heartbeat, ctxDone, stopped, stop, worker, job>>
      /\ UNCHANGED retrying
      /\ \A l \in Loops : new'[l] = new[l]
  BY LoopsDial
     DEF Refresh, RefreshEnds, RefreshTicks, RefreshMisses, RefreshDisconnects, RefreshRetries,
         RefreshConnects, RefreshReads, RefreshSwaps, RefreshRetires, RefreshPublishes,
         RefreshUnchanged, stopVars, BeginDial, DialFails, DialSucceeds, IInv, TypeOK
<1>2. refresh' \in {"off", "tick", "dial", "drop", "dropped", "adopt", "swap", "retire", "status"}
  BY DEF Refresh, RefreshEnds, RefreshTicks, RefreshMisses, RefreshDisconnects, RefreshRetries,
         RefreshConnects, RefreshReads, RefreshSwaps, RefreshRetires, RefreshPublishes, RefreshGoes
<1>3. loop' = loop \/ \E l \in Loops : loop[l] = "off" /\ LoopGoes(l, "begin")
  BY DEF Refresh, RefreshEnds, RefreshTicks, RefreshMisses, RefreshDisconnects, RefreshRetries,
         RefreshConnects, RefreshReads, RefreshSwaps, RefreshRetires, RefreshPublishes
<1>4. "refresh" \in Dialers
  BY DEF Dialers
<1>5. /\ client' \in Clients \cup {Nil}
      /\ new' \in [Dialers -> Clients \cup {Nil}] /\ old' \in [Dialers -> Clients \cup {Nil}]
      /\ conn' \in [Clients -> {"none", "dialing", "up", "reconnecting"}]
      /\ shown' \in Statuses \cup {"none"}
      /\ queue' \in Seq(Statuses) /\ Len(queue') <= QueueDepth
  <2>1. CASE RefreshEnds
    BY <2>1 DEF RefreshEnds, clientVars, IInv, TypeOK
  <2>2. CASE RefreshTicks
    BY <2>2, <1>4, BeginDialLive DEF RefreshTicks, BeginDial, IInv, TypeOK
  <2>3. CASE RefreshMisses
    BY <2>3, <1>4, DisconnectedLive DEF RefreshMisses, DialFails, IInv, TypeOK
  <2>4. CASE RefreshDisconnects
    BY <2>4, DisconnectedLive DEF RefreshDisconnects, IInv, TypeOK
  <2>5. CASE RefreshRetries
    BY <2>5 DEF RefreshRetries, IInv, TypeOK
  <2>6. CASE RefreshConnects
    BY <2>6, ConnectsLive DEF RefreshConnects, DialSucceeds, IInv, TypeOK
  <2>7. CASE RefreshReads
    BY <2>7 DEF RefreshReads, clientVars, IInv, TypeOK
  <2>8. CASE RefreshSwaps
    BY <2>8, <1>4 DEF RefreshSwaps, IInv, TypeOK
  <2>9. CASE RefreshRetires
    BY <2>9, DisconnectedLive DEF RefreshRetires, IInv, TypeOK
  <2>10. CASE RefreshPublishes
    <3>1. queue' \in Seq(Statuses) /\ Len(queue') <= QueueDepth
      BY <2>10, EnqueueType DEF RefreshPublishes, IInv, Statuses
    <3> QED
      BY <2>10, <3>1 DEF RefreshPublishes, clientVars, IInv, TypeOK
  <2> QED
    BY <2>1, <2>2, <2>3, <2>4, <2>5, <2>6, <2>7, <2>8, <2>9, <2>10 DEF Refresh
<1>6. TypeOK'
  <2>1. loop' \in [Loops -> {"off", "begin", "wait", "check", "dial", "adopt", "swap", "status"}]
    BY <1>3 DEF LoopGoes, IInv, TypeOK
  <2>2. /\ reachable' \in BOOLEAN /\ retrying' \in BOOLEAN
        /\ ctxDone' \in BOOLEAN /\ stopped' \in BOOLEAN
    BY Zenon, <1>1 DEF IInv, TypeOK
  <2> QED
    BY <1>1, <1>2, <1>5, <2>1, <2>2 DEF IInv, TypeOK
<1>7. OneOwner'
  <2>1. \A l \in Loops : Working(l)' <=> Working(l)
    BY <1>3 DEF Working, LoopGoes, IInv, TypeOK
  <2> QED
    BY <1>1, <2>1 DEF IInv, OneOwner
<1>8. Cancelled'
  BY <1>1 DEF IInv, Cancelled
<1>9. Dialled'
  <2>1. \A l \in Loops : Dialling(l)' <=> Dialling(l)
    BY <1>3 DEF Dialling, LoopGoes, IInv, TypeOK
  <2> QED
    BY <1>1, <2>1 DEF IInv, Dialled
<1>10. Basic'
  <2>1. auth = "basic" => RefreshEnds
    BY DEF IInv, Basic, Refresh, RefreshTicks, RefreshMisses, RefreshDisconnects, RefreshRetries,
           RefreshConnects, RefreshReads, RefreshSwaps, RefreshRetires, RefreshPublishes
  <2>2. CASE auth = "basic"
    <3>1. UNCHANGED <<client, conn, loop, new>> /\ refresh' = "off" /\ ctxDone = TRUE
      BY <2>1, <2>2 DEF RefreshEnds, RefreshGoes, clientVars, IInv, TypeOK
    <3> QED
      BY <1>1, <2>2, <3>1
         DEF IInv, Basic, Replaced, Dialling, IsConnected, Attended, BasicNoStray
  <2> QED
    BY <1>1, <2>2 DEF Basic
<1> QED
  BY <1>6, <1>7, <1>8, <1>9, <1>10 DEF IInv

-----------------------------------------------------------------------------
(* The heartbeat, the worker, Stop and the broker leave the loops alone.    *)

\* Each of them keeps who holds which client, and what is connected.
LEMMA LoopsKept ==
  ASSUME IInv, UNCHANGED <<auth, client, loop, refresh, new, retrying>>, ctxDone => ctxDone',
         \A x \in Clients : conn'[x] \in Live <=> conn[x] \in Live
  PROVE  OneOwner' /\ Dialled' /\ Basic'
<1>1. OneOwner' /\ Dialled'
  BY DEF IInv, OneOwner, Working, Dialled, Dialling
<1> QED
  BY <1>1, ClientsKept DEF IInv

\* The heartbeat touches the queue alone.
LEMMA HeartbeatHolds ==
  ASSUME IInv, HeartbeatEnds \/ HeartbeatTicks \/ HeartbeatPublishes
  PROVE  IInv'
<1>1. /\ UNCHANGED <<auth, client, conn, reachable, shown, loop, refresh, new, old, retrying>>
      /\ UNCHANGED <<ctxDone, stopped, stop, worker, job>>
      /\ heartbeat' \in {"off", "tick", "status"}
      /\ queue' = queue \/ Enqueue("online")
  BY DEF HeartbeatEnds, HeartbeatTicks, HeartbeatPublishes, HeartbeatUnchanged,
         clientVars, brokerVars, stopVars
<1>2. queue' \in Seq(Statuses) /\ Len(queue') <= QueueDepth
  <2>1. CASE queue' = queue
    BY <2>1 DEF IInv, TypeOK
  <2>2. CASE Enqueue("online")
    BY <2>2, EnqueueType DEF IInv, Statuses
  <2> QED
    BY <1>1, <2>1, <2>2
<1>3. TypeOK'
  BY <1>1, <1>2 DEF IInv, TypeOK
<1>4. Cancelled'
  BY <1>1 DEF IInv, Cancelled
<1> QED
  BY <1>1, <1>3, <1>4, LoopsKept DEF IInv

\* The worker touches the queue, what the broker shows and its own job.
LEMMA WorkerHolds ==
  ASSUME IInv, Worker
  PROVE  IInv'
<1>1. /\ UNCHANGED <<auth, client, conn, reachable, loop, refresh, heartbeat, new, old, retrying>>
      /\ UNCHANGED <<ctxDone, stopped, stop>>
      /\ worker' \in {"run", "drain", "done"}
  BY DEF Worker, WorkerTakes, Publish, WorkerStops, WorkerExits, WorkerUnchanged,
         clientVars, goVars, stopVars, IInv, TypeOK
<1>2. /\ queue' \in Seq(Statuses) /\ Len(queue') <= QueueDepth
      /\ job' \in Statuses \cup {"none"} /\ shown' \in Statuses \cup {"none"}
  <2>1. /\ queue \in Seq(Statuses) /\ Len(queue) <= QueueDepth /\ QueueDepth \in Nat
        /\ job \in Statuses \cup {"none"} /\ shown \in Statuses \cup {"none"}
    BY DepthAssumption DEF IInv, TypeOK
  <2>2. CASE WorkerTakes
    <3>1. queue # <<>> /\ queue' = Tail(queue) /\ job' = Head(queue) /\ shown' = shown
      BY <2>2 DEF WorkerTakes
    <3> HIDE DEF Statuses
    <3> QED
      BY <2>1, <3>1
  <2>3. CASE Publish
    BY <2>1, <2>3 DEF Publish
  <2>4. CASE WorkerStops \/ WorkerExits
    BY <2>1, <2>4 DEF WorkerStops, WorkerExits
  <2> QED
    BY <2>2, <2>3, <2>4 DEF Worker
<1>3. TypeOK'
  BY <1>1, <1>2 DEF IInv, TypeOK
<1>4. Cancelled'
  BY <1>1 DEF IInv, Cancelled
<1> QED
  BY <1>1, <1>3, <1>4, LoopsKept DEF IInv

\* Only its last step touches a client, when nobody need attend it any more.
LEMMA StopHolds ==
  ASSUME IInv, ParentCancels \/ Stop
  PROVE  IInv'
<1>1. /\ UNCHANGED <<auth, client, reachable, shown, loop, refresh, heartbeat, new, old, retrying>>
      /\ UNCHANGED <<worker, job>>
      /\ ctxDone => ctxDone'
      /\ ctxDone' = ctxDone \/ ctxDone' = TRUE
      /\ stopped' = stopped \/ stopped' = TRUE
      /\ stop' \in {"no", "offline", "close", "wait", "disconnect", "done"}
      /\ conn' = conn \/ StopDisconnects
      /\ queue' = queue \/ Enqueue("offline")
  BY DEF ParentCancels, Stop, StopBegins, StopPublishes, StopCloses, StopWaited, StopDisconnects,
         StopUnchanged, goVars, brokerVars, IInv, TypeOK
<1>2. queue' \in Seq(Statuses) /\ Len(queue') <= QueueDepth
  <2>1. CASE queue' = queue
    BY <2>1 DEF IInv, TypeOK
  <2>2. CASE Enqueue("offline")
    BY <2>2, EnqueueType DEF IInv, Statuses
  <2> QED
    BY <1>1, <2>1, <2>2
<1>3. TypeOK'
  <2>1. ctxDone' \in BOOLEAN /\ stopped' \in BOOLEAN
    BY Zenon, <1>1 DEF IInv, TypeOK
  <2>2. conn' \in [Clients -> {"none", "dialing", "up", "reconnecting"}]
    BY <1>1, DisconnectedLive DEF StopDisconnects, IInv, TypeOK
  <2> QED
    BY <1>1, <1>2, <2>1, <2>2 DEF IInv, TypeOK
<1>4. Cancelled'
  BY DEF ParentCancels, Stop, StopBegins, StopPublishes, StopCloses, StopWaited, StopDisconnects,
         IInv, Cancelled
<1>5. CASE conn' = conn
  BY <1>1, <1>3, <1>4, <1>5, LoopsKept DEF IInv
<1>6. CASE StopDisconnects
  <2>1. ctxDone' = TRUE
    BY <1>6 DEF StopDisconnects, IInv, TypeOK, Cancelled
  <2>2. \A x \in Clients : conn'[x] \in Live <=> conn[x] \in Live /\ x # client
    BY <1>6, DisconnectedLive DEF StopDisconnects, IInv
  <2>3. OneOwner' /\ Dialled'
    BY <1>1 DEF IInv, OneOwner, Working, Dialled, Dialling
  <2>4. auth = "basic" => \A l \in Loops : Replaced(l)'
    BY <1>1, <2>1, <2>2 DEF IInv, TypeOK, Dialled, Basic, Replaced, Dialling, IsConnected
  <2>5. auth = "basic" => Attended' /\ BasicNoStray'
    BY <1>1, <2>1, <2>2 DEF IInv, Basic, Attended, BasicNoStray
  <2>6. Basic'
    BY <1>1, <2>4, <2>5 DEF IInv, Basic
  <2> QED
    BY <1>3, <1>4, <2>3, <2>6 DEF IInv
<1> QED
  BY <1>1, <1>5, <1>6

\* A connection that is lost is paho's to restore.
LEMMA BrokerHolds ==
  ASSUME IInv, BrokerLost \/ BrokerBack \/ \E c \in Clients : Reconnect(c)
  PROVE  IInv'
<1>1. /\ UNCHANGED <<auth, client>>
      /\ UNCHANGED <<loop, refresh, heartbeat, new, old, retrying>>
      /\ UNCHANGED <<ctxDone, stopped, stop, queue, worker, job>>
      /\ reachable' = TRUE \/ reachable' = FALSE
  BY DEF BrokerLost, BrokerBack, Reconnect, clientVars, goVars, stopVars, queueVars, IInv, TypeOK
<1>2. /\ conn' \in [Clients -> {"none", "dialing", "up", "reconnecting"}]
      /\ shown' \in Statuses \cup {"none"}
      /\ \A x \in Clients : conn'[x] \in Live <=> conn[x] \in Live
  <2>1. CASE BrokerLost
    BY <2>1, KickedLive DEF BrokerLost, WillShown, Statuses, IInv, TypeOK
  <2>2. CASE BrokerBack
    BY <2>2 DEF BrokerBack, clientVars, IInv, TypeOK
  <2>3. ASSUME NEW c \in Clients, Reconnect(c)
        PROVE  /\ conn' \in [Clients -> {"none", "dialing", "up", "reconnecting"}]
               /\ shown' \in Statuses \cup {"none"}
               /\ \A x \in Clients : conn'[x] \in Live <=> conn[x] \in Live
    BY <2>3, ConnectsLive DEF Reconnect, Live, IInv
  <2> QED
    BY <2>1, <2>2, <2>3
<1>3. TypeOK'
  <2>1. reachable' \in BOOLEAN
    BY <1>1
  <2> QED
    BY <1>1, <1>2, <2>1 DEF IInv, TypeOK
<1>4. Cancelled'
  BY <1>1 DEF IInv, Cancelled
<1> QED
  BY <1>1, <1>2, <1>3, <1>4, LoopsKept DEF IInv

-----------------------------------------------------------------------------
\* The invariant is inductive.
LEMMA NextHolds == IInv /\ [Next]_vars => IInv'
<1> SUFFICES ASSUME IInv, [Next]_vars PROVE IInv'
  OBVIOUS
<1>1. CASE UNCHANGED vars
  <2>1. /\ UNCHANGED <<auth, client, conn, reachable, shown, goVars, stopVars, queueVars>>
        /\ UNCHANGED <<loop, refresh, heartbeat, new, old, retrying>>
        /\ UNCHANGED <<ctxDone, stopped, stop, queue, worker, job>>
    BY <1>1 DEF vars, clientVars, brokerVars, goVars, stopVars, queueVars
  <2>2. TypeOK' /\ Cancelled'
    BY <2>1 DEF IInv, TypeOK, Cancelled
  <2> QED
    BY <2>1, <2>2, LoopsKept DEF IInv
<1> QED
  BY <1>1, LoopHolds, RefreshHolds, HeartbeatHolds, WorkerHolds, StopHolds, BrokerHolds DEF Next

\* It holds always.
LEMMA Invariance == Spec => []IInv
  BY InitHolds, NextHolds, PTL DEF Spec

\* Every variable keeps its type; the publish queue keeps to its depth.
THEOREM TypeCorrect == Spec => []TypeOK
<1>1. IInv => TypeOK
  BY DEF IInv
<1> QED
  BY <1>1, Invariance, PTL

\* At most one connectAndRetry works on a broker at a time (bc.retrying).
THEOREM OneLoopAtWork == Spec => []OneLoop
<1>1. IInv => OneLoop
  <2> SUFFICES ASSUME IInv PROVE OneLoop
    OBVIOUS
  <2> DEFINE W == {l \in Loops : loop[l] \notin {"off", "begin"}}
  <2>1. W = {} \/ \E l \in Loops : W = {l}
    BY DEF IInv, OneOwner, Working
  <2>2. Cardinality(W) = 0 \/ Cardinality(W) = 1
    BY <2>1, FS_EmptySet, FS_Singleton
  <2> QED
    BY <2>2 DEF OneLoop
<1> QED
  BY <1>1, Invariance, PTL

\* A broker with basic auth is connected, or a loop sees to it (connectAndRetry).
THEOREM BasicIsAttended == Spec => []BasicAttended
<1>1. IInv => BasicAttended
  BY DEF IInv, Basic, BasicAttended
<1> QED
  BY <1>1, Invariance, PTL

\* A broker with basic auth has no connection that nobody would end.
THEOREM BasicHasNoStray == Spec => []BasicNoStray
<1>1. IInv => BasicNoStray
  BY DEF IInv, Basic, BasicNoStray
<1> QED
  BY <1>1, Invariance, PTL

=============================================================================
