----------------------------- MODULE BotsProofs -----------------------------
(***************************************************************************)
(* The bots of Bots, for any configs, names, channels and number of starts. *)
(* Three invariants are kept apart: Muxed is about what main holds and what *)
(* is on the mux, Registered about the triggers and callbacks, Sent about   *)
(* the air; the callbacks leave the first alone, and main the last.         *)
(***************************************************************************)
EXTENDS Bots, TLAPS

Failed == why \in {"upFails", "reloadFails"}
Stopping == {"stopObservers", "stopBots", "stopTriggers", "stopNode"}

\* The bot between NewBot and the end of its Start.
Pending == IF pc = "triggers" THEN {Current} ELSE {}

\* An observer that stayed on the mux when its start failed.
Unnamed == {x \in onMux : x[1] \in DOMAIN gens /\ x[2] = 0 /\ gens[x[1]].observer = "unnamed"}

\* main's place in startBots, and the calls of it that are left.
Placed ==
  /\ k \in Nat \ {0} /\ i \in Nat
  /\ pc \notin {"down", "gone"} => Gen \in DOMAIN gens
  /\ pc = "triggers" => k \in DOMAIN Cfg(Gen).bots
  /\ why = "reload" /\ pc \in Stopping => Gen < MaxGens
  /\ pc \in {"bots", "triggers", "select"} => ~Failed

\* What main holds is on the mux, and only a failure leaves other bots on it.
Held ==
  /\ running \subseteq Nat \X (Nat \ {0})
  /\ observer = Nil \/ (observer = <<observer[1], 0>> /\ pc \in {"select", "stopObservers"})
  /\ running \cup Pending \cup ({observer} \ {Nil}) \subseteq onMux
  /\ live \subseteq running \cup Pending
  /\ pc \in {"stopTriggers", "stopNode"} => First \notin live
  /\ pc \in {"down", "gone"} => running = {} /\ onMux = {}
  /\ ~Failed => onMux \subseteq running \cup Pending \cup ({observer} \ {Nil}) \cup Unnamed

MainTypeOK ==
  /\ pc \in {"down", "bots", "triggers", "observers", "select",
             "stopObservers", "stopBots", "stopTriggers", "stopNode", "gone"}
  /\ why \in {"up", "reload", "modem", "exit", "upFails", "reloadFails"}
  /\ next \in Configs /\ gens \in Seq(Configs) /\ Len(gens) <= MaxGens
  /\ terminated \in BOOLEAN

Muxed == MainTypeOK /\ Placed /\ Held

\* A trigger of a bot that startBots was called for.
Made(t) ==
  /\ t[1] \in DOMAIN gens /\ t[2] \in DOMAIN Cfg(t[1]).bots
  /\ t[3] \in DOMAIN TriggersOf(BotOf(t))

Receiving == rx.left \cup ({rx.cb} \ {Nil})
InFlight == {j.t : j \in jobs} \cup ({rx.cb} \ {Nil})

\* Channel triggers are called by the receive goroutine, cron triggers by jobs,
\* of which none has two.
Registered ==
  /\ \A t \in handlers \cup Receiving : Made(t) /\ This(t).kind = "channel"
  /\ \A t \in crons \cup waiters : Made(t) /\ This(t).kind = "cron"
  /\ \A j \in jobs : /\ j = [t |-> j.t, left |-> j.left] /\ j.left \subseteq Channels
                     /\ Made(j.t) /\ This(j.t).kind = "cron"
  /\ \A j, o \in jobs : j.t = o.t => j = o
  /\ rx = [msg |-> rx.msg, left |-> rx.left, cb |-> rx.cb]
  /\ rx.msg \in Message \/ (rx.left = {} /\ rx.cb = Nil)

Sent == air \subseteq Message

IInv == Muxed /\ Registered /\ OnlyUnderWay /\ Sent

-----------------------------------------------------------------------------
(* What main holds, and the mux.                                            *)

\* Before the first bring-up nothing is on the mux and main holds nothing.
LEMMA InitMuxed == Init => Muxed
<1> SUFFICES ASSUME Init PROVE Muxed
  OBVIOUS
<1>1. MainTypeOK
  <2>1. terminated \in BOOLEAN
    BY Zenon DEF Init
  <2>2. gens \in Seq(Configs) /\ Len(gens) <= MaxGens
    BY GensAssumption DEF Init
  <2> QED
    BY <2>1, <2>2 DEF Init, MainTypeOK
<1>2. Placed /\ Held
  BY DEF Init, Placed, Held, Stopping, Failed, Pending
<1> QED
  BY <1>1, <1>2 DEF Muxed

\* The callbacks and the clean-up of a context are none of main's.
LEMMA CallbacksKeepMuxed ==
  ASSUME Muxed, UNCHANGED <<mainVars, onMux, live>>
  PROVE  Muxed'
<1> USE DEF mainVars
<1>1. MainTypeOK'
  BY Zenon DEF Muxed, MainTypeOK
<1>2. Placed'
  BY DEF Muxed, Placed, Failed, Stopping, Gen, Cfg
<1>3. Held'
  BY DEF Muxed, Held, Pending, Current, Gen, First, Failed, Unnamed
<1> QED
  BY <1>1, <1>2, <1>3 DEF Muxed

\* A call of startBots begins with nothing of an earlier one held.
LEMMA StartsFromMuxed ==
  ASSUME Muxed, StartsFrom(next), Gen < MaxGens, running = {}, ~Failed', live' = live,
         pc \in {"down", "stopBots"}, why' \in {"up", "reload"},
         ~Failed \/ onMux = {}, UNCHANGED <<next, terminated, running, observer, onMux>>
  PROVE  Muxed'
<1>1. gens' = Append(gens, next) /\ pc' = "bots" /\ k' = 1 /\ i' = 0
  BY DEF StartsFrom
<1>2. next \in Configs /\ gens \in Seq(Configs) /\ Len(gens) + 1 <= MaxGens
  BY GensAssumption DEF Muxed, MainTypeOK, Gen
<1>3. gens' \in Seq(Configs) /\ Len(gens') = Len(gens) + 1 /\ Len(gens') \in DOMAIN gens'
  BY <1>1, <1>2
<1>4. MainTypeOK'
  <2>1. terminated' \in BOOLEAN
    BY Zenon DEF Muxed, MainTypeOK
  <2> QED
    BY <1>1, <1>2, <1>3, <2>1 DEF MainTypeOK
<1>5. Placed'
  BY <1>1, <1>3 DEF Placed, Stopping, Gen
<1>6. observer = Nil /\ Pending = {} /\ Pending' = {} /\ live = {}
  BY <1>1 DEF Muxed, Held, Pending
<1>7. onMux \subseteq Unnamed
  BY <1>6 DEF Muxed, Held
<1>8. Unnamed \subseteq Unnamed'
  BY <1>1, <1>2, <1>3 DEF Unnamed
<1>9. Held'
  BY <1>1, <1>6, <1>7, <1>8 DEF Muxed, Held
<1> QED
  BY <1>4, <1>5, <1>9 DEF Muxed

\* A bring-up finds main holding nothing and the mux empty.
LEMMA BringUpMuxed ==
  ASSUME Muxed, BringUp
  PROVE  Muxed'
<1>1. running = {} /\ onMux = {}
  BY DEF BringUp, Muxed, Held
<1> QED
  BY <1>1, StartsFromMuxed DEF BringUp, triggerVars, Failed

\* A reload starts its bots when the old ones are off the mux.
LEMMA RestartMuxed ==
  ASSUME Muxed, Restart
  PROVE  Muxed'
<1>1. Gen < MaxGens
  BY DEF Restart, BotsStopped, Muxed, Placed, Stopping
<1> QED
  BY <1>1, StartsFromMuxed DEF Restart, BotsStopped, MainUnchanged, triggerVars, Failed

\* main's other variables are typed in every action that starts nothing.
LEMMA MainTyped ==
  ASSUME Muxed, UNCHANGED gens, next' \in Configs, terminated' \in BOOLEAN,
         pc' \in {"down", "bots", "triggers", "select", "gone"} \cup Stopping,
         why' \in {"up", "reload", "modem", "exit", "upFails", "reloadFails"}
  PROVE  MainTypeOK'
  BY DEF Muxed, MainTypeOK, Stopping

\* A bot is on the mux from NewBot on, before its triggers have started.
LEMMA NewBotMuxed ==
  ASSUME Muxed, NewBot
  PROVE  Muxed'
<1>1. /\ UNCHANGED <<next, gens, k, i, terminated, running, observer>>
      /\ onMux' = onMux \cup {Current} /\ pc = "bots" /\ k \in DOMAIN Cfg(Gen).bots
      /\ \/ pc' = "stopBots" /\ why' = Fails /\ live' = live
         \/ pc' = "triggers" /\ why' = why /\ live' \subseteq live \cup {Current}
  BY DEF NewBot
<1>2. next' \in Configs /\ terminated' \in BOOLEAN
  BY Zenon, <1>1 DEF Muxed, MainTypeOK
<1>3. MainTypeOK'
  BY <1>1, <1>2, MainTyped DEF Muxed, MainTypeOK, Fails, Stopping
<1>4. Placed'
  BY <1>1 DEF Muxed, Placed, Fails, Failed, Stopping, Gen, Cfg
<1>5. Current' = Current /\ Pending = {} /\ Pending' \subseteq {Current} /\ Unnamed \subseteq Unnamed'
      /\ (pc' = "triggers" => Pending' = {Current})
  BY <1>1 DEF Current, Gen, Pending, Unnamed
<1>6. Held'
  BY <1>1, <1>5 DEF Muxed, Held, Failed, Fails
<1> QED
  BY <1>3, <1>4, <1>6 DEF Muxed

\* Starting a trigger moves nothing on the mux.
LEMMA StartTriggerMuxed ==
  ASSUME Muxed, StartTrigger
  PROVE  Muxed'
<1>1. /\ UNCHANGED <<pc, why, next, gens, k, terminated, running, observer, onMux, live>>
      /\ pc = "triggers" /\ i' = i + 1
  BY DEF StartTrigger, MainUnchanged
<1>2. MainTypeOK'
  BY Zenon, <1>1 DEF Muxed, MainTypeOK
<1>3. Placed'
  BY <1>1 DEF Muxed, Placed, Failed, Stopping, Gen, Cfg
<1>4. Held'
  BY <1>1 DEF Muxed, Held, Pending, Current, Gen, First, Failed, Unnamed
<1> QED
  BY <1>2, <1>3, <1>4 DEF Muxed

\* A bot that cannot start stays on the mux, and main goes on to stop the others.
LEMMA StartFailsMuxed ==
  ASSUME Muxed, StartFails
  PROVE  Muxed'
<1>1. /\ UNCHANGED <<next, gens, k, i, terminated, running, observer, onMux>>
      /\ pc = "triggers" /\ pc' = "stopBots" /\ why' = Fails /\ live' = live \ {Current}
  BY DEF StartFails, CtxDone
<1>2. next' \in Configs /\ terminated' \in BOOLEAN
  BY Zenon, <1>1 DEF Muxed, MainTypeOK
<1>3. MainTypeOK'
  BY <1>1, <1>2, MainTyped DEF Fails, Stopping
<1>4. Placed'
  BY <1>1 DEF Muxed, Placed, Fails, Failed, Stopping, Gen, Cfg
<1>5. Pending = {Current} /\ Pending' = {}
  BY <1>1 DEF Pending
<1>6. Held'
  BY <1>1, <1>5 DEF Muxed, Held, Failed, Fails
<1> QED
  BY <1>3, <1>4, <1>6 DEF Muxed

\* A bot whose triggers have all started is one main holds.
LEMMA BotStartedMuxed ==
  ASSUME Muxed, BotStarted
  PROVE  Muxed'
<1>1. /\ UNCHANGED <<why, next, gens, terminated, observer, onMux, live>>
      /\ pc = "triggers" /\ pc' = "bots" /\ k' = k + 1 /\ i' = 0
      /\ running' = running \cup {Current}
  BY DEF BotStarted, MainUnchanged, triggerVars
<1>2. next' \in Configs /\ terminated' \in BOOLEAN
  BY Zenon, <1>1 DEF Muxed, MainTypeOK
<1>3. MainTypeOK'
  BY <1>1, <1>2, MainTyped DEF Muxed, MainTypeOK
<1>4. Placed'
  BY <1>1 DEF Muxed, Placed, Failed, Stopping, Gen
<1>5. Pending = {Current} /\ Pending' = {} /\ Unnamed' = Unnamed
  BY <1>1 DEF Pending, Unnamed
<1>6. Current \in Nat \X (Nat \ {0})
  BY DEF Current, Gen, Muxed, Placed, MainTypeOK
<1>7. Held'
  BY <1>1, <1>5, <1>6 DEF Muxed, Held, Failed
<1> QED
  BY <1>3, <1>4, <1>7 DEF Muxed

\* The place 0 keeps an observer apart from every bot.
LEMMA StartObserversMuxed ==
  ASSUME Muxed, StartObservers
  PROVE  Muxed'
<1>1. /\ UNCHANGED <<next, gens, k, i, terminated, running, live>>
      /\ pc = "bots" /\ pc' = "select" /\ why' = "up"
      /\ onMux' = IF Cfg(Gen).observer = "none" THEN onMux ELSE onMux \cup {Observer}
      /\ observer' = IF Cfg(Gen).observer = "named" THEN Observer ELSE Nil
  BY DEF StartObservers, triggerVars
<1>2. next' \in Configs /\ terminated' \in BOOLEAN
  BY Zenon, <1>1 DEF Muxed, MainTypeOK
<1>3. MainTypeOK'
  BY <1>1, <1>2, MainTyped
<1>4. Placed'
  BY <1>1 DEF Muxed, Placed, Failed, Stopping, Gen, Cfg
<1>5. Gen \in DOMAIN gens /\ Cfg(Gen).observer \in {"none", "named", "unnamed"}
  BY <1>1, ConfigsAssumption DEF Muxed, MainTypeOK, Placed, Cfg, Gen
<1>6. Observer = <<Gen, 0>> /\ Observer[1] = Gen /\ Observer[2] = 0 /\ Gen \in Nat
  BY DEF Observer, Gen, Muxed, MainTypeOK
<1>7. Pending = {} /\ Pending' = {} /\ observer = Nil
  BY <1>1 DEF Pending, Muxed, Held
<1>8. onMux' \subseteq running' \cup ({observer'} \ {Nil}) \cup Unnamed'
  <2> SUFFICES ASSUME NEW x \in onMux', x \notin running', x # observer' \/ x = Nil
               PROVE  x \in Unnamed'
    OBVIOUS
  <2>1. CASE x \in Unnamed
    BY <1>1, <2>1 DEF Unnamed
  <2>2. CASE x = Observer /\ x \in onMux' \ onMux
    <3>1. Observer # Nil
      BY <1>6, GensAssumption
    <3>2. Cfg(Gen).observer = "unnamed"
      BY <1>1, <1>5, <2>2, <3>1
    <3> QED
      BY <1>1, <1>5, <1>6, <2>2, <3>2 DEF Unnamed, Cfg
  <2>3. onMux \subseteq running \cup Unnamed
    BY <1>1, <1>7 DEF Muxed, Held, Placed
  <2> QED
    BY <1>1, <2>1, <2>2, <2>3
<1>9. Held'
  BY <1>1, <1>5, <1>6, <1>7, <1>8 DEF Muxed, Held
<1> QED
  BY <1>3, <1>4, <1>9 DEF Muxed

\* Leaving the select, for whatever reason, disturbs nothing yet.
LEMMA LeavesMuxed ==
  ASSUME Muxed, NEW w \in {"reload", "modem", "exit"}, NEW c \in Configs, Leaves(w, c)
  PROVE  Muxed'
<1>1. /\ UNCHANGED <<gens, k, i, terminated, running, observer, onMux, live>>
      /\ pc = "select" /\ pc' = "stopObservers" /\ why' = w /\ next' = c
      /\ Gen < MaxGens \/ w = "exit"
  BY DEF Leaves, triggerVars
<1>2. terminated' \in BOOLEAN
  BY Zenon, <1>1 DEF Muxed, MainTypeOK
<1>3. MainTypeOK'
  BY <1>1, <1>2, MainTyped DEF Stopping
<1>4. Placed'
  BY <1>1 DEF Muxed, Placed, Gen
<1>5. ~Failed /\ ~Failed' /\ Pending = {} /\ Pending' = {} /\ Unnamed' = Unnamed
  BY <1>1 DEF Failed, Pending, Unnamed, Muxed, Placed
<1>6. Held'
  BY <1>1, <1>5 DEF Muxed, Held
<1> QED
  BY <1>3, <1>4, <1>6 DEF Muxed

\* Stopping the observer takes it off the mux before any bot.
LEMMA StopObserversMuxed ==
  ASSUME Muxed, StopObservers
  PROVE  Muxed'
<1>1. /\ UNCHANGED <<why, next, gens, k, i, terminated, running, live>>
      /\ pc = "stopObservers" /\ pc' = "stopBots"
      /\ onMux' = onMux \ {observer} /\ observer' = Nil
  BY DEF StopObservers, MainUnchanged, triggerVars
<1>2. next' \in Configs /\ terminated' \in BOOLEAN
  BY Zenon, <1>1 DEF Muxed, MainTypeOK
<1>3. MainTypeOK'
  BY <1>1, <1>2, MainTyped DEF Muxed, MainTypeOK, Stopping
<1>4. Placed'
  BY <1>1 DEF Muxed, Placed, Failed, Stopping, Gen
<1>5. Pending = {} /\ Pending' = {}
  BY <1>1 DEF Pending
<1>6. observer \notin running
  BY GensAssumption DEF Muxed, Held
<1>7. Unnamed \ {observer} \subseteq Unnamed'
  BY <1>1 DEF Unnamed
<1>8. Held'
  BY <1>1, <1>5, <1>6, <1>7 DEF Muxed, Held, Failed
<1> QED
  BY <1>3, <1>4, <1>8 DEF Muxed

\* The context of the first bot left is done while it is still on the mux.
LEMMA StopBotMuxed ==
  ASSUME Muxed, StopBot
  PROVE  Muxed'
<1>1. /\ UNCHANGED <<why, next, gens, k, i, terminated, running, observer, onMux>>
      /\ pc = "stopBots" /\ pc' = "stopTriggers" /\ live' = live \ {First}
  BY DEF StopBot, MainUnchanged, CtxDone
<1>2. next' \in Configs /\ terminated' \in BOOLEAN
  BY Zenon, <1>1 DEF Muxed, MainTypeOK
<1>3. MainTypeOK'
  BY <1>1, <1>2, MainTyped DEF Muxed, MainTypeOK, Stopping
<1>4. Placed'
  BY <1>1 DEF Muxed, Placed, Failed, Stopping, Gen
<1>5. Pending = {} /\ Pending' = {} /\ Unnamed' = Unnamed /\ First' = First
  BY <1>1 DEF Pending, Unnamed, First
<1>6. Held'
  BY <1>1, <1>5 DEF Muxed, Held, Failed
<1> QED
  BY <1>3, <1>4, <1>6 DEF Muxed

\* Stopping its triggers moves nothing on the mux.
LEMMA StopTriggersMuxed ==
  ASSUME Muxed, StopTriggers
  PROVE  Muxed'
<1>1. /\ UNCHANGED <<why, next, gens, k, i, terminated, running, observer, onMux, live>>
      /\ pc = "stopTriggers" /\ pc' = "stopNode"
  BY DEF StopTriggers, MainUnchanged
<1>2. next' \in Configs /\ terminated' \in BOOLEAN
  BY Zenon, <1>1 DEF Muxed, MainTypeOK
<1>3. MainTypeOK'
  BY <1>1, <1>2, MainTyped DEF Muxed, MainTypeOK, Stopping
<1>4. Placed'
  BY <1>1 DEF Muxed, Placed, Failed, Stopping, Gen
<1>5. Pending = {} /\ Pending' = {} /\ Unnamed' = Unnamed /\ First' = First
  BY <1>1 DEF Pending, Unnamed, First
<1>6. Held'
  BY <1>1, <1>5 DEF Muxed, Held, Failed
<1> QED
  BY <1>3, <1>4, <1>6 DEF Muxed

\* The bot that leaves the mux is dead, and main no longer holds it.
LEMMA StopNodeMuxed ==
  ASSUME Muxed, StopNode
  PROVE  Muxed'
<1>1. /\ UNCHANGED <<why, next, gens, k, i, terminated, observer, live>>
      /\ pc = "stopNode" /\ pc' = "stopBots"
      /\ onMux' = onMux \ {First} /\ running' = running \ {First}
  BY DEF StopNode, MainUnchanged
<1>2. next' \in Configs /\ terminated' \in BOOLEAN
  BY Zenon, <1>1 DEF Muxed, MainTypeOK
<1>3. MainTypeOK'
  BY <1>1, <1>2, MainTyped DEF Muxed, MainTypeOK, Stopping
<1>4. Placed'
  BY <1>1 DEF Muxed, Placed, Failed, Stopping, Gen
<1>5. Pending = {} /\ Pending' = {} /\ Unnamed \ {First} \subseteq Unnamed'
  BY <1>1 DEF Pending, Unnamed
<1>6. Held'
  BY <1>1, <1>5 DEF Muxed, Held, Failed
<1> QED
  BY <1>3, <1>4, <1>6 DEF Muxed

\* The modem goes when no bot is held, and the mux with it.
LEMMA CloseModemMuxed ==
  ASSUME Muxed, CloseModem
  PROVE  Muxed'
<1>1. /\ UNCHANGED <<why, next, gens, k, i, terminated, running, observer, live>>
      /\ pc = "stopBots" /\ pc' = "down" /\ onMux' = {} /\ running = {}
  BY DEF CloseModem, BotsStopped, ModemCloses, MainUnchanged
<1>2. next' \in Configs /\ terminated' \in BOOLEAN
  BY Zenon, <1>1 DEF Muxed, MainTypeOK
<1>3. MainTypeOK'
  BY <1>1, <1>2, MainTyped DEF Muxed, MainTypeOK
<1>4. Placed'
  BY <1>1 DEF Muxed, Placed, Stopping
<1>5. Pending = {} /\ Pending' = {}
  BY <1>1 DEF Pending
<1>6. Held'
  BY <1>1, <1>5 DEF Muxed, Held
<1> QED
  BY <1>3, <1>4, <1>6 DEF Muxed

\* The process ends with nothing on a mux, in order or at a failed start.
LEMMA ExitMuxed ==
  ASSUME Muxed, Exit
  PROVE  Muxed'
<1>1. /\ UNCHANGED <<why, next, gens, k, i, terminated, running, observer>>
      /\ pc \in {"stopBots", "down"} /\ pc' = "gone" /\ onMux' = {} /\ live' = {}
  BY DEF Exit, BotsStopped, Ends, ModemCloses
<1>2. running = {} /\ observer = Nil
  BY <1>1 DEF Exit, BotsStopped, Muxed, Held
<1>3. next' \in Configs /\ terminated' \in BOOLEAN
  BY Zenon, <1>1 DEF Muxed, MainTypeOK
<1>4. MainTypeOK'
  BY <1>1, <1>3, MainTyped DEF Muxed, MainTypeOK
<1>5. Placed'
  BY <1>1 DEF Muxed, Placed, Stopping
<1>6. Pending' = {}
  BY <1>1 DEF Pending
<1>7. Held'
  BY <1>1, <1>2, <1>6 DEF Held
<1> QED
  BY <1>4, <1>5, <1>7 DEF Muxed

\* A signal ends every context and detaches nothing.
LEMMA TerminateMuxed ==
  ASSUME Muxed, Terminate
  PROVE  Muxed'
<1>1. /\ UNCHANGED <<pc, why, next, gens, k, i, running, observer, onMux>>
      /\ terminated' = TRUE /\ live' = live \ live
  BY DEF Terminate, CtxDone
<1>2. MainTypeOK'
  <2>1. UNCHANGED <<pc, why, next, gens>> /\ terminated' \in BOOLEAN
    BY Zenon, <1>1
  <2> QED
    BY Zenon, <2>1 DEF Muxed, MainTypeOK
<1>3. Placed'
  BY <1>1 DEF Muxed, Placed, Failed, Stopping, Gen, Cfg
<1>4. Held'
  BY <1>1 DEF Muxed, Held, Pending, Current, Gen, First, Failed, Unnamed
<1> QED
  BY <1>2, <1>3, <1>4 DEF Muxed

\* Every step, of main, a callback or the world, keeps what is on the mux accounted for.
LEMMA MuxedHolds == Muxed /\ [Next]_vars => Muxed'
<1> SUFFICES ASSUME Muxed, [Next]_vars PROVE Muxed'
  OBVIOUS
<1>1. ASSUME Main PROVE Muxed'
  <2>1. ASSUME Shutdown PROVE Muxed'
    BY <2>1, LeavesMuxed DEF Shutdown, Muxed, MainTypeOK
  <2> QED
    BY <1>1, <2>1, BringUpMuxed, NewBotMuxed, StartTriggerMuxed, StartFailsMuxed, BotStartedMuxed,
       StartObserversMuxed, StopObserversMuxed, StopBotMuxed, StopTriggersMuxed, StopNodeMuxed,
       RestartMuxed, CloseModemMuxed, ExitMuxed DEF Main
<1>2. ASSUME NEW c \in Configs, Reload(c) \/ ModemChanges(c) PROVE Muxed'
  BY <1>2, LeavesMuxed DEF Reload, ModemChanges
<1>3. ASSUME Receive \/ Job PROVE Muxed'
  BY <1>3, CallbacksKeepMuxed
     DEF Receive, Job, RxAnswers, RxIgnores, RxReturns, RxRefuses, RxPasses, JobSends, JobEnds,
         Returned, CallsUnchanged, triggerVars
<1>4. ASSUME NEW m \in Heard, Deliver(m) PROVE Muxed'
  BY <1>4, CallbacksKeepMuxed DEF Deliver, CallsUnchanged, triggerVars
<1>5. ASSUME NEW t, CronFires(t) \/ WaiterStops(t) PROVE Muxed'
  BY <1>5, CallbacksKeepMuxed DEF CronFires, WaiterStops, CallsUnchanged, triggerVars
<1>6. ASSUME UNCHANGED vars PROVE Muxed'
  BY <1>6, CallbacksKeepMuxed DEF vars, triggerVars
<1> QED
  BY <1>1, <1>2, <1>3, <1>4, <1>5, <1>6, TerminateMuxed DEF Next, Gone, Exhausted

-----------------------------------------------------------------------------
(* The triggers and the callbacks.                                          *)

\* A trigger stays what it is: startBots only ever adds to gens.
LEMMA MadeStays ==
  ASSUME gens \in Seq(Configs), gens' = gens \/ \E c \in Configs : gens' = Append(gens, c),
         NEW t, Made(t)
  PROVE  Made(t)' /\ This(t)' = This(t)
<1>1. t[1] \in DOMAIN gens' /\ gens'[t[1]] = gens[t[1]]
  BY DEF Made
<1> QED
  BY <1>1 DEF Made, This, TriggersOf, BotOf, Cfg

\* What only goes away needs no new look.
LEMMA LessIsRegistered ==
  ASSUME Registered, gens \in Seq(Configs),
         gens' = gens \/ \E c \in Configs : gens' = Append(gens, c),
         handlers' \subseteq handlers, crons' \subseteq crons, waiters' \subseteq waiters,
         jobs' \subseteq jobs, rx' = rx \/ rx' = Idle
  PROVE  Registered'
<1>1. \A t : Made(t) => Made(t)' /\ This(t)' = This(t)
  BY MadeStays
<1>2. Receiving' \subseteq Receiving
  BY DEF Receiving, Idle
<1>3. (\A t \in handlers \cup Receiving : Made(t) /\ This(t).kind = "channel")'
  BY <1>1, <1>2 DEF Registered
<1>4. (\A t \in crons \cup waiters : Made(t) /\ This(t).kind = "cron")'
  BY <1>1 DEF Registered
<1>5. (/\ \A j \in jobs : /\ j = [t |-> j.t, left |-> j.left] /\ j.left \subseteq Channels
                           /\ Made(j.t) /\ This(j.t).kind = "cron"
       /\ \A j, o \in jobs : j.t = o.t => j = o)'
  BY <1>1 DEF Registered
<1>6. (/\ rx = [msg |-> rx.msg, left |-> rx.left, cb |-> rx.cb]
       /\ rx.msg \in Message \/ (rx.left = {} /\ rx.cb = Nil))'
  BY DEF Registered, Idle, Message
<1> QED
  BY <1>3, <1>4, <1>5, <1>6 DEF Registered

\* Before the first bring-up no callback is registered or running.
LEMMA InitRegistered == Init => Registered
  BY DEF Init, Registered, Receiving, Idle

\* A trigger that registers belongs to the bot being started.
LEMMA StartTriggerRegistered ==
  ASSUME Muxed, Registered, StartTrigger
  PROVE  Registered'
<1> DEFINE new == <<Gen, k, i + 1>>
<1>1. /\ UNCHANGED <<gens, rx, jobs>> /\ pc = "triggers" /\ i < Len(TriggersOf(Current))
      /\ \/ /\ This(new).kind = "channel" /\ handlers' = handlers \cup {new}
            /\ UNCHANGED <<crons, waiters>>
         \/ /\ This(new).kind = "cron"
            /\ crons' = crons \cup {new} /\ waiters' = waiters \cup {new} /\ UNCHANGED handlers
  BY DEF StartTrigger, StartsChannel, StartsCron, callVars
<1>2. Gen \in DOMAIN gens /\ k \in DOMAIN Cfg(Gen).bots /\ Cfg(Gen) \in Configs /\ i \in Nat
  BY <1>1 DEF Muxed, MainTypeOK, Placed, Cfg, Gen
<1>3. TriggersOf(Current) \in Seq(Trigger)
  BY <1>2, ConfigsAssumption DEF TriggersOf, Current, Bot
<1>4. Made(new) /\ BotOf(new) = Current
  BY <1>1, <1>2, <1>3 DEF Made, BotOf, Current
<1>5. \A t : Made(t)' = Made(t) /\ This(t)' = This(t)
  BY <1>1 DEF Made, This, TriggersOf, BotOf, Cfg
<1> HIDE DEF new
<1>6. Receiving' = Receiving
  BY <1>1 DEF Receiving
<1>7. (/\ \A t \in handlers \cup Receiving : Made(t) /\ This(t).kind = "channel"
       /\ \A t \in crons \cup waiters : Made(t) /\ This(t).kind = "cron")'
  BY <1>1, <1>4, <1>5, <1>6 DEF Registered
<1>8. (/\ \A j \in jobs : /\ j = [t |-> j.t, left |-> j.left] /\ j.left \subseteq Channels
                           /\ Made(j.t) /\ This(j.t).kind = "cron"
       /\ \A j, o \in jobs : j.t = o.t => j = o)'
  BY <1>1, <1>5 DEF Registered
<1> QED
  BY <1>1, <1>7, <1>8 DEF Registered

\* main and the contexts only let go of triggers and callbacks.
LEMMA MainRegistered ==
  ASSUME Muxed, Registered,
         Main \/ Terminate \/ UNCHANGED vars
              \/ \E c \in Configs : Reload(c) \/ ModemChanges(c)
  PROVE  Registered'
<1>1. gens \in Seq(Configs) /\ next \in Configs
  BY DEF Muxed, MainTypeOK
<1>2. CASE StartTrigger
  BY <1>2, StartTriggerRegistered
<1>3. CASE BringUp \/ Restart
  BY <1>1, <1>3, LessIsRegistered DEF BringUp, Restart, StartsFrom, triggerVars, callVars
<1>4. CASE \/ NewBot \/ StartFails \/ BotStarted \/ StartObservers \/ Shutdown
           \/ StopObservers \/ StopBot \/ Terminate \/ UNCHANGED vars
           \/ \E c \in Configs : Reload(c) \/ ModemChanges(c)
  BY <1>1, <1>4, LessIsRegistered
     DEF NewBot, StartFails, BotStarted, StartObservers, Shutdown, Reload, ModemChanges, Leaves,
         StopObservers, StopBot, Terminate, vars, mainVars, triggerVars, callVars
<1>5. CASE StopTriggers \/ StopNode \/ CloseModem \/ Exit
  BY <1>1, <1>5, LessIsRegistered
     DEF StopTriggers, StopNode, CloseModem, ModemCloses, Exit, Ends, callVars
<1> QED
  BY <1>2, <1>3, <1>4, <1>5 DEF Main

\* What the receive goroutine does with a message.
LEMMA ReceiveRegistered ==
  ASSUME Registered, Sent,
         Receive \/ \E m \in Heard : Deliver(m)
  PROVE  Registered'
<1>1. UNCHANGED <<gens, handlers, crons, waiters, jobs>>
  BY DEF Receive, RxAnswers, RxIgnores, RxReturns, RxRefuses, RxPasses, Deliver, Returned,
         CallsUnchanged, mainVars, triggerVars
<1>2. \A t : Made(t)' = Made(t) /\ This(t)' = This(t)
  BY <1>1 DEF Made, This, TriggersOf, BotOf, Cfg
<1>3. rx = [msg |-> rx.msg, left |-> rx.left, cb |-> rx.cb]
  BY DEF Registered
<1>4. /\ rx' = [msg |-> rx'.msg, left |-> rx'.left, cb |-> rx'.cb]
      /\ rx'.left \cup ({rx'.cb} \ {Nil}) \subseteq handlers \cup Receiving
      /\ rx'.msg \in Message \/ (rx'.left = {} /\ rx'.cb = Nil)
  <2>1. CASE RxReturns
    BY <2>1 DEF RxReturns, Idle
  <2>2. CASE \E m \in Heard : Deliver(m)
    BY <2>2 DEF Deliver, Heard, Message, Sent
  <2>3. CASE RxAnswers \/ RxIgnores
    BY <1>3, <2>3 DEF RxAnswers, RxIgnores, Receiving, Registered
  <2>4. CASE \E t \in rx.left : RxRefuses(t) \/ RxPasses(t)
    <3>1. PICK t \in rx.left : RxRefuses(t) \/ RxPasses(t)
      BY <2>4
    <3>2. /\ rx' = [msg |-> rx.msg, left |-> rx'.left, cb |-> rx'.cb]
          /\ rx'.left \subseteq rx.left /\ rx'.cb \in {Nil, t}
      <4>1. CASE RxRefuses(t)
        BY <1>3, <4>1 DEF RxRefuses
      <4>2. CASE RxPasses(t)
        BY <1>3, <4>2 DEF RxPasses
      <4> QED
        BY <3>1, <4>1, <4>2
    <3> QED
      BY <3>2 DEF Receiving, Registered
  <2> QED
    BY <2>1, <2>2, <2>3, <2>4 DEF Receive
<1>5. (\A t \in handlers \cup Receiving : Made(t) /\ This(t).kind = "channel")'
  BY <1>1, <1>2, <1>4 DEF Registered, Receiving
<1>6. (\A t \in crons \cup waiters : Made(t) /\ This(t).kind = "cron")'
  BY <1>1, <1>2 DEF Registered
<1>7. (/\ \A j \in jobs : /\ j = [t |-> j.t, left |-> j.left] /\ j.left \subseteq Channels
                           /\ Made(j.t) /\ This(j.t).kind = "cron"
       /\ \A j, o \in jobs : j.t = o.t => j = o)'
  BY <1>1, <1>2 DEF Registered
<1> QED
  BY <1>4, <1>5, <1>6, <1>7 DEF Registered

\* The channels of a trigger that exists are channels of the mesh.
LEMMA ChannelsOfMade ==
  ASSUME Muxed, NEW t, Made(t)
  PROVE  /\ This(t).channels \subseteq Channels
         /\ NameOf(BotOf(t)) \in Names
         /\ Known(BotOf(t)) \subseteq Channels
<1>1. Cfg(t[1]) \in Configs
  BY DEF Made, Muxed, MainTypeOK, Cfg
<1>2. Bot(Cfg(t[1]).bots[t[2]])
  BY <1>1, ConfigsAssumption DEF Made
<1>3. TriggersOf(BotOf(t)) \in Seq(Trigger) /\ NameOf(BotOf(t)) \in Names
  BY <1>2 DEF Bot, TriggersOf, BotOf, NameOf
<1>4. ASSUME NEW n \in DOMAIN TriggersOf(BotOf(t))
      PROVE  TriggersOf(BotOf(t))[n].channels \subseteq Channels
  <2>1. TriggersOf(BotOf(t))[n] \in Trigger
    BY <1>3
  <2> QED
    BY <2>1 DEF Trigger
<1> QED
  BY <1>3, <1>4 DEF Made, This, Known

\* No trigger has two jobs.
LEMMA JobsRegistered ==
  ASSUME Muxed, Registered,
         Job \/ (\E t \in crons : CronFires(t)) \/ \E t \in waiters : WaiterStops(t)
  PROVE  Registered'
<1>1. UNCHANGED <<gens, handlers, rx>> /\ crons' \subseteq crons /\ waiters' \subseteq waiters
  BY DEF Job, JobSends, JobEnds, CronFires, WaiterStops, Returned, CallsUnchanged, mainVars,
         triggerVars, callVars
<1>2. \A t : Made(t)' = Made(t) /\ This(t)' = This(t)
  BY <1>1 DEF Made, This, TriggersOf, BotOf, Cfg
<1>3. (/\ \A j \in jobs : /\ j = [t |-> j.t, left |-> j.left] /\ j.left \subseteq Channels
                           /\ Made(j.t) /\ This(j.t).kind = "cron"
       /\ \A j, o \in jobs : j.t = o.t => j = o)'
  <2>1. CASE \E t \in waiters : WaiterStops(t)
    BY <1>2, <2>1 DEF WaiterStops, callVars, Registered
  <2>2. CASE \E j \in jobs : JobEnds(j)
    BY <1>2, <2>2 DEF JobEnds, Registered
  <2>3. CASE \E j \in jobs : \E ch \in j.left : JobSends(j, ch)
    <3>0. PICK j \in jobs : \E ch \in j.left : JobSends(j, ch)
      BY <2>3
    <3>1. PICK ch \in j.left : JobSends(j, ch)
      BY <3>0
    <3> DEFINE j2 == [j EXCEPT !.left = @ \ {ch}]
    <3>2. jobs' = (jobs \ {j}) \cup {j2}
      BY <3>1 DEF JobSends
    <3>3. /\ j2 = [t |-> j2.t, left |-> j2.left] /\ j2.left \subseteq Channels
          /\ j2.t = j.t /\ Made(j2.t) /\ This(j2.t).kind = "cron"
      <4>1. /\ j = [t |-> j.t, left |-> j.left] /\ j.left \subseteq Channels
            /\ Made(j.t) /\ This(j.t).kind = "cron"
        BY DEF Registered
      <4>2. j2 = [t |-> j.t, left |-> j.left \ {ch}]
        BY <4>1
      <4> QED
        BY <4>1, <4>2
    <3> HIDE DEF j2
    <3> QED
      BY <1>2, <3>2, <3>3 DEF Registered
  <2>4. CASE \E t \in crons : CronFires(t)
    <3>1. PICK t \in crons : CronFires(t)
      BY <2>4
    <3> DEFINE n == [t |-> t, left |-> This(t).channels]
    <3>2. jobs' = jobs \cup {n} /\ \A j \in jobs : j.t # t
      BY <3>1 DEF CronFires
    <3>3. Made(t) /\ This(t).kind = "cron"
      BY DEF Registered
    <3>4. n = [t |-> n.t, left |-> n.left] /\ n.t = t /\ n.left \subseteq Channels
      BY <3>3, ChannelsOfMade
    <3> HIDE DEF n
    <3> QED
      BY <1>2, <3>2, <3>3, <3>4 DEF Registered
  <2> QED
    BY <2>1, <2>2, <2>3, <2>4 DEF Job
<1>4. Receiving' = Receiving
  BY <1>1 DEF Receiving
<1> QED
  BY <1>1, <1>2, <1>3, <1>4 DEF Registered

-----------------------------------------------------------------------------
(* Which callbacks run on when their context is done.                       *)

\* A context that ends excuses what is under way, and nothing else begins.
LEMMA CtxDoneExcuses ==
  ASSUME OnlyUnderWay, NEW B, CtxDone(B), UNCHANGED <<rx, jobs>>
  PROVE  OnlyUnderWay'
<1> SUFFICES ASSUME NEW t \in InFlight', BotOf(t) \notin live' PROVE t \in excused'
  BY DEF OnlyUnderWay, InFlight
<1>1. t \in InFlight
  BY DEF InFlight
<1>2. CASE BotOf(t) \in B
  <2>1. t \in Underway(BotOf(t))
    BY <1>1 DEF Underway, InFlight
  <2> QED
    BY <1>2, <2>1 DEF CtxDone
<1>3. CASE BotOf(t) \notin B
  BY <1>1, <1>3 DEF CtxDone, OnlyUnderWay, InFlight
<1> QED
  BY <1>2, <1>3

\* Main and the world send nothing; a context that ends excuses the callbacks past their check.
LEMMA MainUnderWay ==
  ASSUME OnlyUnderWay,
         Main \/ Terminate \/ UNCHANGED vars
              \/ \E c \in Configs : Reload(c) \/ ModemChanges(c)
  PROVE  OnlyUnderWay'
<1>1. CASE StartFails \/ StopBot \/ Terminate
  BY <1>1, CtxDoneExcuses DEF StartFails, StopBot, Terminate, callVars
<1>2. CASE Exit
  BY <1>2 DEF Exit, Ends, Idle, OnlyUnderWay
<1>3. CASE NewBot
  BY <1>3 DEF NewBot, OnlyUnderWay, callVars
<1>4. CASE \/ BringUp \/ StartTrigger \/ BotStarted \/ StartObservers \/ Shutdown
           \/ StopObservers \/ StopTriggers \/ StopNode \/ Restart \/ CloseModem
           \/ UNCHANGED vars \/ \E c \in Configs : Reload(c) \/ ModemChanges(c)
  <2>1. UNCHANGED <<live, excused, rx, jobs>>
    BY <1>4 DEF BringUp, StartTrigger, BotStarted, StartObservers, Shutdown, Reload, ModemChanges,
         Leaves, StopObservers, StopTriggers, StopNode, Restart, CloseModem, vars, triggerVars,
         callVars
  <2> QED
    BY <2>1 DEF OnlyUnderWay
<1> QED
  BY <1>1, <1>2, <1>3, <1>4 DEF Main

\* A callback that begins has a live context; one that returns is the only one
\* of its trigger.
LEMMA CallbacksUnderWay ==
  ASSUME Registered, OnlyUnderWay,
         \/ Receive \/ Job \/ \E m \in Heard : Deliver(m)
         \/ (\E t \in crons : CronFires(t)) \/ \E t \in waiters : WaiterStops(t)
  PROVE  OnlyUnderWay'
<1>1. live' = live
  BY DEF Receive, RxAnswers, RxIgnores, RxReturns, RxRefuses, RxPasses, Deliver, Job, JobSends,
         JobEnds, CronFires, WaiterStops, Returned, CallsUnchanged, triggerVars
<1>2. CASE \/ RxReturns \/ (\E t \in rx.left : RxRefuses(t) \/ RxPasses(t))
           \/ \E m \in Heard : Deliver(m)
  <2>1. jobs' = jobs /\ excused' = excused
    BY <1>2 DEF RxReturns, RxRefuses, RxPasses, Deliver, CallsUnchanged, triggerVars
  <2>2. rx'.cb = Nil \/ rx'.cb = rx.cb \/ BotOf(rx'.cb) \in live
    <3>1. rx = [msg |-> rx.msg, left |-> rx.left, cb |-> rx.cb]
      BY DEF Registered
    <3>2. CASE RxReturns \/ \E m \in Heard : Deliver(m)
      BY <3>2 DEF RxReturns, Deliver, Idle
    <3>3. CASE \E t \in rx.left : RxRefuses(t)
      BY <3>1, <3>3 DEF RxRefuses
    <3>4. CASE \E t \in rx.left : RxPasses(t)
      BY <3>1, <3>4 DEF RxPasses
    <3> QED
      BY <1>2, <3>2, <3>3, <3>4
  <2> QED
    BY <1>1, <2>1, <2>2 DEF OnlyUnderWay
<1>3. CASE RxAnswers \/ RxIgnores
  <2>1. rx.cb # Nil /\ rx'.cb = Nil /\ jobs' = jobs /\ excused' = excused \ {rx.cb}
    BY <1>3 DEF RxAnswers, RxIgnores, Returned, Registered
  <2>2. \A j \in jobs : j.t # rx.cb
    BY <2>1 DEF Registered, Receiving
  <2> QED
    BY <1>1, <2>1, <2>2 DEF OnlyUnderWay
<1>4. CASE \E t \in crons : CronFires(t)
  BY <1>1, <1>4 DEF CronFires, CallsUnchanged, triggerVars, OnlyUnderWay
<1>5. CASE \E t \in waiters : WaiterStops(t)
  BY <1>1, <1>5 DEF WaiterStops, callVars, OnlyUnderWay
<1>6. CASE \E j \in jobs : \E ch \in j.left : JobSends(j, ch)
  <2>0. PICK j \in jobs : \E ch \in j.left : JobSends(j, ch)
    BY <1>6
  <2>1. PICK ch \in j.left : JobSends(j, ch)
    BY <2>0
  <2>2. j = [t |-> j.t, left |-> j.left]
    BY DEF Registered
  <2>3. {o.t : o \in jobs'} \subseteq {o.t : o \in jobs} /\ rx' = rx /\ excused' = excused
    BY <2>1, <2>2 DEF JobSends, CallsUnchanged, triggerVars
  <2> QED
    BY <1>1, <2>3 DEF OnlyUnderWay
<1>7. CASE \E j \in jobs : JobEnds(j)
  <2>1. PICK j \in jobs : JobEnds(j)
    BY <1>7
  <2>2. jobs' = jobs \ {j} /\ rx' = rx /\ excused' = excused \ {j.t}
    BY <2>1 DEF JobEnds, Returned
  <2>3. (\A o \in jobs' : o.t # j.t) /\ (rx.cb # Nil => rx.cb # j.t)
    BY <2>2 DEF Registered, Receiving
  <2> QED
    BY <1>1, <2>2, <2>3 DEF OnlyUnderWay
<1> QED
  BY <1>2, <1>3, <1>4, <1>5, <1>6, <1>7 DEF Receive, Job

-----------------------------------------------------------------------------
(* What is on the air.                                                      *)

\* A bot's message on a channel it knows keeps what is on the air well-formed.
LEMMA SendsKeepsSent ==
  ASSUME Sent, NEW b, NEW ch \in Channels, Sends(b, ch), NameOf(b) \in Names
  PROVE  Sent'
  BY DEF Sent, Sends, Message

\* Callbacks send in the name of their bot, on channels of its triggers.
LEMMA SentHolds ==
  ASSUME Muxed, Registered, Sent, [Next]_vars
  PROVE  Sent'
<1>1. CASE air' = air \/ air' = {}
  BY <1>1 DEF Sent
<1>2. CASE RxAnswers
  <2>1. Made(rx.cb) /\ rx.msg \in Message
    BY <1>2 DEF RxAnswers, Registered, Receiving
  <2>2. rx.msg.channel \in Channels
    BY <2>1 DEF Message
  <2>3. Sends(BotOf(rx.cb), rx.msg.channel)
    BY <1>2 DEF RxAnswers
  <2> QED
    BY <2>1, <2>2, <2>3, ChannelsOfMade, SendsKeepsSent
<1>3. CASE \E j \in jobs : \E ch \in j.left : JobSends(j, ch)
  <2>0. PICK j \in jobs : \E ch \in j.left : JobSends(j, ch)
    BY <1>3
  <2>1. PICK ch \in j.left : Sends(BotOf(j.t), ch)
    BY <2>0 DEF JobSends
  <2>2. ch \in Channels /\ NameOf(BotOf(j.t)) \in Names
    BY ChannelsOfMade DEF Registered
  <2> QED
    BY <2>1, <2>2, SendsKeepsSent
<1>4. \/ RxAnswers \/ (\E j \in jobs : \E ch \in j.left : JobSends(j, ch))
      \/ air' = air \/ air' = {}
  BY DEF Next, Main, Receive, Job, vars, callVars, BringUp, NewBot, StartTrigger, StartFails,
         BotStarted, StartObservers, Shutdown, Reload, ModemChanges, Leaves, StopObservers,
         StopBot, StopTriggers, StopNode, Restart, CloseModem, Exit, Ends, Terminate, Gone,
         Exhausted, Deliver, RxRefuses, RxPasses, RxIgnores, RxReturns, CronFires, JobEnds,
         WaiterStops
<1> QED
  BY <1>1, <1>2, <1>3, <1>4

-----------------------------------------------------------------------------
\* The invariant holds at first.
LEMMA InitHolds == Init => IInv
  BY InitMuxed, InitRegistered DEF Init, IInv, OnlyUnderWay, Sent, Idle

\* The invariant is inductive.
LEMMA NextHolds == IInv /\ [Next]_vars => IInv'
<1> SUFFICES ASSUME IInv, [Next]_vars PROVE IInv'
  OBVIOUS
<1> USE DEF IInv
<1>1. Muxed' /\ Sent'
  BY MuxedHolds, SentHolds
<1>2. CASE Main \/ Terminate \/ UNCHANGED vars \/ \E c \in Configs : Reload(c) \/ ModemChanges(c)
  BY <1>1, <1>2, MainRegistered, MainUnderWay
<1>3. CASE Receive \/ \E m \in Heard : Deliver(m)
  BY <1>1, <1>3, ReceiveRegistered, CallbacksUnderWay
<1>4. CASE Job \/ (\E t \in crons : CronFires(t)) \/ \E t \in waiters : WaiterStops(t)
  BY <1>1, <1>4, JobsRegistered, CallbacksUnderWay
<1> QED
  BY <1>2, <1>3, <1>4 DEF Next, Gone, Exhausted

\* It holds always.
LEMMA Invariance == Spec => []IInv
  BY InitHolds, NextHolds, PTL DEF Spec

-----------------------------------------------------------------------------
\* Every variable keeps its type; in particular what main holds, and every bot
\* whose context is not done, is on the mux (startBots, Bot.Stop).
THEOREM TypeCorrect == Spec => []TypeOK
<1>1. IInv => TypeOK
  <2> SUFFICES ASSUME IInv PROVE TypeOK
    OBVIOUS
  <2>1. running \cup live \cup ({observer} \ {Nil}) \subseteq onMux
    BY DEF IInv, Muxed, Held
  <2>2. MainTypeOK /\ air \subseteq Message
    BY DEF IInv, Muxed, Sent
  <2>3. /\ \A t \in handlers : This(t).kind = "channel"
        /\ \A t \in crons \cup waiters : This(t).kind = "cron"
        /\ \A j \in jobs : This(j.t).kind = "cron" /\ j.left \subseteq Channels
    BY DEF IInv, Registered
  <2> QED
    BY Zenon, <2>1, <2>2, <2>3 DEF TypeOK, MainTypeOK
<1> QED
  BY <1>1, Invariance, PTL

\* A bot whose context is done sends nothing but what the callbacks that were
\* under way send (Start of both kinds of trigger).
THEOREM NothingNewBegins == Spec => []OnlyUnderWay
<1>1. IInv => OnlyUnderWay
  BY DEF IInv
<1> QED
  BY <1>1, Invariance, PTL

\* While main waits, the mux carries what main will stop and observers that failed
\* to start, never a bot of a start that failed (startBots, startObservers).
THEOREM TheMuxIsAccountedFor == Spec => []MuxAccountedFor
<1>1. IInv => MuxAccountedFor
  <2> SUFFICES ASSUME IInv, pc = "select" PROVE MuxAccountedFor
    BY DEF MuxAccountedFor
  <2>1. onMux \subseteq running \cup ({observer} \ {Nil}) \cup Unnamed
    BY DEF IInv, Muxed, Placed, Held, Pending
  <2> QED
    BY <2>1 DEF MuxAccountedFor, Unnamed
<1> QED
  BY <1>1, Invariance, PTL

=============================================================================
