-------------------------------- MODULE Bots --------------------------------
(***************************************************************************)
(* The bots of one process, their triggers, and what of them is attached to *)
(* the radio mux, over starts that fail, reloads on the same modem, losses  *)
(* of the modem and a shutdown (bot.go, trigger_channel.go, trigger_cron.go *)
(* and the bot and observer parts of main.go).                              *)
(*                                                                          *)
(* Goroutines: main; the modem's receive goroutine, which calls the channel *)
(* triggers one after the other; one per cron job that has fired; and the   *)
(* one with which each cron trigger waits for its context.                  *)
(***************************************************************************)
EXTENDS Naturals, Sequences

CONSTANTS
  Configs,   \* what may be loaded: see Bot and ConfigsAssumption
  Names,     \* the names of bots
  Others,    \* everyone else on the mesh
  Channels,
  MaxGens,   \* bound: calls of startBots
  Nil        \* no observer, no message, no trigger

\* A trigger is sound, refused by NewBot (a key, a pattern, a type), or a cron
\* trigger whose schedule only Start refuses.  No channels: all of the bot's.
Trigger == [kind : {"channel", "cron"}, fails : {"never", "new", "start"}, channels : SUBSET Channels]
Bot(b) == b.name \in Names /\ b.triggers \in Seq(Trigger)
ASSUME ConfigsAssumption ==
  \A c \in Configs : /\ c.bots # <<>> /\ \A k \in DOMAIN c.bots : Bot(c.bots[k])
                     /\ c.observer \in {"none", "named", "unnamed"}
ASSUME NamesAssumption == Names \cap Others = {} /\ Nil \notin Names \cup Others \cup Channels
ASSUME GensAssumption == MaxGens \in Nat /\ Nil \notin Nat \X Nat

VARIABLES
  pc,         \* what the main goroutine is doing
  why,        \* why it starts or stops the bots
  next,       \* the config to start from
  gens,       \* the configs startBots was called with, in order
  k, i,       \* the bot of the last of them being started, its triggers started
  terminated, \* the signal context is done
  running,    \* the bots main holds
  observer,   \* the observer main holds
  onMux,      \* the bots and observers with a virtual radio on the mux
  live,       \* the bots whose context is not done
  handlers,   \* the channel triggers registered on their nodes
  crons,      \* the cron triggers whose runner runs
  waiters,    \* the cron triggers with a goroutine on their context
  rx,         \* what the receive goroutine delivers, and to whom
  jobs,       \* the cron jobs in flight
  air,        \* history: the messages bots have sent, which repeaters echo
  excused     \* history: the callbacks in flight when their context was done

mainVars == <<pc, why, next, gens, k, i, terminated, running, observer>>
triggerVars == <<live, handlers, crons, waiters, excused>>
callVars == <<rx, jobs, air>>
vars == <<mainVars, onMux, triggerVars, callVars>>

\* A bot is known by the call of startBots that made it and its place there,
\* an observer has place 0, and a trigger is known by its bot and its place.
Cfg(g) == gens[g]
BotOf(t) == <<t[1], t[2]>>
NameOf(b) == Cfg(b[1]).bots[b[2]].name
TriggersOf(b) == Cfg(b[1]).bots[b[2]].triggers
This(t) == TriggersOf(BotOf(t))[t[3]]
Of(b, S) == {t \in S : BotOf(t) = b}

Message == [from : Names \cup Others, channel : Channels]
Idle == [msg |-> Nil, left |-> {}, cb |-> Nil]

TypeOK ==
  /\ pc \in {"down", "bots", "triggers", "observers", "select",
             "stopObservers", "stopBots", "stopTriggers", "stopNode", "gone"}
  /\ why \in {"up", "reload", "modem", "exit", "upFails", "reloadFails"}
  /\ next \in Configs /\ gens \in Seq(Configs) /\ Len(gens) <= MaxGens
  /\ terminated \in BOOLEAN
  /\ running \cup live \cup ({observer} \ {Nil}) \subseteq onMux
  /\ \A t \in handlers : This(t).kind = "channel"
  /\ \A t \in crons \cup waiters : This(t).kind = "cron"
  /\ air \subseteq Message
  /\ \A j \in jobs : This(j.t).kind = "cron" /\ j.left \subseteq Channels

Init ==
  /\ pc = "down" /\ why = "up" /\ next \in Configs /\ gens = <<>> /\ k = 1 /\ i = 0
  /\ terminated = FALSE /\ running = {} /\ observer = Nil /\ onMux = {}
  /\ live = {} /\ handlers = {} /\ crons = {} /\ waiters = {}
  /\ rx = Idle /\ jobs = {} /\ air = {} /\ excused = {}

-----------------------------------------------------------------------------
(* Contexts, and what ends with the modem or the process.                   *)

Gen == Len(gens)
Current == <<Gen, k>>
Observer == <<Gen, 0>>

\* The callbacks of a bot that are past the check of its context.
Underway(b) ==
  {j.t : j \in {j \in jobs : BotOf(j.t) = b}}
    \cup {t \in {rx.cb} \ {Nil} : BotOf(t) = b}

CtxDone(B) ==
  /\ live' = live \ B
  /\ excused' = excused \cup UNION {Underway(b) : b \in B}

\* ms.Close: the mux goes with its modem, whoever is attached.
ModemCloses == onMux' = {} /\ handlers' = {}

\* The process has ended, and every goroutine with it.
Ends ==
  /\ pc' = "gone" /\ ModemCloses
  /\ live' = {} /\ crons' = {} /\ waiters' = {} /\ excused' = {}
  /\ rx' = Idle /\ jobs' = {} /\ air' = {}
  /\ UNCHANGED <<why, next, gens, k, i, terminated, running, observer>>

-----------------------------------------------------------------------------
(* startBots: NewBot, then Start, one bot after the other.                  *)

StartsFrom(c) == gens' = Append(gens, c) /\ k' = 1 /\ i' = 0 /\ pc' = "bots"
MainUnchanged == UNCHANGED <<why, next, terminated>>
Fails == IF why = "up" THEN "upFails" ELSE "reloadFails"

\* bringUp has set the modem up.
BringUp ==
  /\ pc = "down" /\ Gen < MaxGens
  /\ StartsFrom(next)
  /\ why' = "up"
  /\ UNCHANGED <<next, terminated, running, observer, onMux, triggerVars, callVars>>

\* NewBot makes the virtual radio and the node before it looks at the triggers.
NewBot ==
  /\ pc = "bots" /\ k \in DOMAIN Cfg(Gen).bots
  /\ onMux' = onMux \cup {Current}
  /\ IF \E n \in DOMAIN TriggersOf(Current) : TriggersOf(Current)[n].fails = "new"
     THEN pc' = "stopBots" /\ why' = Fails /\ live' = live
     ELSE /\ pc' = "triggers" /\ UNCHANGED why
          /\ live' = IF terminated THEN live ELSE live \cup {Current}
  /\ UNCHANGED <<next, gens, k, i, terminated, running, observer, handlers, crons, waiters, excused, callVars>>

StartsChannel(t) ==
  /\ This(t).kind = "channel"
  /\ handlers' = handlers \cup {t}
  /\ UNCHANGED <<crons, waiters>>
BugStartsCron(t) ==
  /\ This(t).kind = "cron"
  /\ crons' = crons \cup {t}
  /\ UNCHANGED <<handlers, waiters>>
StartsCron(t) ==
  /\ This(t).kind = "cron"
  /\ crons' = crons \cup {t} /\ waiters' = waiters \cup {t}
  /\ UNCHANGED handlers

StartTrigger ==
  LET t == <<Gen, k, i + 1>> IN
  /\ pc = "triggers" /\ i < Len(TriggersOf(Current))
  /\ This(t).fails = "never"
  /\ StartsChannel(t) \/ StartsCron(t)
  /\ i' = i + 1
  /\ MainUnchanged /\ UNCHANGED <<pc, gens, k, running, observer, onMux, live, excused, callVars>>

\* AddFunc refuses the schedule: the bot cancels what it has started, and
\* startBots stops the bots before it, which this one is not among.
BugStartFails ==
  /\ pc = "triggers" /\ i < Len(TriggersOf(Current))
  /\ TriggersOf(Current)[i + 1].fails = "start"
  /\ pc' = "stopBots" /\ why' = Fails
  /\ UNCHANGED <<next, gens, k, i, terminated, running, observer, onMux, triggerVars, callVars>>
StartFails ==
  /\ pc = "triggers" /\ i < Len(TriggersOf(Current))
  /\ TriggersOf(Current)[i + 1].fails = "start"
  /\ CtxDone({Current})
  /\ pc' = "stopBots" /\ why' = Fails
  /\ UNCHANGED <<next, gens, k, i, terminated, running, observer, onMux, handlers, crons, waiters, callVars>>

BotStarted ==
  /\ pc = "triggers" /\ i = Len(TriggersOf(Current))
  /\ running' = running \cup {Current}
  /\ k' = k + 1 /\ i' = 0 /\ pc' = "bots"
  /\ MainUnchanged /\ UNCHANGED <<gens, observer, onMux, triggerVars, callVars>>

\* An observer without the name its advert needs makes its virtual radio and
\* fails; main goes on without it.
StartObservers ==
  /\ pc = "bots" /\ k \notin DOMAIN Cfg(Gen).bots
  /\ onMux' = IF Cfg(Gen).observer = "none" THEN onMux ELSE onMux \cup {Observer}
  /\ observer' = IF Cfg(Gen).observer = "named" THEN Observer ELSE Nil
  /\ pc' = "select" /\ why' = "up"
  /\ UNCHANGED <<next, gens, k, i, terminated, running, triggerVars, callVars>>

-----------------------------------------------------------------------------
(* stopObservers and stopBots, and what main does next.                     *)

\* A reload, the loss of the modem or a reload that needs another one.
Leaves(w, c) ==
  /\ pc = "select" /\ (Gen < MaxGens \/ w = "exit")
  /\ why' = w /\ next' = c /\ pc' = "stopObservers"
  /\ UNCHANGED <<gens, k, i, terminated, running, observer, onMux, triggerVars, callVars>>

Reload(c) == Leaves("reload", c)
ModemChanges(c) == Leaves("modem", c)
Shutdown == terminated /\ Leaves("exit", next)

BugStopObservers ==
  /\ pc = "stopObservers"
  /\ observer' = Nil /\ pc' = "stopBots"
  /\ MainUnchanged /\ UNCHANGED <<gens, k, i, running, onMux, triggerVars, callVars>>
StopObservers ==
  /\ pc = "stopObservers"
  /\ onMux' = onMux \ {observer}
  /\ observer' = Nil /\ pc' = "stopBots"
  /\ MainUnchanged /\ UNCHANGED <<gens, k, i, running, triggerVars, callVars>>

\* Bot.Stop: the context, then every trigger, then the node.
First == CHOOSE b \in running : \A o \in running : b[2] <= o[2]

StopBot ==
  /\ pc = "stopBots" /\ running # {}
  /\ CtxDone({First})
  /\ pc' = "stopTriggers"
  /\ MainUnchanged
  /\ UNCHANGED <<gens, k, i, running, observer, onMux, handlers, crons, waiters, callVars>>

\* cron.Stop does not wait for the jobs in flight.
StopTriggers ==
  /\ pc = "stopTriggers"
  /\ crons' = crons \ Of(First, crons)
  /\ pc' = "stopNode"
  /\ MainUnchanged
  /\ UNCHANGED <<gens, k, i, running, observer, onMux, live, handlers, waiters, excused, callVars>>

StopNode ==
  /\ pc = "stopNode"
  /\ onMux' = onMux \ {First} /\ handlers' = handlers \ Of(First, handlers)
  /\ running' = running \ {First}
  /\ pc' = "stopBots"
  /\ MainUnchanged
  /\ UNCHANGED <<gens, k, i, observer, live, crons, waiters, excused, callVars>>

BotsStopped == pc = "stopBots" /\ running = {}

\* The bots of a reload that start take over the mux.
Restart ==
  /\ BotsStopped /\ why = "reload"
  /\ StartsFrom(next)
  /\ MainUnchanged
  /\ UNCHANGED <<running, observer, onMux, triggerVars, callVars>>

CloseModem ==
  /\ BotsStopped
  /\ why = "modem" \/ (why = "upFails" /\ Gen > 1)
  /\ ModemCloses
  /\ pc' = "down"
  /\ MainUnchanged
  /\ UNCHANGED <<gens, k, i, running, observer, live, crons, waiters, excused, callVars>>

\* A shutdown, the first bringUp or a reload that fails.
Exit ==
  /\ \/ BotsStopped /\ why \in {"exit", "reloadFails"}
     \/ BotsStopped /\ why = "upFails" /\ Gen = 1
     \/ pc = "down" /\ terminated
  /\ Ends

\* The signal context, the parent of every other.
Terminate ==
  /\ ~terminated /\ pc # "gone"
  /\ terminated' = TRUE
  /\ CtxDone(live)
  /\ UNCHANGED <<pc, why, next, gens, k, i, running, observer, onMux, handlers, crons, waiters, callVars>>

-----------------------------------------------------------------------------
(* The callbacks.                                                           *)

CallsUnchanged == UNCHANGED <<mainVars, onMux, triggerVars>>
Returned(t) ==
  /\ excused' = excused \ {t}
  /\ UNCHANGED <<mainVars, onMux, live, handlers, crons, waiters>>

\* A node that has been stopped may or may not still send.
Sends(b, ch) ==
  \/ air' = air \cup {[from |-> NameOf(b), channel |-> ch]}
  \/ b \notin onMux /\ air' = air

\* The modem hands a message of someone, or the echo of one of ours, to all.
Heard == air \cup [from : Others, channel : Channels]
Deliver(m) ==
  /\ rx = Idle /\ handlers # {}
  /\ rx' = [msg |-> m, left |-> handlers, cb |-> Nil]
  /\ CallsUnchanged /\ UNCHANGED <<jobs, air>>

RxRefuses(t) ==
  /\ t \in rx.left /\ rx.cb = Nil /\ BotOf(t) \notin live
  /\ rx' = [rx EXCEPT !.left = @ \ {t}]
  /\ CallsUnchanged /\ UNCHANGED <<jobs, air>>

BugRxPasses(t) ==
  /\ t \in rx.left /\ rx.cb = Nil
  /\ rx' = [rx EXCEPT !.left = @ \ {t}, !.cb = t]
  /\ CallsUnchanged /\ UNCHANGED <<jobs, air>>
RxPasses(t) ==
  /\ t \in rx.left /\ rx.cb = Nil /\ BotOf(t) \in live
  /\ rx' = [rx EXCEPT !.left = @ \ {t}, !.cb = t]
  /\ CallsUnchanged /\ UNCHANGED <<jobs, air>>

\* The node decrypts the channels of all triggers; a trigger then wants a
\* message of someone else, on one of its own channels if it names any.
Known(b) == UNION {TriggersOf(b)[n].channels : n \in DOMAIN TriggersOf(b)}
Wanted(t, m) ==
  /\ m.channel \in Known(BotOf(t))
  /\ m.from # NameOf(BotOf(t))
  /\ This(t).channels = {} \/ m.channel \in This(t).channels

RxAnswers ==
  /\ rx.cb # Nil /\ Wanted(rx.cb, rx.msg)
  /\ Sends(BotOf(rx.cb), rx.msg.channel)
  /\ rx' = [rx EXCEPT !.cb = Nil]
  /\ Returned(rx.cb) /\ UNCHANGED jobs

\* Not wanted, or a pattern does not match, or the template fails.
RxIgnores ==
  /\ rx.cb # Nil
  /\ rx' = [rx EXCEPT !.cb = Nil]
  /\ Returned(rx.cb) /\ UNCHANGED <<jobs, air>>

RxReturns ==
  /\ rx.msg # Nil /\ rx.left = {} /\ rx.cb = Nil
  /\ rx' = Idle
  /\ CallsUnchanged /\ UNCHANGED <<jobs, air>>

\* The job looks at its context first, and is gone at once if that is done.
CronFires(t) ==
  /\ t \in crons /\ BotOf(t) \in live /\ \A j \in jobs : j.t # t
  /\ jobs' = jobs \cup {[t |-> t, left |-> This(t).channels]}
  /\ CallsUnchanged /\ UNCHANGED <<rx, air>>

\* One channel after the other, whether or not the send succeeds.
JobSends(j, ch) ==
  /\ j \in jobs /\ ch \in j.left
  /\ Sends(BotOf(j.t), ch)
  /\ jobs' = (jobs \ {j}) \cup {[j EXCEPT !.left = @ \ {ch}]}
  /\ CallsUnchanged /\ UNCHANGED rx

\* The template fails, or every channel has been served.
JobEnds(j) ==
  /\ j \in jobs /\ j.left \in {{}, This(j.t).channels}
  /\ jobs' = jobs \ {j}
  /\ Returned(j.t) /\ UNCHANGED <<rx, air>>

\* The goroutine a cron trigger leaves on its context.
WaiterStops(t) ==
  /\ t \in waiters /\ BotOf(t) \notin live
  /\ waiters' = waiters \ {t} /\ crons' = crons \ {t}
  /\ UNCHANGED <<mainVars, onMux, live, handlers, excused, callVars>>

-----------------------------------------------------------------------------
Main ==
  \/ BringUp \/ NewBot \/ StartTrigger \/ StartFails \/ BotStarted \/ StartObservers
  \/ Shutdown \/ StopObservers \/ StopBot \/ StopTriggers \/ StopNode
  \/ Restart \/ CloseModem \/ Exit
Receive ==
  \/ RxAnswers \/ RxIgnores \/ RxReturns
  \/ \E t \in rx.left : RxRefuses(t) \/ RxPasses(t)
Job == \E j \in jobs : JobEnds(j) \/ \E ch \in j.left : JobSends(j, ch)
Gone == pc = "gone" /\ UNCHANGED vars
\* All generations have been used up: the bound, not the program.
Exhausted == pc = "down" /\ Gen = MaxGens /\ UNCHANGED vars

Next ==
  \/ Main \/ Receive \/ Job \/ Terminate \/ Gone \/ Exhausted
  \/ \E c \in Configs : Reload(c) \/ ModemChanges(c)
  \/ \E m \in Heard : Deliver(m)
  \/ \E t \in crons : CronFires(t)
  \/ \E t \in waiters : WaiterStops(t)

Spec == Init /\ [][Next]_vars

\* The goroutines of cron triggers run; no callback is sure to return.
FairSpec == Spec /\ WF_vars(\E t \in waiters : WaiterStops(t))

-----------------------------------------------------------------------------
\* A bot that is stopped, that failed to start, or whose process is told to
\* end sends nothing but what the callbacks under way at that moment send:
\* neither a later packet nor a later tick begins another (Start of both kinds
\* of trigger), though handlers stay registered and runners fire a while.
OnlyUnderWay ==
  \A t \in {j.t : j \in jobs} \cup ({rx.cb} \ {Nil}) :
    BotOf(t) \notin live => t \in excused

\* While main is in its select, all that is attached to the mux is what main
\* will stop, and observers that failed to start, one for each reload of such
\* a config: failed bots never outlive the modem or the process they are on.
MuxAccountedFor ==
  pc = "select" =>
    \A x \in onMux \ (running \cup {observer}) : x[2] = 0 /\ gens[x[1]].observer = "unnamed"

\* The runner of every cron trigger ends with its context, also that of a bot
\* whose Start failed later, on which nobody calls Stop.
Orphans == {t \in crons : BotOf(t) \notin live}
CronsEnd == Orphans # {} ~> Orphans = {}
=============================================================================
