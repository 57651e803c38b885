-------------------------- MODULE SupervisorProofs --------------------------
(***************************************************************************)
(* The safety of Supervisor, for every number of modem names, settings and  *)
(* config files.  Each step of the main goroutine leaves the loop in one of *)
(* four phases; Phases says what is true in each, HooksFollow what the      *)
(* outbound hooks are, and the invariants the model checker is asked for    *)
(* are read off them.                                                       *)
(***************************************************************************)
EXTENDS Supervisor, TLAPS

\* What holds while main waits in the select or has just received a SIGHUP.
Settled ==
  /\ ~starting
  /\ fresh = Nil
  /\ opened = {ms} \ {Nil}
  /\ ms = Nil => /\ retry \in {"armed", "fired"}
                 /\ bots = Nil
                 /\ observers = Nil
  /\ ms # Nil => /\ retry = "nil"
                 /\ retryDelay = InitialRetry
                 /\ bots = RunOf(cfg, ms)
                 /\ observers \in {RunOf(cfg, ms), Nil}
                 /\ cfg.modem = setting[ms]

\* What holds while bringUp runs: nothing of an earlier radio is left.
Cleared == ms = Nil /\ bots = Nil /\ observers = Nil

Phases ==
  /\ pc \in {"select", "load"} => Settled
  /\ pc = "open" => Cleared /\ fresh = Nil /\ opened = {}
  /\ pc = "assemble" => /\ Cleared
                        /\ fresh \in Modems
                        /\ opened = {fresh}
                        /\ cfg.modem = setting[fresh]

\* A hook that is set belongs to the modem the running observer runs on.
HooksFollow ==
  \A m \in Modems : sink[m] = Nil \/ (sink[m] = observers /\ observers.on = m)

IInv == TypeOK /\ Phases /\ HooksFollow /\ HupPending

-----------------------------------------------------------------------------
\* The delay stays within its bounds: it is doubled and capped (radioDown).
LEMMA BackoffBounded ==
  ASSUME NEW d \in InitialRetry .. MaxRetry
  PROVE  Backoff(d) \in InitialRetry .. MaxRetry
  BY RetryAssumption DEF Backoff

\* A config that may be adopted is one of the files.
LEMMA ConfigFields ==
  ASSUME NEW c \in Configs
  PROVE  c \in Files /\ c.modem \in Settings /\ c.mqtt \in BOOLEAN
  BY FilesAssumption DEF Configs, FileContents

\* A run names a config and a modem, and is not nil.
LEMMA RunFields ==
  ASSUME NEW c \in Configs, NEW m \in Modems
  PROVE  /\ RunOf(c, m) \in Running
         /\ RunOf(c, m) # Nil
         /\ RunOf(c, m).on = m
  BY NilAssumption DEF RunOf, Running

-----------------------------------------------------------------------------
\* Stopping the observer clears every hook, since only its own modem has one.
LEMMA UnhookedClears ==
  ASSUME TypeOK, HooksFollow
  PROVE  Unhooked = [m \in Modems |-> Nil]
<1>1. CASE observers = Nil
  BY <1>1 DEF Unhooked, HooksFollow, TypeOK
<1>2. CASE observers # Nil
  <2>1. observers.on \in Modems
    BY <1>2 DEF TypeOK, Running
  <2>2. \A m \in Modems : m # observers.on => sink[m] = Nil
    BY <1>2 DEF HooksFollow
  <2> QED
    BY <1>2, <2>1, <2>2 DEF Unhooked, TypeOK
<1> QED
  BY <1>1, <1>2

\* The state tearDown leaves: types, no modem, no run, no hook.
LEMMA TearDownEffect ==
  ASSUME TypeOK, Phases, HooksFollow, TearDown, pc \in {"select", "load"}
  PROVE  /\ ms' = Nil /\ bots' = Nil /\ observers' = Nil
         /\ opened' = {}
         /\ faulty' \subseteq Modems
         /\ setting' \in [Modems -> Settings \cup {Nil}]
         /\ pins' \in [Modems -> PinMaps \cup {Nil}]
         /\ sink' = [m \in Modems |-> Nil]
<1>1. ms' = Nil /\ bots' = Nil /\ observers' = Nil
  BY DEF TearDown, StopObservers
<1>2. opened' = {} /\ faulty' \subseteq Modems
  BY DEF TearDown, CloseModem, Phases, Settled, TypeOK
<1>3. /\ setting' \in [Modems -> Settings \cup {Nil}]
      /\ pins' \in [Modems -> PinMaps \cup {Nil}]
  BY DEF TearDown, CloseModem, TypeOK
<1>4. sink' = [m \in Modems |-> Nil]
  BY UnhookedClears DEF TearDown, StopObservers
<1> QED
  BY <1>1, <1>2, <1>3, <1>4

-----------------------------------------------------------------------------
\* The invariant holds when main enters its first bringUp.
LEMMA InitHolds == Init => IInv
<1> SUFFICES ASSUME Init PROVE IInv
  OBVIOUS
<1>1. cfg \in Configs /\ file \in Files
  BY DEF Init, Configs
<1>2. TypeOK
  <2>1. retryDelay \in InitialRetry .. MaxRetry
    BY RetryAssumption DEF Init
  <2>2. watcher \in [Modems -> [Watchers -> {"off", "watching", "reporting"}]]
    BY DEF Init
  <2> QED
    BY <1>1, <2>1, <2>2 DEF Init, TypeOK
<1>3. Phases /\ HooksFollow /\ HupPending
  BY DEF Init, Phases, Cleared, HooksFollow, HupPending, exited
<1> QED
  BY <1>2, <1>3 DEF IInv

\* A shutdown tears down and leaves nothing open.
LEMMA CtxDoneHolds ==
  ASSUME IInv, CtxDone
  PROVE  IInv'
<1> USE DEF IInv, signalVars, worldVars, mainVars, modemVars
<1>1. TypeOK'
  BY TearDownEffect DEF CtxDone, TypeOK
<1>2. Phases'
  BY TearDownEffect DEF CtxDone, Phases, Settled, Cleared, TypeOK
<1>3. HooksFollow' /\ HupPending'
  BY TearDownEffect
     DEF CtxDone, HooksFollow, HupPending, exited, Phases, Settled, Cleared, TypeOK
<1> QED
  BY <1>1, <1>2, <1>3

\* A stale report changes nothing; another tears the radio down first.
LEMMA DiedHolds ==
  ASSUME IInv, NEW m \in Modems, NEW w \in Watchers, Died(m, w)
  PROVE  IInv'
<1> USE DEF IInv, signalVars, worldVars, mainVars, modemVars
<1>1. TypeOK'
  BY TearDownEffect DEF Died, TypeOK, Stale
<1>2. Phases'
  BY TearDownEffect DEF Died, Phases, Settled, Cleared, TypeOK, Stale
<1>3. HooksFollow' /\ HupPending'
  BY TearDownEffect
     DEF Died, HooksFollow, HupPending, exited, Phases, Settled, Cleared, TypeOK, Stale
<1> QED
  BY <1>1, <1>2, <1>3

\* The retry timer is taken only while no modem is in use.
LEMMA RetryFiresHolds ==
  ASSUME IInv, RetryFires
  PROVE  IInv'
<1> USE DEF IInv, signalVars, worldVars, mainVars, modemVars
<1>1. TypeOK'
  BY DEF RetryFires, TypeOK
<1>2. Phases'
  BY DEF RetryFires, Phases, Settled, Cleared, TypeOK
<1>3. HooksFollow' /\ HupPending'
  BY DEF RetryFires, HooksFollow, HupPending, exited, Phases, Settled, Cleared, TypeOK
<1> QED
  BY <1>1, <1>2, <1>3

\* Receiving a SIGHUP settles nothing: main is about to read the config.
LEMMA ReceiveHupHolds ==
  ASSUME IInv, ReceiveHup
  PROVE  IInv'
<1> USE DEF IInv, signalVars, worldVars, mainVars, modemVars
<1>1. TypeOK'
  BY DEF ReceiveHup, TypeOK
<1>2. Phases'
  BY DEF ReceiveHup, Phases, Settled, Cleared, TypeOK
<1>3. HooksFollow' /\ HupPending'
  BY DEF ReceiveHup, HooksFollow, HupPending, exited, Phases, Settled, Cleared, TypeOK
<1> QED
  BY <1>1, <1>2, <1>3

\* A refused config leaves the running one untouched.
LEMMA RejectReloadHolds ==
  ASSUME IInv, RejectReload
  PROVE  IInv'
<1> USE DEF IInv, signalVars, worldVars, mainVars, modemVars
<1>1. TypeOK'
  BY DEF RejectReload, TypeOK
<1>2. Phases'
  BY DEF RejectReload, Phases, Settled, Cleared, TypeOK
<1>3. HooksFollow' /\ HupPending'
  BY DEF RejectReload, HooksFollow, HupPending, exited, Phases, Settled, Cleared, TypeOK
<1> QED
  BY <1>1, <1>2, <1>3

\* A reload that reconnects tears down before it adopts the config.
LEMMA ReloadRadioHolds ==
  ASSUME IInv, ReloadRadio
  PROVE  IInv'
<1> USE DEF IInv, signalVars, worldVars, mainVars, modemVars
<1>1. TypeOK'
  BY TearDownEffect DEF ReloadRadio, TypeOK, Adopt, Configs
<1>2. Phases'
  BY TearDownEffect DEF ReloadRadio, Phases, Settled, Cleared, TypeOK, Adopt
<1>3. HooksFollow' /\ HupPending'
  BY TearDownEffect
     DEF ReloadRadio, HooksFollow, HupPending, exited, Phases, Settled, Cleared, TypeOK, Adopt
<1> QED
  BY <1>1, <1>2, <1>3

\* A reload of the bots alone leaves them on the same modem, hook included.
LEMMA ReloadBotsHolds ==
  ASSUME IInv, ReloadBots
  PROVE  IInv'
<1> USE DEF IInv, signalVars, worldVars, mainVars, modemVars
<1>1. TypeOK'
  <2>1. file \in Configs /\ ms \in Modems
    BY DEF ReloadBots, TypeOK, Configs
  <2>2. bots' \in Running \cup {Nil} /\ observers' \in Running \cup {Nil}
    BY <2>1, RunFields DEF ReloadBots, StartObservers
  <2>3. sink' \in [Modems -> Running \cup {Nil}]
    BY <2>1, RunFields, UnhookedClears DEF ReloadBots, StartObservers
  <2> QED
    BY <2>1, <2>2, <2>3 DEF ReloadBots, Adopt, TypeOK
<1>2. Phases'
  BY UnhookedClears, RunFields, ConfigFields
     DEF ReloadBots, Phases, Settled, Cleared, TypeOK, Adopt, Configs, StartObservers,
         ModemConfigChanged
<1>3. HooksFollow' /\ HupPending'
  BY UnhookedClears, RunFields, ConfigFields
     DEF ReloadBots, HooksFollow, HupPending, exited, Phases, Settled, Cleared, TypeOK, Adopt, Configs, StartObservers
<1> QED
  BY <1>1, <1>2, <1>3

\* A reload whose bots do not start exits.
LEMMA ReloadBotsFailsHolds ==
  ASSUME IInv, ReloadBotsFails
  PROVE  IInv'
<1> USE DEF IInv, signalVars, worldVars, mainVars, modemVars
<1>1. TypeOK'
  BY UnhookedClears DEF ReloadBotsFails, TypeOK, StopObservers
<1>2. Phases'
  BY UnhookedClears DEF ReloadBotsFails, Phases, Settled, Cleared, TypeOK
<1>3. HooksFollow' /\ HupPending'
  BY UnhookedClears
     DEF ReloadBotsFails, HooksFollow, HupPending, exited, Phases, Settled, Cleared, TypeOK, StopObservers
<1> QED
  BY <1>1, <1>2, <1>3

\* A modem that opens is the only one open.
LEMMA SetupModemHolds ==
  ASSUME IInv, NEW m \in Modems, SetupModem(m)
  PROVE  IInv'
<1> USE DEF IInv, signalVars, worldVars, mainVars, modemVars
<1>1. TypeOK'
  BY ConfigFields DEF SetupModem, TypeOK, PinsFor
<1>2. Phases'
  BY ConfigFields DEF SetupModem, Phases, Settled, Cleared, TypeOK
<1>3. HooksFollow' /\ HupPending'
  BY ConfigFields
     DEF SetupModem, HooksFollow, HupPending, exited, Phases, Settled, Cleared, TypeOK
<1> QED
  BY <1>1, <1>2, <1>3

\* A connect that fails arms the timer, or exits at startup.
LEMMA SetupModemFailsHolds ==
  ASSUME IInv, SetupModemFails
  PROVE  IInv'
<1> USE DEF IInv, signalVars, worldVars, mainVars, modemVars
<1>1. TypeOK'
  BY BackoffBounded DEF SetupModemFails, TypeOK, RadioDown
<1>2. Phases'
  BY BackoffBounded DEF SetupModemFails, Phases, Settled, Cleared, TypeOK, RadioDown
<1>3. HooksFollow' /\ HupPending'
  BY BackoffBounded
     DEF SetupModemFails, HooksFollow, HupPending, exited, Phases, Settled, Cleared, TypeOK, RadioDown
<1> QED
  BY <1>1, <1>2, <1>3

\* The end of bringUp adopts the modem with all that runs on it.
LEMMA AssembleHolds ==
  ASSUME IInv, Assemble
  PROVE  IInv'
<1> USE DEF IInv, signalVars, worldVars, mainVars, modemVars
<1>1. TypeOK'
  <2>1. cfg \in Configs /\ fresh \in Modems
    BY DEF Assemble, TypeOK, Phases
  <2>2. bots' \in Running \cup {Nil} /\ observers' \in Running \cup {Nil}
    BY <2>1, RunFields DEF Assemble, StartObservers
  <2>3. sink' \in [Modems -> Running \cup {Nil}]
    BY <2>1, RunFields DEF Assemble, StartObservers, TypeOK
  <2>4. watcher' \in [Modems -> [Watchers -> {"off", "watching", "reporting"}]]
    BY <2>1 DEF Assemble, TypeOK
  <2>5. retryDelay' \in InitialRetry .. MaxRetry /\ retry' = "nil"
    BY RetryAssumption DEF Assemble, RadioUp
  <2> QED
    BY <2>1, <2>2, <2>3, <2>4, <2>5 DEF Assemble, TypeOK
<1>2. Phases'
  BY RunFields, ConfigFields, RetryAssumption, NilAssumption
     DEF Assemble, Phases, Settled, Cleared, TypeOK, RadioUp, StartObservers
<1>3. HooksFollow' /\ HupPending'
  BY RunFields, ConfigFields, RetryAssumption, NilAssumption
     DEF Assemble, HooksFollow, HupPending, exited, Phases, Settled, Cleared, TypeOK, StartObservers
<1> QED
  BY <1>1, <1>2, <1>3

\* A bringUp that fails half way closes the modem it opened.
LEMMA AssembleFailsHolds ==
  ASSUME IInv, AssembleFails
  PROVE  IInv'
<1> USE DEF IInv, signalVars, worldVars, mainVars, modemVars
<1>1. TypeOK'
  BY BackoffBounded DEF AssembleFails, TypeOK, RadioDown, CloseModem
<1>2. Phases'
  BY BackoffBounded
     DEF AssembleFails, Phases, Settled, Cleared, TypeOK, RadioDown, CloseModem
<1>3. HooksFollow' /\ HupPending'
  BY BackoffBounded
     DEF AssembleFails, HooksFollow, HupPending, exited, Phases, Settled, Cleared, TypeOK, RadioDown, CloseModem
<1> QED
  BY <1>1, <1>2, <1>3

\* A watcher's decision to report touches nothing of main's.
LEMMA WatcherFiresHolds ==
  ASSUME IInv, NEW m \in Modems, NEW w \in Watchers, WatcherFires(m, w)
  PROVE  IInv'
<1> USE DEF IInv, signalVars, worldVars, mainVars, modemVars
<1>1. TypeOK'
  BY DEF WatcherFires, TypeOK
<1>2. Phases'
  BY DEF WatcherFires, Phases, Settled, Cleared, TypeOK
<1>3. HooksFollow' /\ HupPending'
  BY DEF WatcherFires, HooksFollow, HupPending, exited, Phases, Settled, Cleared, TypeOK
<1> QED
  BY <1>1, <1>2, <1>3

\* A watcher's return touches nothing of main's.
LEMMA WatcherQuitsHolds ==
  ASSUME IInv, NEW m \in Modems, NEW w \in Watchers, WatcherQuits(m, w)
  PROVE  IInv'
<1> USE DEF IInv, signalVars, worldVars, mainVars, modemVars
<1>1. TypeOK'
  BY DEF WatcherQuits, TypeOK
<1>2. Phases'
  BY DEF WatcherQuits, Phases, Settled, Cleared, TypeOK
<1>3. HooksFollow' /\ HupPending'
  BY DEF WatcherQuits, HooksFollow, HupPending, exited, Phases, Settled, Cleared, TypeOK
<1> QED
  BY <1>1, <1>2, <1>3

\* The timer that fires was armed.
LEMMA TimerExpiresHolds ==
  ASSUME IInv, TimerExpires
  PROVE  IInv'
<1> USE DEF IInv, signalVars, worldVars, mainVars, modemVars
<1>1. TypeOK'
  BY DEF TimerExpires, TypeOK
<1>2. Phases'
  BY DEF TimerExpires, Phases, Settled, Cleared, TypeOK
<1>3. HooksFollow' /\ HupPending'
  BY DEF TimerExpires, HooksFollow, HupPending, exited, Phases, Settled, Cleared, TypeOK
<1> QED
  BY <1>1, <1>2, <1>3

\* A signal that arrives leaves the channel full.
LEMMA SighupHolds ==
  ASSUME IInv, Sighup
  PROVE  IInv'
<1> USE DEF IInv, signalVars, worldVars, mainVars, modemVars
<1>1. TypeOK'
  BY DEF Sighup, TypeOK, Notify
<1>2. Phases'
  BY DEF Sighup, Phases, Settled, Cleared, TypeOK, Notify
<1>3. HooksFollow' /\ HupPending'
  BY DEF Sighup, HooksFollow, HupPending, exited, Phases, Settled, Cleared, TypeOK, Notify
<1> QED
  BY <1>1, <1>2, <1>3

\* A termination signal touches only ctx.
LEMMA TerminateHolds ==
  ASSUME IInv, Terminate
  PROVE  IInv'
<1> USE DEF IInv, signalVars, worldVars, mainVars, modemVars
<1>1. TypeOK'
  BY DEF Terminate, TypeOK
<1>2. Phases'
  BY DEF Terminate, Phases, Settled, Cleared, TypeOK
<1>3. HooksFollow' /\ HupPending'
  BY DEF Terminate, HooksFollow, HupPending, exited, Phases, Settled, Cleared, TypeOK
<1> QED
  BY <1>1, <1>2, <1>3

\* A lost device is noticed by watchers, not by main.
LEMMA DeviceLostHolds ==
  ASSUME IInv, NEW s \in Settings, DeviceLost(s)
  PROVE  IInv'
<1> USE DEF IInv, signalVars, worldVars, mainVars, modemVars
<1>1. TypeOK'
  BY DEF DeviceLost, TypeOK
<1>2. Phases'
  BY DEF DeviceLost, Phases, Settled, Cleared, TypeOK
<1>3. HooksFollow' /\ HupPending'
  BY DEF DeviceLost, HooksFollow, HupPending, exited, Phases, Settled, Cleared, TypeOK
<1> QED
  BY <1>1, <1>2, <1>3

\* A device that returns touches nothing of main's.
LEMMA DeviceBackHolds ==
  ASSUME IInv, NEW s \in Settings, DeviceBack(s)
  PROVE  IInv'
<1> USE DEF IInv, signalVars, worldVars, mainVars, modemVars
<1>1. TypeOK'
  BY DEF DeviceBack, TypeOK
<1>2. Phases'
  BY DEF DeviceBack, Phases, Settled, Cleared, TypeOK
<1>3. HooksFollow' /\ HupPending'
  BY DEF DeviceBack, HooksFollow, HupPending, exited, Phases, Settled, Cleared, TypeOK
<1> QED
  BY <1>1, <1>2, <1>3

\* An edited config file waits for a SIGHUP.
LEMMA EditConfigHolds ==
  ASSUME IInv, EditConfig
  PROVE  IInv'
<1> USE DEF IInv, signalVars, worldVars, mainVars, modemVars
<1>1. TypeOK'
  BY DEF EditConfig, TypeOK
<1>2. Phases'
  BY DEF EditConfig, Phases, Settled, Cleared, TypeOK
<1>3. HooksFollow' /\ HupPending'
  BY DEF EditConfig, HooksFollow, HupPending, exited, Phases, Settled, Cleared, TypeOK
<1> QED
  BY <1>1, <1>2, <1>3

\* An edited pin map waits for a modem setup.
LEMMA EditBoardsHolds ==
  ASSUME IInv, EditBoards
  PROVE  IInv'
<1> USE DEF IInv, signalVars, worldVars, mainVars, modemVars
<1>1. TypeOK'
  BY DEF EditBoards, TypeOK
<1>2. Phases'
  BY DEF EditBoards, Phases, Settled, Cleared, TypeOK
<1>3. HooksFollow' /\ HupPending'
  BY DEF EditBoards, HooksFollow, HupPending, exited, Phases, Settled, Cleared, TypeOK
<1> QED
  BY <1>1, <1>2, <1>3

\* The invariant is inductive.
LEMMA NextHolds == IInv /\ [Next]_vars => IInv'
<1> SUFFICES ASSUME IInv, [Next]_vars PROVE IInv'
  OBVIOUS
<1>1. CASE Main
  BY <1>1, CtxDoneHolds, DiedHolds, RetryFiresHolds, ReceiveHupHolds,
     RejectReloadHolds, ReloadRadioHolds, ReloadBotsHolds, ReloadBotsFailsHolds,
     SetupModemHolds, SetupModemFailsHolds, AssembleHolds, AssembleFailsHolds
     DEF Main
<1>2. CASE Watching
  BY <1>2, WatcherFiresHolds, WatcherQuitsHolds DEF Watching
<1>3. CASE World
  BY <1>3, TimerExpiresHolds, SighupHolds, TerminateHolds, DeviceLostHolds,
     DeviceBackHolds, EditConfigHolds, EditBoardsHolds DEF World
<1>4. CASE Gone \/ UNCHANGED vars
  <2>1. UNCHANGED vars
    BY <1>4 DEF Gone
  <2> QED
    BY <2>1 DEF vars, mainVars, signalVars, modemVars, worldVars, IInv, TypeOK, Phases,
       Settled, Cleared, HooksFollow, HupPending, exited
<1> QED
  BY <1>1, <1>2, <1>3, <1>4 DEF Next

\* The types hold in every reachable state.
THEOREM TypeCorrect == Spec => []TypeOK
<1>1. IInv => TypeOK
  BY DEF IInv
<1> QED
  BY <1>1, InitHolds, NextHolds, PTL DEF Spec

\* In the select the radio is up and no retry is pending, or it is down and
\* one is: main can neither forget the radio nor bring it up twice.
THEOREM AlwaysUpOrRetrying == Spec => []UpOrRetrying
<1>1. IInv => UpOrRetrying
  BY DEF IInv, Phases, Settled, UpOrRetrying
<1> QED
  BY <1>1, InitHolds, NextHolds, PTL DEF Spec

\* No path of the loop leaves a modem open that main does not hold.
THEOREM NeverLeaksAModem == Spec => []NoModemLeaked
<1>1. IInv => NoModemLeaked
  <2> SUFFICES ASSUME IInv, ~exited PROVE opened = {ms, fresh} \ {Nil}
    BY DEF NoModemLeaked
  <2>1. pc \in {"select", "load", "open", "assemble"}
    BY DEF IInv, TypeOK, exited
  <2> QED
    BY <2>1, NilAssumption DEF IInv, Phases, Settled, Cleared
<1> QED
  BY <1>1, InitHolds, NextHolds, PTL DEF Spec

\* Bots and observer run on the modem in use, from the config in force.
THEOREM AlwaysRunsTheConfig == Spec => []RunsTheConfig
<1>1. IInv => RunsTheConfig
  BY DEF IInv, Phases, Settled, RunsTheConfig
<1> QED
  BY <1>1, InitHolds, NextHolds, PTL DEF Spec

\* No modem's outbound hook points at an observer that has been stopped.
THEOREM AlwaysCurrentSink == Spec => []SinkIsCurrent
<1>1. IInv => SinkIsCurrent
  BY DEF IInv, HooksFollow, SinkIsCurrent
<1> QED
  BY <1>1, InitHolds, NextHolds, PTL DEF Spec

\* A SIGHUP is never lost, whatever main was doing when it arrived.
THEOREM NeverLosesAHup == Spec => []HupPending
<1>1. IInv => HupPending
  BY DEF IInv
<1> QED
  BY <1>1, InitHolds, NextHolds, PTL DEF Spec

\* A modem is taken out of use only by a shutdown, a reload, or the delivery of
\* a report by one of its own watchers.
THEOREM TakenDownOnlyByItsOwn == Spec => OnlyItsOwnWatcher
<1> DEFINE Why == \/ term \/ pc = "load"
                  \/ \E w \in Watchers : watcher[ms][w] = "reporting" /\ watcher'[ms][w] = "off"
           Step == [(ms # Nil /\ ms' # ms) => Why]_vars
<1>1. IInv /\ [Next]_vars => Step
  <2> SUFFICES ASSUME IInv, Next, ms # Nil, ms' # ms PROVE Why
    OBVIOUS
  <2>1. ASSUME NEW m \in Modems, NEW w \in Watchers, Died(m, w) PROVE Why
    <3>1. m = ms /\ watcher[m][w] = "reporting"
      BY <2>1 DEF Died, Stale
    <3>2. watcher'[m][w] = "off"
      BY <2>1 DEF Died, IInv, TypeOK
    <3> QED
      BY <3>1, <3>2
  <2>2. CASE CtxDone
    BY <2>2 DEF CtxDone
  <2>3. CASE ReloadRadio
    BY <2>3 DEF ReloadRadio
  <2>4. CASE Assemble
    BY <2>4 DEF Assemble, IInv, Phases, Cleared
  <2>5. ASSUME NEW m \in Modems, SetupModem(m) PROVE FALSE
    BY <2>5 DEF SetupModem
  <2>6. CASE RetryFires \/ ReceiveHup \/ RejectReload \/ ReloadBots \/ ReloadBotsFails
             \/ SetupModemFails \/ AssembleFails
    BY <2>6 DEF RetryFires, ReceiveHup, RejectReload, ReloadBots, ReloadBotsFails,
                SetupModemFails, AssembleFails
  <2>7. CASE Watching \/ World \/ Gone
    BY <2>7
       DEF Watching, WatcherFires, WatcherQuits, World, TimerExpires, Sighup, Terminate,
                DeviceLost, DeviceBack, EditConfig, EditBoards, Gone, vars, mainVars
  <2> QED
    BY <2>1, <2>2, <2>3, <2>4, <2>5, <2>6, <2>7 DEF Next, Main
<1> QED
  BY <1>1, InitHolds, NextHolds, PTL DEF Spec, OnlyItsOwnWatcher

-----------------------------------------------------------------------------
(* The refinement of RadioService: each step of the program is a step of     *)
(* the service, or none.                                                     *)

\* A modem in use means that bots run from the config in force.
LEMMA InUse ==
  ASSUME IInv, pc \in {"select", "load"}
  PROVE  /\ Phase = "running"
         /\ ms = Nil => Serving = {} /\ Suspect = FALSE
         /\ ms # Nil => Serving = {cfg} /\ Serving # {} /\ ms \in Modems
<1>1. Settled /\ Phase = "running"
  BY DEF IInv, Phases, Settled, Phase, exited
<1>2. ms = Nil => Serving = {} /\ Suspect = FALSE
  BY <1>1 DEF Settled, Serving, Suspect
<1>3. ASSUME ms # Nil PROVE Serving = {cfg} /\ Serving # {} /\ ms \in Modems
  <2>1. ms \in Modems /\ bots = RunOf(cfg, ms) /\ cfg \in Configs
    BY <1>1, <1>3 DEF Settled, IInv, TypeOK
  <2> QED
    BY <2>1, RunFields DEF Serving, RunOf
<1> QED
  BY <1>1, <1>2, <1>3

\* A bring-up has nothing to show for it yet.
LEMMA BringingUp ==
  ASSUME IInv, pc \in {"open", "assemble"}
  PROVE  /\ Phase = (IF starting THEN "starting" ELSE "running")
         /\ Serving = {} /\ Suspect = FALSE /\ ms = Nil /\ bots = Nil
  BY DEF IInv, Phases, Cleared, Phase, exited, Serving, Suspect

\* What the operator sees depends on these variables alone.
LEMMA SameView ==
  ASSUME UNCHANGED <<pc, starting, bots, ms, watcher, hup>>
  PROVE  UNCHANGED <<Phase, Serving, Suspect, Due>>
  BY DEF Phase, exited, Serving, Suspect, Due

\* A step that leaves the view, the config, the signals and the file alone.
LEMMA NoView ==
  ASSUME UNCHANGED <<pc, starting, cfg, bots, ms, watcher, hup, term, file>>
  PROVE  UNCHANGED Service!vars
  BY SameView DEF Service!vars

\* A shutdown ends the service.
LEMMA CtxDoneView ==
  ASSUME IInv, CtxDone
  PROVE  Service!End
<1>1. Phase = "running" /\ Phase' = "ended"
  BY InUse DEF CtxDone, Phase, exited
<1>2. ms' = Nil /\ bots' = Nil
  BY DEF CtxDone, TearDown, StopObservers
<1>3. Serving' = {} /\ Suspect' = FALSE
  BY <1>2 DEF Serving, Suspect
<1>4. UNCHANGED <<cfg, Due, term, file>>
  BY DEF CtxDone, Due, signalVars, worldVars
<1> QED
  BY <1>1, <1>3, <1>4 DEF CtxDone, Service!End

\* A report about the radio in use takes it down, a stale one does nothing.
LEMMA DiedView ==
  ASSUME IInv, NEW m \in Modems, NEW w \in Watchers, Died(m, w)
  PROVE  [Service!Next]_Service!vars
<1>1. UNCHANGED <<cfg, starting, term, file, hup>>
  BY DEF Died, signalVars, worldVars
<1>2. CASE Stale(m) /\ UNCHANGED <<pc, ms, bots>>
  <2>1. ms \in Modems => watcher'[ms] = watcher[ms]
    BY <1>2 DEF Died, Stale, IInv, TypeOK
  <2>2. UNCHANGED <<Phase, Serving, Due>>
    BY <1>1, <1>2 DEF Phase, exited, Serving, Due
  <2>3. UNCHANGED Suspect
    BY <1>2, <2>1 DEF Suspect, IInv, TypeOK
  <2> QED
    BY <1>1, <2>2, <2>3 DEF Service!vars
<1>3. CASE ~Stale(m) /\ TearDown /\ pc' = "open"
  <2>1. m = ms /\ ms # Nil
    BY <1>3, NilAssumption DEF Stale
  <2>2. Phase = "running" /\ Phase' = "running" /\ UNCHANGED Due
    BY <1>1, <1>3, InUse DEF Died, Phase, exited, Due, IInv, Phases, Settled
  <2>3. Suspect
    BY <2>1 DEF Died, Suspect
  <2>4. Serving' = {} /\ Suspect' = FALSE
    BY <1>3 DEF TearDown, StopObservers, Serving, Suspect
  <2> QED
    BY <1>1, <2>2, <2>3, <2>4 DEF Service!TakeDown, Service!Next
<1> QED
  BY <1>2, <1>3 DEF Died

\* Receiving a SIGHUP trades a full channel for a reading that is due.
LEMMA ReceiveHupView ==
  ASSUME IInv, ReceiveHup
  PROVE  UNCHANGED Service!vars
<1>1. hup = 1 /\ hup' = 0 /\ pc = "select" /\ pc' = "load"
  BY DEF ReceiveHup
<1>2. UNCHANGED Due
  BY <1>1 DEF Due
<1>3. UNCHANGED <<Phase, Serving, Suspect, cfg, term, file>>
  BY <1>1 DEF ReceiveHup, Phase, exited, Serving, Suspect, modemVars, worldVars
<1> QED
  BY <1>2, <1>3 DEF Service!vars

\* Every way out of "load" is one reading of the file.
LEMMA ReadsOnce ==
  ASSUME IInv, pc = "load", pc' # "load", UNCHANGED <<hup, term, file>>
  PROVE  Service!Read
<1>1. hup \in {0, 1}
  BY DEF IInv, TypeOK
<1>2. Due = hup + 1 /\ Due' = hup
  BY <1>1 DEF Due
<1> QED
  BY <1>1, <1>2, InUse DEF Service!Read

\* A file that is no config is read and dropped.
LEMMA RejectReloadView ==
  ASSUME IInv, RejectReload
  PROVE  Service!Reject
<1>1. Service!Read
  BY ReadsOnce DEF RejectReload, worldVars
<1>2. file \notin Configs
  BY DEF RejectReload, Configs
<1>3. UNCHANGED <<Phase, cfg, Serving, Suspect>>
  BY DEF RejectReload, Phase, exited, Serving, Suspect, modemVars
<1> QED
  BY <1>1, <1>2, <1>3 DEF Service!Reject

\* A reload that needs another radio, or finds none up, serves nothing yet.
LEMMA ReloadRadioView ==
  ASSUME IInv, ReloadRadio
  PROVE  Service!Reconnect
<1>1. Service!Read
  BY ReadsOnce DEF ReloadRadio, worldVars
<1>2. file \in Configs
  BY DEF ReloadRadio, Configs, IInv, TypeOK
<1>3. Serving = {} \/ <<cfg, file>> \notin SameModem
  BY InUse DEF ReloadRadio, SameModem
<1>4. Serving' = {} /\ Suspect' = FALSE
  BY DEF ReloadRadio, TearDown, StopObservers, Serving, Suspect
<1>5. cfg' = file /\ UNCHANGED Phase
  BY DEF ReloadRadio, Adopt, Phase, exited
<1> QED
  BY <1>1, <1>2, <1>3, <1>4, <1>5 DEF Service!Reconnect

\* A reload on the same radio serves the new config at once.
LEMMA ReloadBotsView ==
  ASSUME IInv, ReloadBots
  PROVE  Service!Reload
<1>1. Service!Read
  BY ReadsOnce DEF ReloadBots, worldVars
<1>2. file \in Configs /\ file \in Sound
  BY DEF ReloadBots, Configs, Sound, IInv, TypeOK
<1>3. Serving # {} /\ ms \in Modems
  BY InUse DEF ReloadBots
<1>4. <<cfg, file>> \in SameModem
  BY <1>2 DEF ReloadBots, SameModem, IInv, TypeOK
<1>5. Serving' = {file}
  BY <1>2, <1>3, RunFields DEF ReloadBots, Serving, RunOf
<1>6. cfg' = file /\ UNCHANGED <<Phase, Suspect>>
  BY DEF ReloadBots, Adopt, Phase, exited, Suspect
<1> QED
  BY <1>1, <1>2, <1>3, <1>4, <1>5, <1>6 DEF Service!Reload

\* ... or ends the process.
LEMMA ReloadBotsFailsView ==
  ASSUME IInv, ReloadBotsFails
  PROVE  Service!Mistake
<1>1. Service!Read
  BY ReadsOnce DEF ReloadBotsFails, worldVars
<1>2. file \in Configs \ Sound
  BY DEF ReloadBotsFails, Configs, Sound, IInv, TypeOK
<1>3. Serving # {}
  BY InUse DEF ReloadBotsFails
<1>4. <<cfg, file>> \in SameModem
  BY <1>2 DEF ReloadBotsFails, SameModem, IInv, TypeOK
<1>5. Serving' = {} /\ Phase' = "ended" /\ UNCHANGED <<cfg, Suspect>>
  BY DEF ReloadBotsFails, Serving, Phase, exited, Suspect
<1> QED
  BY <1>1, <1>2, <1>3, <1>4, <1>5 DEF Service!Mistake

\* A failed bring-up ends the process at startup and is not seen later.
LEMMA RadioDownView ==
  ASSUME IInv, pc \in {"open", "assemble"}, RadioDown,
         UNCHANGED <<starting, cfg, ms, bots, hup, term, file>>
  PROVE  [Service!Next]_Service!vars
<1>1. UNCHANGED <<Serving, Suspect>> /\ pc' \in {"failed", "select"}
  BY BringingUp DEF Serving, Suspect, RadioDown
<1>2. UNCHANGED Due
  BY <1>1 DEF Due
<1>3. CASE starting
  <2>1. Phase = "starting" /\ Phase' = "ended"
    BY <1>3, BringingUp DEF RadioDown, Phase, exited
  <2> QED
    BY <1>1, <1>2, <2>1 DEF Service!GiveUp, Service!Next
<1>4. CASE ~starting
  <2>1. UNCHANGED Phase
    BY <1>4, BringingUp DEF RadioDown, Phase, exited
  <2> QED
    BY <1>1, <1>2, <2>1 DEF Service!vars
<1> QED
  BY <1>3, <1>4

\* A bring-up that succeeds begins the service or recovers it.
LEMMA AssembleView ==
  ASSUME IInv, Assemble
  PROVE  Service!Begin \/ Service!Recover
<1>1. cfg \in Configs /\ cfg \in Sound /\ fresh \in Modems
  BY DEF Assemble, Sound, IInv, TypeOK, Phases
<1>2. Serving = {} /\ Suspect = FALSE
  BY BringingUp DEF Assemble
<1>3. bots' = RunOf(cfg, fresh) /\ ms' = fresh
  BY DEF Assemble
<1>4. Serving' = {cfg}
  BY <1>1, <1>3, RunFields DEF Serving, RunOf
<1>5. \A w \in Watchers : watcher'[fresh][w] # "reporting"
  BY <1>1 DEF Assemble, IInv, TypeOK
<1>6. Suspect' = FALSE
  BY <1>3, <1>5 DEF Suspect
<1>7. Phase \in {"starting", "running"} /\ Phase' = "running" /\ UNCHANGED Due
  BY BringingUp DEF Assemble, Phase, exited, Due, signalVars
<1>8. UNCHANGED <<cfg, term, file>>
  BY DEF Assemble, signalVars, worldVars
<1> QED
  BY <1>1, <1>2, <1>4, <1>6, <1>7, <1>8 DEF Service!Begin, Service!Recover

\* A watcher that decides to report matters if its radio is the one in use.
LEMMA WatcherFiresView ==
  ASSUME IInv, NEW m \in Modems, NEW w \in Watchers, WatcherFires(m, w)
  PROVE  [Service!Next]_Service!vars
<1>1. UNCHANGED <<pc, starting, cfg, bots, ms, hup, term, file>>
  BY DEF WatcherFires, mainVars, signalVars, worldVars
<1>2. UNCHANGED <<Phase, Serving, Due>>
  BY <1>1 DEF Phase, exited, Serving, Due
<1>3. CASE m = ms
  <2>1. ms # Nil /\ pc \in {"select", "load"}
    BY <1>3, NilAssumption DEF WatcherFires, exited, IInv, TypeOK, Phases, Cleared
  <2>2. Phase = "running" /\ Serving # {}
    BY <2>1, InUse
  <2>3. Suspect'
    BY <1>1, <1>3, <2>1 DEF WatcherFires, Suspect, IInv, TypeOK
  <2>4. Suspect' = TRUE
    BY <2>3 DEF Suspect
  <2> QED
    BY <1>1, <1>2, <2>2, <2>4 DEF Service!Report, Service!Next
<1>4. CASE m # ms
  <2>1. ms \in Modems => watcher'[ms] = watcher[ms]
    BY <1>4 DEF WatcherFires, IInv, TypeOK
  <2>2. UNCHANGED Suspect
    BY <1>1, <2>1 DEF Suspect, IInv, TypeOK
  <2> QED
    BY <1>1, <1>2, <2>2 DEF Service!vars
<1> QED
  BY <1>3, <1>4

\* A watcher returns only when its radio is no longer in use.
LEMMA WatcherQuitsView ==
  ASSUME IInv, NEW m \in Modems, NEW w \in Watchers, WatcherQuits(m, w)
  PROVE  UNCHANGED Service!vars
<1>1. UNCHANGED <<pc, starting, cfg, bots, ms, hup, term, file>>
  BY DEF WatcherQuits, mainVars, signalVars, worldVars
<1>2. m # ms
  BY NilAssumption DEF WatcherQuits, exited, IInv, TypeOK, Phases, Settled, Cleared
<1>3. ms \in Modems => watcher'[ms] = watcher[ms]
  BY <1>2 DEF WatcherQuits, IInv, TypeOK
<1>4. UNCHANGED Suspect
  BY <1>1, <1>3 DEF Suspect, IInv, TypeOK
<1> QED
  BY <1>1, <1>4 DEF Service!vars, Phase, exited, Serving, Due

\* A SIGHUP makes a reading due, or joins the one the channel holds already.
LEMMA SighupView ==
  ASSUME IInv, Sighup
  PROVE  Service!Sighup
<1>1. UNCHANGED <<pc, starting, cfg, bots, ms, watcher, term, file>>
  BY DEF Sighup, mainVars, modemVars, worldVars
<1>2. hup \in {0, 1} /\ hup' = 1 /\ pc' = pc
  BY <1>1 DEF Sighup, Notify, IInv, TypeOK
<1>3. Due' \in {Due, Due + 1} \ {0}
  BY <1>2 DEF Due
<1>4. UNCHANGED <<Phase, Serving, Suspect>> /\ Phase # "ended"
  BY <1>1 DEF Sighup, Phase, exited, Serving, Suspect
<1> QED
  BY <1>1, <1>3, <1>4 DEF Service!Sighup

\* The program starts as the service does.
LEMMA InitView == Init => Service!Init
<1> SUFFICES ASSUME Init PROVE Service!Init
  OBVIOUS
<1>1. Phase = "starting" /\ Serving = {} /\ Suspect = FALSE /\ Due = 0
  BY DEF Init, Phase, exited, Serving, Suspect, Due
<1> QED
  BY <1>1 DEF Init, Configs, Service!Init

\* Each step of the program is a step of the service or is not seen.
LEMMA NextView == IInv /\ [Next]_vars => [Service!Next]_Service!vars
<1> SUFFICES ASSUME IInv, [Next]_vars PROVE [Service!Next]_Service!vars
  OBVIOUS
<1>1. CASE CtxDone \/ RejectReload \/ ReloadRadio \/ ReloadBots \/ ReloadBotsFails
           \/ Assemble
  BY <1>1, CtxDoneView, RejectReloadView, ReloadRadioView, ReloadBotsView,
     ReloadBotsFailsView, AssembleView
     DEF Service!Next
<1>2. CASE \E m \in Modems, w \in Watchers : Died(m, w)
  BY <1>2, DiedView
<1>3. CASE ReceiveHup
  BY <1>3, ReceiveHupView
<1>4. CASE RetryFires
  <2>1. Phase' = Phase /\ Due' = Due
    BY <1>4 DEF RetryFires, Phase, exited, Due, signalVars
  <2> QED
    BY <1>4, <2>1
       DEF RetryFires, Serving, Suspect, Service!vars, signalVars, modemVars, worldVars
<1>5. ASSUME NEW m \in Modems, SetupModem(m) PROVE UNCHANGED Service!vars
  <2>1. Phase' = Phase /\ Due' = Due
    BY <1>5 DEF SetupModem, Phase, exited, Due, signalVars
  <2> QED
    BY <1>5, <2>1
       DEF SetupModem, Serving, Suspect, Service!vars, signalVars, worldVars
<1>6. CASE SetupModemFails
  BY <1>6, RadioDownView DEF SetupModemFails, signalVars, worldVars
<1>7. CASE AssembleFails
  BY <1>7, RadioDownView DEF AssembleFails, signalVars, worldVars
<1>8. CASE Watching
  BY <1>8, WatcherFiresView, WatcherQuitsView DEF Watching
<1>9. CASE Sighup
  BY <1>9, SighupView DEF Service!Next
<1>10. CASE Terminate
  <2>1. UNCHANGED <<Phase, Serving, Suspect, Due>>
    BY <1>10, SameView DEF Terminate, mainVars, modemVars
  <2>2. Phase # "ended"
    BY <1>10 DEF Terminate, Phase
  <2> QED
    BY <1>10, <2>1, <2>2
       DEF Terminate, Service!Tell, Service!Next, mainVars, worldVars
<1>11. CASE EditConfig
  <2>1. UNCHANGED <<Phase, Serving, Suspect, Due>>
    BY <1>11, SameView DEF EditConfig, mainVars, signalVars, modemVars
  <2>2. Phase # "ended"
    BY <1>11 DEF EditConfig, Phase
  <2> QED
    BY <1>11, <2>1, <2>2
       DEF EditConfig, Service!Edit, Service!Next, mainVars, signalVars
<1>12. CASE TimerExpires \/ EditBoards \/ Gone \/ UNCHANGED vars
            \/ \E s \in Settings : DeviceLost(s) \/ DeviceBack(s)
  <2>1. UNCHANGED <<pc, starting, cfg, bots, ms, watcher, hup, term, file>>
    BY <1>12 DEF TimerExpires, EditBoards, Gone, DeviceLost, DeviceBack, vars, mainVars,
                 signalVars, modemVars, worldVars
  <2> QED
    BY <2>1, NoView
<1> QED
  BY <1>1, <1>2, <1>3, <1>4, <1>5, <1>6, <1>7, <1>8, <1>9, <1>10, <1>11, <1>12
     DEF Next, Main, World

\* The main loop implements the service: it serves the config in force or
\* waits for the radio, and ends only when told to or over a reload on the same
\* radio whose bots cannot be started.
THEOREM ImplementsService == Spec => ServesFaithfully
<1>1. Init => Service!Init
  BY InitView
<1>2. IInv /\ [Next]_vars => [Service!Next]_Service!vars
  BY NextView
<1> QED
  BY <1>1, <1>2, InitHolds, NextHolds, PTL DEF Spec, ServesFaithfully, Service!Spec
=============================================================================
