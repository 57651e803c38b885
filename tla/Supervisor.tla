----------------------------- MODULE Supervisor -----------------------------
(***************************************************************************)
(* The main goroutine of meshcore-bot (main.go): it brings up one modem     *)
(* with the bots and the MQTT observer that hang off it, and then waits in  *)
(* a select for a shutdown, a watcher that gave up on a modem, the retry    *)
(* timer or a SIGHUP.                                                       *)
(*                                                                          *)
(* A step of the main goroutine is one stretch that nothing else can        *)
(* observe half done: receiving from the select (with the tearDown that     *)
(* follows), reading the config file, opening the modem, and starting what  *)
(* runs on it.  Between these steps signals arrive, files are edited,       *)
(* devices come and go and the watchers of old and new modems run.          *)
(*                                                                          *)
(* A modem is a generation: one setupModem, one watchDone channel, at most  *)
(* two watcher goroutines.  A name of Modems is reused once its modem is    *)
(* closed and its watchers have returned.                                   *)
(***************************************************************************)
EXTENDS Integers, FiniteSets

CONSTANTS
  Modems,           \* names for modem generations
  Nil,              \* nil: no modem, no bots, no observer, no hook, no pin map
  Settings,         \* distinct values of the fields modemConfigChanged compares
  SpiSettings,      \* those whose connection is spi://
  OpenhopSettings,  \* those whose connection is openhop://; the rest are KISS
  Files,            \* the config files the operator may write
  PinMaps,          \* the contents boards.json may have
  InitialRetry,     \* initialRadioRetry, in seconds
  MaxRetry          \* maxRadioRetry, in seconds

\* What a config file comes to: whether it parses and validates, whether it
\* lists bots and whether NewBot and Start accept all of their triggers,
\* whether some bot has an mqtt section, and which modem it asks for.
FileContents ==
  [loads : BOOLEAN, bots : {"none", "bad", "good"}, mqtt : BOOLEAN, modem : Settings]

\* The configs main will run: loadConfig succeeds and cfg.Bots is not empty.
Accepted(f) == f.loads /\ f.bots # "none"
Configs == {f \in Files : Accepted(f)}

\* What a started set of bots, or a started observer, is identified by.
RunOf(c, m) == [cfg |-> c, on |-> m]
Running == [cfg : Configs, on : Modems]

ASSUME NilAssumption == Nil \notin Modems \cup Settings \cup PinMaps \cup Running
ASSUME SettingsAssumption ==
  SpiSettings \subseteq Settings /\ OpenhopSettings \subseteq Settings
ASSUME FilesAssumption == Files \subseteq FileContents
ASSUME RetryAssumption ==
  InitialRetry \in Nat \ {0} /\ MaxRetry \in Nat /\ InitialRetry <= MaxRetry

VARIABLES
  pc,          \* where the main goroutine is
  starting,    \* no bringUp has succeeded yet: a failure still exits
  cfg,         \* cfg: the config in force
  ms,          \* ms: the modem in use, or Nil
  fresh,       \* the modem bringUp has opened and not yet adopted
  bots,        \* bots: what the running bots were started from
  observers,   \* observers: what the running observer was started from
  retry,       \* the retry timer
  retryDelay,  \* retryDelay
  hup,         \* the sighup channel's buffer: 0 or 1
  owed,        \* history: a SIGHUP arrived and no config load has begun since
  term,        \* ctx is done: SIGINT or SIGTERM arrived
  opened,      \* modems whose watchDone is open and whose closers have not run
  setting,     \* the settings each modem was opened with
  pins,        \* the pin map each modem was opened with
  sink,        \* txSink of each modem: the observer its outbound frames reach
  watcher,     \* the watcher goroutines of each modem
  faulty,      \* modems whose device went away while they were open
  reachable,   \* the settings setupModem would succeed with now
  file,        \* the config file on disk
  boards       \* boards.json on disk

mainVars == <<pc, starting, cfg, ms, fresh, bots, observers, retry, retryDelay>>
signalVars == <<hup, owed, term>>
modemVars == <<opened, setting, pins, sink, watcher, faulty>>
worldVars == <<reachable, file, boards>>
vars == <<mainVars, signalVars, modemVars, worldVars>>

Watchers == {"dead", "probe"}

\* The watchers watch() starts: KISS offers Dead() and LastReply(), the SPI
\* modem only Dead(), the openHop one only LastReply().
WatchersOf(s) ==
  IF s \in SpiSettings THEN {"dead"}
  ELSE IF s \in OpenhopSettings THEN {"probe"}
  ELSE {"dead", "probe"}

exited == pc \in {"stopped", "failed"}

\* A name is free when its last modem is closed and both watchers are gone.
Free(m) == m \notin opened /\ \A w \in Watchers : watcher[m][w] = "off"

TypeOK ==
  /\ pc \in {"select", "load", "open", "assemble", "stopped", "failed"}
  /\ starting \in BOOLEAN
  /\ cfg \in Configs
  /\ ms \in Modems \cup {Nil}
  /\ fresh \in Modems \cup {Nil}
  /\ bots \in Running \cup {Nil}
  /\ observers \in Running \cup {Nil}
  /\ retry \in {"nil", "armed", "fired", "spent"}
  /\ retryDelay \in InitialRetry .. MaxRetry
  /\ hup \in {0, 1}
  /\ owed \in BOOLEAN
  /\ term \in BOOLEAN
  /\ opened \subseteq Modems
  /\ setting \in [Modems -> Settings \cup {Nil}]
  /\ pins \in [Modems -> PinMaps \cup {Nil}]
  /\ sink \in [Modems -> Running \cup {Nil}]
  /\ watcher \in [Modems -> [Watchers -> {"off", "watching", "reporting"}]]
  /\ faulty \subseteq Modems
  /\ reachable \subseteq Settings
  /\ file \in Files
  /\ boards \in PinMaps

-----------------------------------------------------------------------------
\* main has read and accepted its config, and enters the first bringUp.
Init ==
  /\ file \in Configs
  /\ cfg = file
  /\ pc = "open"
  /\ starting = TRUE
  /\ ms = Nil
  /\ fresh = Nil
  /\ bots = Nil
  /\ observers = Nil
  /\ retry = "nil"
  /\ retryDelay = InitialRetry
  /\ hup = 0
  /\ owed = FALSE
  /\ term = FALSE
  /\ opened = {}
  /\ setting = [m \in Modems |-> Nil]
  /\ pins = [m \in Modems |-> Nil]
  /\ sink = [m \in Modems |-> Nil]
  /\ watcher = [m \in Modems |-> [w \in Watchers |-> "off"]]
  /\ faulty = {}
  /\ reachable = Settings
  /\ boards \in PinMaps

-----------------------------------------------------------------------------
(* The steps of the main goroutine.                                         *)

\* The outbound hooks once stopObservers has cleared the one of its modem.
BugUnhooked == sink
Unhooked == IF observers = Nil THEN sink ELSE [sink EXCEPT ![observers.on] = Nil]
StopObservers == observers' = Nil /\ sink' = Unhooked

\* modemState.Close of m: watchDone first, then the closers; nobody holds the
\* modemState afterwards but its watchers.
CloseModem(m) ==
  /\ opened' = opened \ {m}
  /\ faulty' = faulty \ {m}
  /\ setting' = [x \in Modems |-> IF x = m THEN Nil ELSE setting[x]]
  /\ pins' = [x \in Modems |-> IF x = m THEN Nil ELSE pins[x]]

\* tearDown: observers, bots, modem, in that order.
BugTearDown ==
  /\ StopObservers
  /\ bots' = Nil
  /\ ms' = Nil
  /\ UNCHANGED <<opened, faulty, setting, pins>>
TearDown ==
  /\ StopObservers
  /\ bots' = Nil
  /\ CloseModem(ms)
  /\ ms' = Nil

\* A shutdown signal won the select.
CtxDone ==
  /\ pc = "select"
  /\ term
  /\ TearDown
  /\ pc' = "stopped"
  /\ UNCHANGED <<starting, cfg, fresh, retry, retryDelay, signalVars, watcher,
                 worldVars>>

\* A report about a modem already replaced.
BugStale(m) == FALSE
Stale(m) == m # ms

\* The main loop takes watcher w's report about m from died.  One about a
\* modem already replaced is dropped; otherwise the radio is torn down and
\* brought up again.
Died(m, w) ==
  /\ pc = "select"
  /\ watcher[m][w] = "reporting"
  /\ watcher' = [watcher EXCEPT ![m][w] = "off"]
  /\ \/ /\ Stale(m)
        /\ UNCHANGED <<pc, ms, bots, observers, opened, setting, pins, sink, faulty>>
     \/ /\ ~Stale(m)
        /\ TearDown
        /\ pc' = "open"
  /\ UNCHANGED <<starting, cfg, fresh, retry, retryDelay, signalVars, worldVars>>

\* The retry timer won the select: its channel is drained, the variable stays.
RetryFires ==
  /\ pc = "select"
  /\ retry = "fired"
  /\ retry' = "spent"
  /\ pc' = "open"
  /\ UNCHANGED <<starting, cfg, ms, fresh, bots, observers, retryDelay,
                 signalVars, modemVars, worldVars>>

\* The loaded config replaces the one in force.
BugAdopt == UNCHANGED cfg
Adopt == cfg' = file

\* A SIGHUP won the select; the config has not been read yet.
ReceiveHup ==
  /\ pc = "select"
  /\ hup = 1
  /\ hup' = 0
  /\ pc' = "load"
  /\ UNCHANGED <<starting, cfg, ms, fresh, bots, observers, retry, retryDelay,
                 owed, term, modemVars, worldVars>>

\* The new config does not load or has no bots: the current one is kept.
RejectReload ==
  /\ pc = "load"
  /\ ~Accepted(file)
  /\ owed' = FALSE
  /\ pc' = "select"
  /\ UNCHANGED <<starting, cfg, ms, fresh, bots, observers, retry, retryDelay,
                 hup, term, modemVars, worldVars>>

\* A field that needs another modem differs.
ModemConfigChanged(old, new) == old.modem # new.modem

\* startBots succeeds: every bot is made and started, or all are stopped.
BotsStart(c) == c.bots = "good"

\* There is no modem, or the new config asks for another one.
ReloadRadio ==
  /\ pc = "load"
  /\ Accepted(file)
  /\ ms = Nil \/ ModemConfigChanged(cfg, file)
  /\ owed' = FALSE
  /\ TearDown
  /\ Adopt
  /\ pc' = "open"
  /\ UNCHANGED <<starting, fresh, retry, retryDelay, hup, term, watcher, worldVars>>

\* startObservers of config c on modem m, the hooks being snk: there is none
\* to start or it fails, which is only logged, or it runs and m's hook reaches
\* it.
StartObservers(c, m, snk) ==
  \/ /\ observers' = Nil
     /\ sink' = snk
  \/ /\ c.mqtt
     /\ observers' = RunOf(c, m)
     /\ sink' = [snk EXCEPT ![m] = RunOf(c, m)]

\* The modem stays: bots and observers are stopped and started again from the
\* new config.
ReloadBots ==
  /\ pc = "load"
  /\ Accepted(file) /\ BotsStart(file)
  /\ ms # Nil /\ ~ModemConfigChanged(cfg, file)
  /\ owed' = FALSE
  /\ bots' = RunOf(file, ms)
  /\ StartObservers(file, ms, Unhooked)
  /\ Adopt
  /\ pc' = "select"
  /\ UNCHANGED <<starting, ms, fresh, retry, retryDelay, hup, term, opened,
                 setting, pins, watcher, faulty, worldVars>>

\* ... and when a bot of the new config does not start, os.Exit(1).
ReloadBotsFails ==
  /\ pc = "load"
  /\ Accepted(file) /\ ~BotsStart(file)
  /\ ms # Nil /\ ~ModemConfigChanged(cfg, file)
  /\ owed' = FALSE
  /\ StopObservers
  /\ bots' = Nil
  /\ pc' = "failed"
  /\ UNCHANGED <<starting, cfg, ms, fresh, retry, retryDelay, hup, term, opened,
                 setting, pins, watcher, faulty, worldVars>>

\* The pins setupSPI takes from boards.json; no other modem reads it.
PinsFor(s) == IF s \in SpiSettings THEN boards ELSE Nil

\* setupModem succeeds: the modem is open, its watchers not started.
SetupModem(m) ==
  /\ pc = "open"
  /\ Free(m)
  /\ cfg.modem \in reachable
  /\ fresh' = m
  /\ opened' = opened \cup {m}
  /\ setting' = [setting EXCEPT ![m] = cfg.modem]
  /\ pins' = [pins EXCEPT ![m] = PinsFor(cfg.modem)]
  /\ pc' = "assemble"
  /\ UNCHANGED <<starting, cfg, ms, bots, observers, retry, retryDelay,
                 signalVars, sink, watcher, faulty, worldVars>>

\* min(retryDelay*2, maxRadioRetry)
BugBackoff(d) == 2 * d
Backoff(d) == IF 2 * d <= MaxRetry THEN 2 * d ELSE MaxRetry

\* bringUp returned an error: at startup the process exits, later radioDown
\* arms the timer and doubles the delay.
BugRadioDownBlocks ==
  IF starting
  THEN pc' = "failed" /\ UNCHANGED <<retry, retryDelay>>
  ELSE pc' = "open" /\ retryDelay' = Backoff(retryDelay) /\ UNCHANGED retry
BugRadioDownForgets ==
  IF starting
  THEN pc' = "failed" /\ UNCHANGED <<retry, retryDelay>>
  ELSE pc' = "select" /\ retryDelay' = Backoff(retryDelay) /\ UNCHANGED retry
BugRadioDownExits == pc' = "failed" /\ UNCHANGED <<retry, retryDelay>>
RadioDown ==
  IF starting
  THEN pc' = "failed" /\ UNCHANGED <<retry, retryDelay>>
  ELSE pc' = "select" /\ retryDelay' = Backoff(retryDelay) /\ retry' = "armed"

\* setupModem fails: the device is not there, or the shutdown cancelled the
\* connect (the SPI setup takes no context).
SetupModemFails ==
  /\ pc = "open"
  /\ cfg.modem \notin reachable \/ (term /\ cfg.modem \notin SpiSettings)
  /\ RadioDown
  /\ UNCHANGED <<starting, cfg, ms, fresh, bots, observers, signalVars,
                 modemVars, worldVars>>

\* What bringUp sets when it succeeds: no retry, and the backoff starts over.
BugRadioUp == UNCHANGED retry /\ retryDelay' = InitialRetry
RadioUp == retry' = "nil" /\ retryDelay' = InitialRetry

\* The rest of bringUp: bots, observers, watchers, and the adoption.
Assemble ==
  /\ pc = "assemble"
  /\ BotsStart(cfg)
  /\ bots' = RunOf(cfg, fresh)
  /\ StartObservers(cfg, fresh, sink)
  /\ watcher' = [watcher EXCEPT ![fresh] =
                   [w \in Watchers |-> IF w \in WatchersOf(cfg.modem)
                                       THEN "watching" ELSE "off"]]
  /\ ms' = fresh
  /\ fresh' = Nil
  /\ RadioUp
  /\ starting' = FALSE
  /\ pc' = "select"
  /\ UNCHANGED <<cfg, signalVars, opened, setting, pins, faulty, worldVars>>

\* A bot does not start: bringUp closes the modem it has just opened.
AssembleFails ==
  /\ pc = "assemble"
  /\ ~BotsStart(cfg)
  /\ CloseModem(fresh)
  /\ fresh' = Nil
  /\ RadioDown
  /\ UNCHANGED <<starting, cfg, ms, bots, observers, signalVars, sink, watcher,
                 worldVars>>

-----------------------------------------------------------------------------
(* Watchers, timer, signals, devices and files.                             *)

\* A watcher decides to report: Dead() has fired, or the probe has counted its
\* misses (which a modem that is merely slow can also cause), and watchDone is
\* still open.
WatcherFires(m, w) ==
  /\ ~exited
  /\ watcher[m][w] = "watching"
  /\ m \in opened
  /\ w = "dead" => m \in faulty
  /\ watcher' = [watcher EXCEPT ![m][w] = "reporting"]
  /\ UNCHANGED <<mainVars, signalVars, opened, setting, pins, sink, faulty, worldVars>>

\* watchDone is closed: the watcher returns, its report undelivered.
WatcherQuits(m, w) ==
  /\ ~exited
  /\ m \notin opened
  /\ watcher[m][w] # "off"
  /\ watcher' = [watcher EXCEPT ![m][w] = "off"]
  /\ UNCHANGED <<mainVars, signalVars, opened, setting, pins, sink, faulty, worldVars>>

\* time.After(retryDelay) elapses.
TimerExpires ==
  /\ ~exited
  /\ retry = "armed"
  /\ retry' = "fired"
  /\ UNCHANGED <<pc, starting, cfg, ms, fresh, bots, observers, retryDelay,
                 signalVars, modemVars, worldVars>>

\* signal.Notify puts a SIGHUP into the channel's buffer of one, or drops it
\* when one is already there.
BugNotify == hup' = IF pc = "select" THEN 1 ELSE hup
Notify == hup' = 1
Sighup ==
  /\ ~exited
  /\ Notify
  /\ owed' = TRUE
  /\ UNCHANGED <<term, mainVars, modemVars, worldVars>>

\* SIGINT or SIGTERM cancels ctx.
Terminate ==
  /\ ~exited /\ ~term
  /\ term' = TRUE
  /\ UNCHANGED <<hup, owed, mainVars, modemVars, worldVars>>

\* The device of settings s goes away, under the modem that has it open.
DeviceLost(s) ==
  /\ ~exited
  /\ s \in reachable
  /\ reachable' = reachable \ {s}
  /\ faulty' = faulty \cup {m \in opened : setting[m] = s}
  /\ UNCHANGED <<mainVars, signalVars, opened, setting, pins, sink, watcher, file, boards>>

DeviceBack(s) ==
  /\ ~exited
  /\ s \in Settings \ reachable
  /\ reachable' = reachable \cup {s}
  /\ UNCHANGED <<mainVars, signalVars, modemVars, file, boards>>

EditConfig ==
  /\ ~exited
  /\ file' \in Files
  /\ UNCHANGED <<mainVars, signalVars, modemVars, reachable, boards>>

EditBoards ==
  /\ ~exited
  /\ boards' \in PinMaps
  /\ UNCHANGED <<mainVars, signalVars, modemVars, reachable, file>>

\* The process is gone.
Gone == exited /\ UNCHANGED vars

Main ==
  \/ CtxDone
  \/ \E m \in Modems, w \in Watchers : Died(m, w)
  \/ RetryFires
  \/ ReceiveHup
  \/ RejectReload
  \/ ReloadRadio
  \/ ReloadBots
  \/ ReloadBotsFails
  \/ \E m \in Modems : SetupModem(m)
  \/ SetupModemFails
  \/ Assemble
  \/ AssembleFails

World ==
  \/ TimerExpires
  \/ Sighup
  \/ Terminate
  \/ \E s \in Settings : DeviceLost(s) \/ DeviceBack(s)
  \/ EditConfig
  \/ EditBoards

Watching == \E m \in Modems, w \in Watchers : WatcherFires(m, w) \/ WatcherQuits(m, w)

Next == Main \/ Watching \/ World \/ Gone

Spec == Init /\ [][Next]_vars

\* The main goroutine keeps running; a select picks at random among the cases
\* that are ready, so none that is ready again and again is passed over for
\* ever; timers expire; goroutines whose channel is ready are scheduled; the
\* Dead() of a lost device fires.
Fairness ==
  /\ WF_vars(Main)
  /\ SF_vars(CtxDone)
  /\ SF_vars(ReceiveHup)
  /\ SF_vars(RetryFires)
  /\ WF_vars(TimerExpires)
  /\ \A m \in Modems, w \in Watchers :
       /\ SF_vars(Died(m, w))
       /\ WF_vars(WatcherQuits(m, w))
  /\ \A m \in Modems : WF_vars(WatcherFires(m, "dead"))

FairSpec == Spec /\ Fairness

-----------------------------------------------------------------------------
(* What the supervisor promises.                                            *)

\* Whenever main waits in the select, either a modem is in use and no retry is
\* pending, with the backoff reset, or none is and the timer will fire: the
\* radio can neither be forgotten nor brought up twice (main.go, bringUp and
\* radioDown over every path of the loop).
UpOrRetrying ==
  pc = "select" =>
    IF ms = Nil THEN retry \in {"armed", "fired"}
    ELSE retry = "nil" /\ retryDelay = InitialRetry

\* The only modem whose port is open is the one in use or the one bringUp is
\* setting up: no path leaks an open modem, which would keep the port busy
\* and make every later connect fail.
NoModemLeaked ==
  ~exited => opened = {ms, fresh} \ {Nil}

\* In the select, bots and observer run on the modem in use and from the
\* config in force, and nothing runs while the radio is down.
RunsTheConfig ==
  pc = "select" =>
    IF ms = Nil THEN bots = Nil /\ observers = Nil
    ELSE /\ bots = RunOf(cfg, ms)
         /\ observers \in {RunOf(cfg, ms), Nil}
         /\ cfg.modem = setting[ms]

\* An outbound frame never reaches an observer that has been stopped: the hook
\* of every modem is empty or points at the running observer (stopObservers
\* and setTxSink around every reload and reconnect).
SinkIsCurrent == \A m \in Modems : sink[m] \in {Nil, observers}

\* No SIGHUP is lost: until the config is read after it, it waits in the
\* channel or main is about to read, whatever main was doing when it came.
HupPending == (owed /\ ~exited) => (hup = 1 \/ pc = "load")

\* A radio is taken down only by a shutdown, a reload or a watcher of its own;
\* a late report about a modem already replaced never touches the healthy one.
OnlyItsOwnWatcher ==
  [][(ms # Nil /\ ms' # ms) =>
       \/ term \/ pc = "load"
       \/ \E w \in Watchers : watcher[ms][w] = "reporting" /\ watcher'[ms][w] = "off"]_vars

\* Every SIGHUP is acted on, however often the radio fails meanwhile.
HupServed == owed ~> (~owed \/ exited)

\* SIGINT and SIGTERM end the process.
ShutdownCompletes == term ~> exited

\* Once the device and the bots of the config in force stay startable, the
\* radio is up again and again, whatever failed before.
Startable == cfg.modem \in reachable /\ BotsStart(cfg)
RadioRecovers == <>[]Startable => []<>(ms # Nil \/ exited)

\* What the operator sees of this state.
Phase == IF exited THEN "ended" ELSE IF starting THEN "starting" ELSE "running"
Serving == IF bots = Nil THEN {} ELSE {bots.cfg}
Suspect == ms # Nil /\ \E w \in Watchers : watcher[ms][w] = "reporting"
Due == hup + (IF pc = "load" THEN 1 ELSE 0)

Sound == {c \in Configs : BotsStart(c)}
SameModem == {cs \in Configs \X Configs : ~ModemConfigChanged(cs[1], cs[2])}

Service == INSTANCE RadioService WITH
  phase <- Phase,
  wanted <- cfg,
  serving <- Serving,
  suspect <- Suspect,
  due <- Due,
  told <- term,
  disk <- file

\* The main loop implements RadioService: behind its generations, its timer and
\* its channels a radio that fails after startup is retried and never ends the
\* process, each reading of the config answers a SIGHUP, and the bots an
\* operator sees are those of the config in force (main.go, the whole loop).
ServesFaithfully == Service!Spec

-----------------------------------------------------------------------------
(* What the documentation promises and the code does not keep.              *)

\* "A config mistake on reload keeps the running config" (CHANGELOG.md): a file
\* whose bots cannot be started leaves the config, the bots and the observer
\* as they were.
ConfigMistakeKeepsRunning ==
  [][(pc = "load" /\ ~starting /\ file.bots = "bad") => UNCHANGED <<cfg, bots, observers>>]_vars
=============================================================================
