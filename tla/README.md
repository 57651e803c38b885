# meshcore-bot in TLA+

A specification of meshcore-bot, the Go program under `src/`, that TLC checks on small instances and
TLAPS proves theorems about. It covers the parts of the program in which order, failure and
concurrency decide what happens: the main loop, the bots and their triggers, the setup, polling and
watching of the radio, the MQTT connection, the packet path of the MQTT observer, and what is kept on
disk.

Run from this directory:

    tlasany Supervisor.tla                                       parse
    tlc -workers 2 -config MCSupervisor.cfg MCSupervisor         model-check
    tlapm SupervisorProofs.tla                                   check the proofs of a module

`PROJECT.json` lists the components, the runs, the source lines behind every definition, the hazards
and the theorems. An operator whose name begins with `Bug` is a plausible mistake in the operator
that follows it; putting it in that one's place must break the property `PROJECT.json` names.

## The system

One process drives one LoRa radio. Several bots and at most one MQTT observer share it.

| Part | State | Operations | Interacts with |
|---|---|---|---|
| Main loop (`main.go`) | config, modem, bots, observer, retry timer and delay, SIGHUP buffer | `bringUp`, `tearDown`, `radioDown`, the cases of the select | starts and stops everything else; receives reports on `died`, signals, its timer |
| Modem (`modemState`, `modem_*.go`) | driver, `watchDone`, closers, the outbound hook `txSink` | `setupModem`, `Close`, `setTxSink`, `clearTxSink` | the drivers call the hook on their send path |
| Watchers (`modem_watch.go`) | misses in a row | `watch`, `probe`, `report` | `Dead()` of the driver, `LastReply` of the statistics, `died` |
| Statistics (`stats.go`, the drivers' providers) | last reply, last readings | `Stats`, `LinkStats`, reply callbacks | polled by the probe and by every status |
| Observer (`mqtt.go`) | counters, last signal, brokers | `onData`, `onOutbound`, `publishPacket`, `publishStatus`, `Start`, `Stop` | receive and transmit goroutines of the modem; one queue per broker |
| Broker (`brokerClient`) | client, queue, `retrying`, `stop`, dedup caches | `connectAndRetry`, `tokenRefreshLoop`, `heartbeatLoop`, `publishWorker` | paho, which reconnects on its own; the broker, which drops duplicate ClientIDs |
| Config (`config*.go`, `main.go`) | the file, its backups | `loadConfig`, `validate`, `migrateLegacyObservers` | the operator, who edits the same file; the main loop |
| Identity (`mqtt_identity.go`) | the key file | `loadOrCreateIdentity`, `writeIdentity` | `startObservers` |
| Bots (`bot.go`, `trigger_*.go`, `sender.go`) | triggers, a node on the mux, a cancel function | `NewBot`, `Start`, `Stop`, callbacks | receive goroutine, cron goroutines |
| Templates, JSON, tokens (`templater.go`, `mqtt_format.go`, `mqtt_auth.go`) | none | conversions | - |

Hard to test, and why it is modelled: a watcher that reports a modem while a reload replaces it;
SIGHUPs and faults during a reconnect; `Close` racing `Dead()`; two retry loops and a token refresh
on one client pointer; `Stop` with a dial in flight; a status composed while both handlers count; an
error reply that answers another poll's request; a callback in flight while its bot is stopped; a
setup that fails after it has opened something;
a crash in the middle of a migration or of writing the key.

What makes each part correct:

- main loop: up or retrying, never both, never neither; no port left open; what runs is what the
  config in force says; no SIGHUP lost; a shutdown ends; a usable radio comes back.
- watchers: no deliberate close is taken for a fault, no silent board is missed, no working one is
  reconnected for ever, no goroutine is left behind.
- broker: one retry loop; a disconnected broker is attended; no second connection; `Stop` ends and
  leaves nothing connected.
- observer: the receive goroutine never waits; each direction is published; counters reconcile.
- bots: a stopped bot begins nothing new; what hangs on the mux is what main will stop.
- modem: a failed setup leaves nothing open; a poll returns; a silent board shows no readings; an
  error reply is not taken for the answer to another request.
- disk: the operator's config survives a migration; the identity never changes.

## Modules

| Module | Models | Notes |
|---|---|---|
| `Supervisor` | the main goroutine and what it starts | implements `RadioService`; composes the parts: a modem is a generation with watchers and a hook |
| `RadioService` | abstract: what an operator may expect of the process | |
| `FaultReport` | abstract: what the main loop relies on from a modem's watchers | |
| `ModemWatch` | both watchers of one modem, `Close`, the board | implements `FaultReport` |
| `BrokerLink` | the goroutines of one broker, paho, the broker | |
| `Observer` | handlers, dedup, queues, airtime, the sampling of a status | |
| `Bots` | bots, triggers and callbacks, under the starts and stops of main | |
| `Modem` | setup and `Close` of a modem of each kind, the polls of the board | |
| `ConfigStore` | config file, backups, key file, crashes | |
| `MC*` | instances for TLC | |
| `*Proofs` | the theorems about a model and their proofs | extends it |

### Supervisor

A step of the main goroutine is a stretch nothing else can observe half done. Receiving in the
select and the `tearDown` after it are one step (`CtxDone`, `Died`, `ReceiveHup`, `RetryFires`);
loading the config is the next (`RejectReload`, `ReloadRadio`, `ReloadBots`, `ReloadBotsFails`);
`setupModem`, which can take ten seconds, is another (`SetupModem`, `SetupModemFails`), and the
rest of `bringUp` the last (`Assemble`, `AssembleFails`). `pc` says where main is. Between the
steps signals arrive, files are edited, devices go and come back, and watchers fire.

A config file is abstracted to whether it loads, whether it lists bots and all of them start,
whether there is an observer, and the settings `modemConfigChanged` compares. Bots and observer
are identified by the config and the modem they were started from, so that a stale one is visible.
The three values of `Settings` stand for the three kinds of modem, which differ in their watchers
(`WatchersOf`), in whether their setup obeys the context, and in whether they read `boards.json`.

`Died` includes the `m != ms` test. The watchers are those `FaultReport` describes: `WatcherFires`
is its `Fire`, `Died` its `Deliver`, `WatcherQuits` its `Quit`; `ModemWatch` is shown to implement
them, so that `Supervisor` need not repeat the probe.

### RadioService

What an operator sees: whether the process is starting, running or has ended (`phase`), the config in
force, the config bots run from, if any (`serving`), whether the radio in use has been reported
(`suspect`), and how many readings of the config file SIGHUPs still call for (`due`). It says what the
process may do about them: no failure of the radio after startup ends it, a reading needs a SIGHUP, a
radio is given up only after a report, a reload or a shutdown. It also says what `ConfigMistakeKeepsRunning`
finds: a mistake in the bots ends the process when the radio stays (`Mistake`) and waits for
another file when it does not (`Reconnect`). `Supervisor` instantiates it under the mapping `Phase`,
`Serving`, `Suspect`, `Due`: generations of modems, the retry timer, the backoff, hooks, watchers and
devices are not seen, so opening a modem or a failed retry is a step that changes nothing.
`ServesFaithfully` is checked in `MCSupervisor` and proved.

### ModemWatch

Each goroutine has a program counter. `Close` is two steps, `watchDone` and then the driver,
because `report` relies on their order. Time is left out: the board is prompt, slow or silent, a
prompt board has answered when a poll returns, and a slow one may answer whenever it likes. `newer`
and `zero` stand for the comparisons of `LastReply` with the value read before the poll.

### BrokerLink

Every point at which another goroutine can get in is a step: dial, check of `stop`, disconnect of
the old client, swap, status poll, release of the flag. paho is external and modelled by how
`mqtt.go` uses it: `IsConnected` is true of a client that is reconnecting, every client uses the
same ClientID so the broker drops the older one, a dropped client reconnects until `Disconnect`,
and a connection that ends without `Disconnect` makes the broker publish the will. The queue holds
statuses only; packets take the same path. A dial may fail although the broker can be reached: no token
could be made, or the broker refused it. Two goroutines can hold a new client at once, so three
client names are enough for one in use and one for each; whoever finds no name free waits, a bound.

### Observer

Each atomic access of a handler is a step, and so is each broker `publishPacket` visits. `handled`
and `rows` are histories. The dedup cache may forget at any time, as a ring does. Of the counters a
status reads, those whose order matters are read in steps of their own; a status writes nothing the
handlers read, so one being composed stands for several. The packets of the advert loop, which keeps
no state, are among those `OnOutbound` takes.

### Bots

Main's part is `startBots`, `startObservers`, `stopObservers`, `stopBots` and `tearDown`, one call of
`NewBot`, of a trigger's `Start` or of a step of `Bot.Stop` at a time; what `Supervisor` says of when
they are called is repeated as far as it matters here (`Reload`, `ModemChanges`, `Shutdown`, and what
`why` says comes after a stop). A bot is named by the call of `startBots` that made it, so that one
of an earlier reload is not taken for its successor of the same name. The receive goroutine takes a
packet to every registered handler in turn: `RxPasses` is the check of the context, `RxAnswers` and
`RxIgnores` the rest of `handlePacket`. A cron job is a goroutine of its own (`jobs`). `air` holds
what bots have sent, which repeaters send back at any later time. `excused` remembers which callbacks
were past their check when the context was done.

The mux, the node and the cron library are external. The model uses of them that the mux calls the
handlers of every attached node one after the other, that `node.Stop` detaches the virtual radio, that
a stopped node may or may not still send, and that `cron.Stop` does not wait for jobs.

### Modem

The setups are sequences of steps (`Steps`), each of which can fail; `Opened` says what a step opens
and appends to `closers`, `ClosesOn` after which failures the code calls `ms.Close`. `host.Init` is
run once for the process (`periph`).

A poll of the KISS provider is three steps: `pollMu` and the counters request (`Locks`), the answer or
a timeout and then the queries (`Concludes`, `GivesUp`), and the snapshot after the pause
(`PollOver`). The board answers commands in order, each with a value or an error (`errors`: a board
without a battery, firmware without counters), and the driver gives an error to whichever request
waits (`Handed`). Temperature and battery are polled and withheld alike; `battery` stands for both.
Time passes between polls in ticks of which `Limit` make `staleReadingAfter`. `late` remembers that
the last poll returned, cut short or from a slow board, before its replies had come: their errors can
then reach the next request, which `CountersAreOwn` does not deny and `pollMu` does not prevent. An
openHop board answers everything at once, and both pollers may ask it together.

### ConfigStore

`os.WriteFile` is two steps with the file torn between them, `os.Rename` is one. A torn config may
fail to parse, or parse as what is left of it (`Remnants`). The process may end anywhere, and the
operator may save at any time; `raced` remembers that he did so during a rewrite, which no lock
prevents. What has been written or renamed lasts: the process may end, not the host. The code does not
sync its files (`config_migrate.go:31`, `config_migrate.go:60`, `mqtt_identity.go:53`), so that what a
host that goes down would leave of them is the file system's to say.

## Runs

| Run | Question | Bounds |
|---|---|---|
| `MCSupervisor` | safety of the main loop, and that it implements `RadioService` | 2 modem names, one modem of each kind, files that are refused, have bad bots, have or lack an observer on the same modem, or ask for another modem; delays 1 to 3 |
| `MCSupervisorLive` | liveness of the main loop | one kind of modem, fewer files |
| `MCSupervisorMistake` | does a config mistake keep the running config? (no) | as above |
| `MCModemWatch` | safety, liveness and refinement of the watchers | the real limit of 3 misses |
| `MCBrokerLink` | safety of one broker, token and basic auth | 2 loops, 3 clients, queue of 1 |
| `MCBrokerLinkLive` | `Stop` ends, statuses keep coming (basic auth); a client always comes back (token auth) | 2 loops, 2 clients, queue of 1; an observer of a broker with token auth is not stopped (`MCTokenRuns`) |
| `MCBrokerLinkRefresh` | is a broker attended after a failed refresh? (not always) | token auth |
| `MCBrokerLinkStop` | is nothing connected after `Stop`? (not always) | both |
| `MCConfigStore` | the files survive | 2 keys, 2 brokers, 2 seconds |
| `MCObserver` | packet path | 2 packets, 2 brokers of which one dedups and one filters, queue of 1, 2 frames heard, 1 sent |
| `MCBots` | callbacks against starts, stops, reloads and a shutdown; liveness of cron runners | 4 configs: two sound, one whose second bot fails in `Start`, one that fails in `NewBot`; 2 calls of `startBots`, 1 other sender, 1 channel, 1 job of a trigger at a time |
| `MCModem` | setups that fail anywhere, polls of the board, liveness of a poll | 2 pollers, a board that answers any set of commands with errors, none and all among them, 3 commands and replies on their way, stale after 1 tick, a process uses either SPI or the two others |

Why the bounds are enough. Two modem names are a modem in use and one whose watchers have not
returned, which is all `m != ms` tells apart; a name is reused only when both of its watchers are
gone. The retry delay doubles twice and is capped. Two retry loops are the one at work and the one
a refresh spawns; a third would be turned away like the second. A queue of one is full and empty.
Two frames on one direction let one be counted while another is sampled. Two seconds give a second
migration in the same second and in a later one. Two calls of `startBots` are the bots before and
after a reload. Three commands are one left over from the last poll and the two a poll sends together. One tick makes a
reading fresh, a second makes it stale. With two client names a retry loop and a refresh can each
dial one, and a failed refresh can take away the client the loop has just adopted, which is what
`TokenReconnects` is about; basic auth never uses more (`BasicNoStray`). That property speaks of an
observer that is not stopped, so that leaving out the stop of one with token auth, which nothing is
obliged to call, leaves out nothing it says; `StopCompletes` is checked for basic auth only. Sets of interchangeable names are symmetric in
the runs that check only safety.

Deadlock is checked in every run. `Supervisor` stutters once the process has gone (`Gone`); in the
other models the world can always move.

### Fairness

- `Supervisor`: the main goroutine runs. Go's select chooses at random among ready cases, so a case
  that is ready again and again is taken (strong fairness of `CtxDone`, `ReceiveHup`, `RetryFires`
  and `Died`). Timers fire, `Dead()` of a lost device closes, and a watcher whose `watchDone` is
  closed returns. Nothing is assumed of devices, files and signals, nor of the probe: `WatcherFires`
  of the probe is not fair.
- `ModemWatch`: goroutines run, a begun `Close` ends, a prompt board answers. The main loop is not
  assumed to receive.
- `BrokerLink`: goroutines run, tickers fire, and paho reconnects while the broker is reachable. A
  retry loop that can be cancelled while it waits is not for ever ended by its timer instead, as Go's
  select chooses at random. A broker that can be reached again and again does not refuse every dial
  for ever, whoever dials: without that neither `StatusKeepsComing` nor `TokenReconnects` could hold.
  `Stop` need not be called, but ends once begun. Nothing is assumed of when the broker comes and goes.
- `Observer`: only the receive goroutine runs.
- `Bots`: the goroutines that wait for a cron trigger's context run. No callback is assumed to return,
  no job to end.
- `Modem`: pollers run and their timers end whatever the board does (strong fairness, since a mood of
  the board that changes on and off must not hold a timer up); `sync.Mutex` starves nobody; a prompt
  board answers. No context is assumed to end.

### Where code and documentation differ

Three runs find a counterexample. Each is an entry of `findings` in `PROJECT.json`, with the lines.

1. `ConfigMistakeKeepsRunning`: on reload, a bot that cannot start ends the process when the radio
   settings are the same; when they differ, the radio is torn down and the new config retried
   until another one is loaded.
2. `AttendedAfterRefresh`: the retry loop a failed refresh spawns returns at once if an earlier
   loop is still publishing its first status; nothing retries until the next tick, which
   `TokenReconnects` shows to be enough once the broker stays.
3. `NothingAdoptedAfterStop`: a refresh that is dialling while `Stop` runs adopts its client.

Smaller ones, which need no run: a SIGHUP with an unchanged config does not set the modem up and so
does not re-read `boards.json`, whatever `lookupBoard` says (`modem_boards.go:216`); the counters of a
status are read one by one, not in one instant (`mqtt.go:637`); the dups of a status count a packet once
for each broker and for rows of both directions, and the received ones are in `flood_rx` and
`direct_rx` already, so that their sum is not `recv` (`stats.go:224-225`).

Two properties of `BrokerLink` are stated for basic auth alone (`BasicAttended`, `BasicNoStray`),
because with token auth the refresh and a retry loop may interleave between reading and swapping
the client. For `Attended` that is finding 2.

## Proofs

Every invariant the passing runs check is proved for all values of the constants that satisfy the
named assumptions of its module, and so are one action property and both refinements.
Each `*Proofs` module has the same shape: an inductive invariant `IInv`, a lemma for each action (or
for a handful that leave the same things alone), `InitHolds`, `NextHolds`, `Invariance`, and the
theorems read off `IInv`. TLC has checked each `IInv` on the instance of the `MC` module.

| Module | Theorem | Says |
|---|---|---|
| `SupervisorProofs` | `TypeCorrect` | `TypeOK` always; the delay never leaves its bounds |
| | `AlwaysUpOrRetrying` | in the select: up and no retry, or down and a retry |
| | `NeverLeaksAModem` | the open modems are the ones main holds |
| | `AlwaysRunsTheConfig` | bots and observer run on the modem in use, from the config in force |
| | `AlwaysCurrentSink` | no hook points at a stopped observer |
| | `NeverLosesAHup` | an unread SIGHUP is in the channel or about to be read |
| | `TakenDownOnlyByItsOwn` | a modem goes only by shutdown, reload or its own watcher's report |
| | `ImplementsService` | every step of the main loop is a step of `RadioService`, or is not seen |
| `ModemWatchProofs` | `TypeCorrect`, `AlwaysInARow` | the probe reports only after as many misses in a row as the limit, of a board that had answered |
| | `ImplementsFaultReport` | every step is a step of `FaultReport`, or is not seen |
| `BrokerLinkProofs` | `TypeCorrect`, `OneLoopAtWork` | one `connectAndRetry` at a time, however many are spawned; the queue keeps to its depth |
| | `BasicIsAttended`, `BasicHasNoStray` | with basic auth: connected or attended, and no connection that nobody would end |
| `ObserverProofs` | `TypeCorrect`, `EveryDirectionIsOffered` | each packet goes to each broker that admits it, once for each direction, whatever dedup forgets |
| | `EveryStatusReconciles` | a status composed while both handlers count reconciles |
| `BotsProofs` | `TypeCorrect`, `NothingNewBegins` | a bot whose context is done sends only what was under way |
| | `TheMuxIsAccountedFor` | no bot of a failed start stays on the mux |
| `ModemProofs` | `TypeCorrect`, `NothingIsLeftOpen` | setups that fail anywhere, of all transports, leave nothing open |
| | `SilenceShowsNothing`, `CountersAreTheirOwn` | what a status may show of the board |
| `ConfigStoreProofs` | `TypeCorrect`, `TheConfigIsKept` | the operator's config survives a crash in a migration |
| | `EveryBrokerIsKept` | a migrated config publishes to the brokers of all the observers merged, and no other |
| | `TheIdentityIsKept` | nothing rotates the key the network has seen |

### Supervisor

None of the invariants but `HupPending` is inductive: they speak of the select, or of all times but
without saying why. `IInv` adds what is true while main is elsewhere. `Phases` has one conjunct for
each: in the select and before the config is read the loop is `Settled` (the modem is the only open
one, or there is none and a timer is armed); while the modem is opened everything of the last one
has gone; while the bots are started the one open modem is `fresh`, opened with the settings of the
config in force. `HooksFollow` ties a hook to the modem its observer runs on, without which
clearing one modem's hook would say nothing about the others. For `ImplementsService` a second lemma
for each action (`...View`) says which step of `RadioService` it is; `InUse` and `BringingUp` read off
`IInv` what the operator sees in each phase. A watcher that returns is not seen because `Phases` makes
its modem one that is not in use, and a report about another modem changes nothing for the same reason.

### ModemWatch

`recent` is a history of outcomes, `misses` the counter of the code: `Row` says that the counter counts
the misses at the end of the history, `AtTheLimit` that the probe polls on only below the limit,
`OnceAlive` that a board that never answered is not counted. `FaultReport` asks of the goroutine on
`Dead()` a fault whenever it reports: `DeadMeansFault` says why that is so though `Close` ends the read
loop as well, which rests on `Close` closing `watchDone` before the driver.

### BrokerLink

`OneOwner` makes the flag the same thing as there being a loop at work, and that loop unique; it needs
nothing else. All that is said of basic auth leans on it: as only that loop may dial, the client it has
dialled is not the one in use, is connected once it is to be adopted, and the one it replaces is
disconnected before (`Replaced`). A loop leaves a client connected or an observer cancelled, since
`Stop` cancels before it touches anything (`Cancelled`). With basic auth the token refresh never gets
beyond its tick (`Basic`), and that is where the argument ends for token auth, as finding 2
shows. A client that loses its connection counts as live, for paho restores it.

### Observer

`Counted` says what a handler has counted by the place it is at: what is received is routed, up to
the one packet in the handler, and aired, up to the same one. `Sampled` carries that through the
reads: each value read is bounded by one the goroutine reads later. The reads have to follow the order
airtime, receptions, routes; any other breaks it. `Offering` follows one packet over the brokers and
adds that the dedup cache of a direction holds only rows of that direction that were offered.

### Bots

`Muxed` (what main holds, and the mux), `Registered` (what the triggers and callbacks hold) and `Sent`
(the air) are kept apart, because the callbacks leave the first alone and main the last. `Placed` and
`Held` say for each place of main which bots are on the mux: those it holds, the one between `NewBot`
and the end of its `Start`, and observers whose own start failed (`Unnamed`). `OnlyUnderWay` is
inductive by way of `excused`, and needs of `Registered` that a callback belongs to a bot that was made.

### Modem

`Closable` lists what may be open with the closers in their order, and `OpenedSoFar` ties it to the
number of steps done. For the readings, `Locked` says who holds `pollMu`, and with it that nothing of
a KISS board is under way between polls; `Own` says that what is under way while the counters are
awaited is the counters, unless the last poll was cut short; `Heard` that no reading is younger than
the last reply.

### ConfigStore

`OnlyHisIsLegacy` says that the process writes only migrated configs, so that a legacy one on disk is
the operator's; `Copied` follows it from the read to the backup to the rewrite. The backup of this
second can be replaced only by one of the same config. That a migrated config validates
(`MigratedValidates`) and lists the brokers of the old one (`MigratedBrokers`) are lemmas about
`Migrated`. `NotYetShown` says that a key being stored is the first.

The merged brokers are a `FlattenSeq`, which the community modules define by recursion on the length.
`FlattenedElements` says what it contains for every sequence of sequences. It needs an induction, and
the library's takes a predicate the provers cannot instantiate; but that `<` is well-founded on `Nat`
is a fact about sets, so that a set that had a least missing member is refuted (`LeastNatural`,
`AllUpTo`). The same gives the function `FlattenSeq` chooses (`ConcatenatesExists`).

### Assumptions

They are named, in the module that declares the constants, and TLC evaluates them in every run:
`Nil` and `Torn` are none of the values they stand beside; limits, depths and delays are natural
numbers, positive where the code's constants are; files, observers, brokers and bots have the fields
the code reads, the special settings are settings; the names of bots are not names of others, and
the names of loops are not that of the refresh; what is left of a torn config has no root observers
(the process writes only migrated configs, which have none to leave). Sets of names, clients,
packets, pollers, documents and keys may have any size, infinite included.

### Model-checked only

- Liveness, since the prover has no fairness: `HupServed`, `ShutdownCompletes`, `RadioRecovers`,
  `SilenceFound`, `WatchersReturn`, `StopCompletes`, `StatusKeepsComing`, `TokenReconnects`,
  `RxNeverBlocked`, `CronsEnd`, `PollsReturn`.
- The three properties that fail.

## Not modelled

- The counters of the SPI provider (`noteError` and the driver's own), which nobody waits for.
- Private messages and other trigger types, which the code refuses; retries of a group message, which
  the node does.
- How a row or a status is laid out (`mqtt_format.go`): conversions of values the models keep.
- Several brokers in `BrokerLink`: they share the goroutine of a refresh, so one waits for
  another's dial, which no property depends on.
- Which of the default config names is found in the working directory.
- Drivers (pins, TCXO, tokens), the radio mux, the node and the protocol: hardware data or
  libraries outside the repository.
- Templates, JSON and token signing: conversions without state.

## Plan

In the order of what matters most:

1. `BrokerLink`: the order of "online" and "offline" at the end of a broker, and how long a stray
   connection of a broker with token auth can last; what holds of token auth once the refresh is over,
   and `StopCompletes` for it, whose state space is some twenty times larger.
2. An abstract specification of what a broker promises its observer, implemented by `BrokerLink`.
