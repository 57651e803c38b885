----------------------------- MODULE BrokerLink -----------------------------
(***************************************************************************)
(* One MQTT broker of one observer (mqtt.go), from Start to Stop: the       *)
(* connectAndRetry goroutines, the token refresh, the heartbeat, the        *)
(* publish worker and Stop, all sharing the client pointer, the publish     *)
(* queue, the stop channel and the retrying flag.                           *)
(*                                                                          *)
(* A step is what one goroutine does between two points where another can   *)
(* get in: a dial, a lock, a channel operation, a poll of the board.        *)
(* A client is a paho connection.  All of them use one ClientID, so the     *)
(* broker drops the older one when another connects, and they reconnect by  *)
(* themselves until Disconnect is called.                                   *)
(***************************************************************************)
EXTENDS Naturals, Sequences, FiniteSets

CONSTANTS
  Loops,       \* names for connectAndRetry goroutines
  Clients,     \* names for paho clients, reused once nobody refers to one
  Nil,         \* no client
  QueueDepth,  \* publishQueueDepth
  AuthTypes    \* which brokers to consider: subset of {"token", "basic"}

ASSUME DepthAssumption == QueueDepth \in Nat \ {0}
ASSUME NilAssumption == Nil \notin Clients
ASSUME AuthAssumption == AuthTypes \subseteq {"token", "basic"}
ASSUME LoopsAssumption == "refresh" \notin Loops

VARIABLES
  auth,        \* cfg.AuthType of this broker: fixed
  client,      \* bc.client
  conn,        \* of each client: "none", "dialing", "up" or "reconnecting"
  reachable,   \* the broker can be reached
  retrying,    \* bc.retrying
  loop,        \* where each connectAndRetry goroutine is
  refresh,     \* where the tokenRefreshLoop is
  heartbeat,   \* where the heartbeatLoop is
  new,         \* the client a goroutine has dialled and not yet adopted
  old,         \* the client it has read and is about to disconnect
  ctxDone,     \* the observer's context is cancelled
  stopped,     \* bc.stop is closed
  stop,        \* where Stop is
  queue,       \* bc.publishCh
  worker,      \* where the publishWorker is
  job,         \* the job it is publishing
  shown        \* the node's status as the broker last had it

clientVars == <<client, conn>>
goVars == <<loop, refresh, heartbeat, new, old, retrying>>
stopVars == <<ctxDone, stopped, stop>>
queueVars == <<queue, worker, job>>
brokerVars == <<reachable, shown>>
vars == <<auth, clientVars, brokerVars, goVars, stopVars, queueVars>>

Dialers == Loops \cup {"refresh"}
Live == {"up", "reconnecting"}
Statuses == {"online", "offline"}

TypeOK ==
  /\ auth \in AuthTypes
  /\ client \in Clients \cup {Nil}
  /\ conn \in [Clients -> {"none", "dialing", "up", "reconnecting"}]
  /\ reachable \in BOOLEAN /\ retrying \in BOOLEAN
  /\ loop \in [Loops -> {"off", "begin", "wait", "check", "dial", "adopt", "swap", "status"}]
  /\ refresh \in {"off", "tick", "dial", "drop", "dropped", "adopt", "swap", "retire", "status"}
  /\ heartbeat \in {"off", "tick", "status"}
  /\ new \in [Dialers -> Clients \cup {Nil}]
  /\ old \in [Dialers -> Clients \cup {Nil}]
  /\ ctxDone \in BOOLEAN /\ stopped \in BOOLEAN
  /\ stop \in {"no", "offline", "close", "wait", "disconnect", "done"}
  /\ queue \in Seq(Statuses) /\ Len(queue) <= QueueDepth
  /\ worker \in {"run", "drain", "done"}
  /\ job \in Statuses \cup {"none"}
  /\ shown \in Statuses \cup {"none"}

\* Start: the worker and the first connectAndRetry run, then the tickers.
Init ==
  /\ auth \in AuthTypes
  /\ client = Nil
  /\ conn = [c \in Clients |-> "none"]
  /\ reachable \in BOOLEAN
  /\ retrying = FALSE
  /\ \E l \in Loops : loop = [x \in Loops |-> IF x = l THEN "begin" ELSE "off"]
  /\ refresh = "tick"
  /\ heartbeat = "tick"
  /\ new = [d \in Dialers |-> Nil]
  /\ old = [d \in Dialers |-> Nil]
  /\ ctxDone = FALSE /\ stopped = FALSE
  /\ stop = "no"
  /\ queue = <<>> /\ worker = "run" /\ job = "none"
  /\ shown = "none"

-----------------------------------------------------------------------------
(* The paho library, as mqtt.go uses it.                                    *)

\* IsConnected: with auto-reconnect a client that is reconnecting counts.
IsConnected(c) == c # Nil /\ conn[c] \in Live

\* Nobody refers to client c any more, and it holds no connection.
Unused(c) ==
  /\ conn[c] = "none"
  /\ c # client
  /\ \A d \in Dialers : new[d] # c /\ old[d] # c

\* Connections that end without a Disconnect: paho will reconnect them, and
\* the broker publishes their will, which says offline.
Kicked == [x \in Clients |-> IF conn[x] = "up" THEN "reconnecting" ELSE conn[x]]
WillShown ==
  shown' = IF \E x \in Clients : conn[x] = "up" THEN "offline" ELSE shown

\* c is connected; the broker drops whoever held the ClientID.
Connects(c) ==
  /\ conn' = [Kicked EXCEPT ![c] = "up"]
  /\ WillShown

\* Disconnect of c, which may be nil: for good.
Disconnected(c) == [x \in Clients |-> IF x = c THEN "none" ELSE conn[x]]

\* A client reconnects by itself, pushing off another.
Reconnect(c) ==
  /\ reachable
  /\ conn[c] = "reconnecting"
  /\ Connects(c)
  /\ UNCHANGED <<auth, client, reachable, goVars, stopVars, queueVars>>

\* The broker cannot be reached, or answers too late for a dial or a publish.
BrokerLost ==
  /\ reachable
  /\ reachable' = FALSE
  /\ conn' = Kicked
  /\ WillShown
  /\ UNCHANGED <<auth, client, goVars, stopVars, queueVars>>

BrokerBack ==
  /\ ~reachable
  /\ reachable' = TRUE
  /\ UNCHANGED <<auth, clientVars, shown, goVars, stopVars, queueVars>>

\* connectBroker of goroutine d begins: a client is made, and dials.
BeginDial(d) ==
  \E c \in Clients :
    /\ Unused(c)
    /\ new' = [new EXCEPT ![d] = c]
    /\ conn' = [conn EXCEPT ![c] = "dialing"]
    /\ UNCHANGED shown

\* It succeeds ...
DialSucceeds(d) == reachable /\ Connects(new[d]) /\ UNCHANGED new

\* ... or fails: no token could be made, the broker refused the connection, or
\* the dial timed out and is disconnected.  paho keeps nothing.
BugDialFails(d) ==
  /\ conn' = [conn EXCEPT ![new[d]] = "reconnecting"]
  /\ new' = [new EXCEPT ![d] = Nil]
  /\ UNCHANGED shown
DialFails(d) ==
  /\ conn' = Disconnected(new[d])
  /\ new' = [new EXCEPT ![d] = Nil]
  /\ UNCHANGED shown

-----------------------------------------------------------------------------
(* enqueuePublish: never waits.  With the queue full the job is dropped;     *)
(* once stop is closed the select may take either ready case.               *)
BugEnqueue(status) ==
  \/ queue' = Append(queue, status)
  \/ stopped /\ UNCHANGED queue
Enqueue(status) ==
  \/ Len(queue) < QueueDepth /\ queue' = Append(queue, status)
  \/ stopped /\ UNCHANGED queue
  \/ ~stopped /\ Len(queue) = QueueDepth /\ UNCHANGED queue

-----------------------------------------------------------------------------
(* connectAndRetry.                                                         *)

LoopGoes(l, to) == loop' = [loop EXCEPT ![l] = to]
LoopUnchanged == UNCHANGED <<auth, reachable, refresh, heartbeat, stopVars, worker, job>>

\* The loop returns, giving up the flag.
LoopReturns(l) ==
  /\ LoopGoes(l, "off")
  /\ retrying' = FALSE
  /\ new' = [new EXCEPT ![l] = Nil]
  /\ old' = [old EXCEPT ![l] = Nil]

\* CompareAndSwap: one loop owns the broker, any other returns at once.
BugOwned == FALSE
Owned == retrying

LoopBegins(l) ==
  /\ loop[l] = "begin"
  /\ retrying' = TRUE
  /\ LoopGoes(l, IF Owned THEN "off" ELSE "wait")
  /\ UNCHANGED <<shown, clientVars, new, old, queue>>
  /\ LoopUnchanged

\* ctx or stop ended the wait ...
BugLoopStops(l) ==
  /\ loop[l] = "wait"
  /\ stopped /\ client # Nil
  /\ LoopReturns(l)
  /\ UNCHANGED <<shown, clientVars, queue>>
  /\ LoopUnchanged
LoopStops(l) ==
  /\ loop[l] = "wait"
  /\ ctxDone \/ stopped
  /\ LoopReturns(l)
  /\ UNCHANGED <<shown, clientVars, queue>>
  /\ LoopUnchanged

\* ... or the delay is over.
LoopWakes(l) ==
  /\ loop[l] = "wait"
  /\ LoopGoes(l, "check")
  /\ UNCHANGED <<shown, clientVars, retrying, new, old, queue>>
  /\ LoopUnchanged

\* A healthy client is left alone; otherwise dial.
LoopFindsHealthy(l) ==
  /\ loop[l] = "check"
  /\ IsConnected(client)
  /\ LoopReturns(l)
  /\ UNCHANGED <<shown, clientVars, queue>>
  /\ LoopUnchanged

LoopDials(l) ==
  /\ loop[l] = "check"
  /\ ~IsConnected(client)
  /\ BeginDial(l)
  /\ LoopGoes(l, "dial")
  /\ UNCHANGED <<client, retrying, old, queue>>
  /\ LoopUnchanged

LoopConnects(l) ==
  /\ loop[l] = "dial"
  /\ DialSucceeds(l)
  /\ LoopGoes(l, "adopt")
  /\ UNCHANGED <<client, retrying, old, queue>>
  /\ LoopUnchanged

\* The dial failed: wait longer and try again.
BugLoopMisses(l) ==
  /\ loop[l] = "dial"
  /\ DialFails(l)
  /\ LoopGoes(l, "off")
  /\ retrying' = FALSE
  /\ UNCHANGED <<client, old, queue>>
  /\ LoopUnchanged
LoopMisses(l) ==
  /\ loop[l] = "dial"
  /\ DialFails(l)
  /\ LoopGoes(l, "wait")
  /\ UNCHANGED <<client, retrying, old, queue>>
  /\ LoopUnchanged

\* Stop ran while the dial was in flight: the new client is not adopted.
LoopTooLate(l) ==
  /\ loop[l] = "adopt"
  /\ stopped
  /\ conn' = Disconnected(new[l])
  /\ LoopReturns(l)
  /\ UNCHANGED <<shown, client, queue>>
  /\ LoopUnchanged

\* Otherwise a stale client is disconnected ...
LoopRetires(l) ==
  /\ loop[l] = "adopt"
  /\ ~stopped
  /\ conn' = Disconnected(client)
  /\ LoopGoes(l, "swap")
  /\ UNCHANGED <<shown, client, retrying, new, old, queue>>
  /\ LoopUnchanged

\* ... the new one adopted, and the board polled for the first status.
LoopSwaps(l) ==
  /\ loop[l] = "swap"
  /\ client' = new[l]
  /\ new' = [new EXCEPT ![l] = Nil]
  /\ LoopGoes(l, "status")
  /\ UNCHANGED <<shown, conn, retrying, old, queue>>
  /\ LoopUnchanged

LoopPublishes(l) ==
  /\ loop[l] = "status"
  /\ Enqueue("online")
  /\ LoopReturns(l)
  /\ UNCHANGED <<shown, clientVars>>
  /\ LoopUnchanged

Loop(l) ==
  \/ LoopBegins(l) \/ LoopStops(l) \/ LoopWakes(l) \/ LoopFindsHealthy(l)
  \/ LoopDials(l) \/ LoopConnects(l) \/ LoopMisses(l) \/ LoopTooLate(l)
  \/ LoopRetires(l) \/ LoopSwaps(l) \/ LoopPublishes(l)

-----------------------------------------------------------------------------
(* tokenRefreshLoop: for a broker with token auth only.                     *)

RefreshGoes(to) == refresh' = to
RefreshUnchanged == UNCHANGED <<auth, reachable, heartbeat, stopVars, worker, job>>

RefreshEnds ==
  /\ refresh = "tick"
  /\ ctxDone
  /\ RefreshGoes("off")
  /\ UNCHANGED <<shown, clientVars, loop, new, old, retrying, queue>>
  /\ RefreshUnchanged

\* A tick, of a ticker that ctx may have ended already: dial a client with a
\* fresh token.
RefreshTicks ==
  /\ refresh = "tick"
  /\ auth = "token"
  /\ stop # "done"
  /\ BeginDial("refresh")
  /\ RefreshGoes("dial")
  /\ UNCHANGED <<client, loop, old, retrying, queue>>
  /\ RefreshUnchanged

\* It failed: the client with the old token is disconnected ...
RefreshMisses ==
  /\ refresh = "dial"
  /\ DialFails("refresh")
  /\ RefreshGoes("drop")
  /\ UNCHANGED <<client, loop, old, retrying, queue>>
  /\ RefreshUnchanged

RefreshDisconnects ==
  /\ refresh = "drop"
  /\ old' = [old EXCEPT !["refresh"] = client]
  /\ conn' = Disconnected(client)
  /\ RefreshGoes("dropped")
  /\ UNCHANGED <<shown, client, loop, new, retrying, queue>>
  /\ RefreshUnchanged

\* ... and forgotten, and a connectAndRetry spawned.  Bound: a free name.  In
\* BugRefreshRetries the loop of the refresh ends with that.
BugRefreshRetries ==
  /\ refresh = "dropped"
  /\ client' = IF old["refresh"] # Nil THEN Nil ELSE client
  /\ old' = [old EXCEPT !["refresh"] = Nil]
  /\ \E l \in Loops : loop[l] = "off" /\ LoopGoes(l, "begin")
  /\ RefreshGoes("off")
  /\ UNCHANGED <<shown, conn, new, retrying, queue>>
  /\ RefreshUnchanged
RefreshRetries ==
  /\ refresh = "dropped"
  /\ client' = IF old["refresh"] # Nil THEN Nil ELSE client
  /\ old' = [old EXCEPT !["refresh"] = Nil]
  /\ \E l \in Loops : loop[l] = "off" /\ LoopGoes(l, "begin")
  /\ RefreshGoes("tick")
  /\ UNCHANGED <<shown, conn, new, retrying, queue>>
  /\ RefreshUnchanged

\* It succeeded: the old client is read, the new one takes its place ...
RefreshConnects ==
  /\ refresh = "dial"
  /\ DialSucceeds("refresh")
  /\ RefreshGoes("adopt")
  /\ UNCHANGED <<client, loop, old, retrying, queue>>
  /\ RefreshUnchanged

RefreshReads ==
  /\ refresh = "adopt"
  /\ old' = [old EXCEPT !["refresh"] = client]
  /\ RefreshGoes("swap")
  /\ UNCHANGED <<shown, clientVars, loop, new, retrying, queue>>
  /\ RefreshUnchanged

RefreshSwaps ==
  /\ refresh = "swap"
  /\ client' = new["refresh"]
  /\ new' = [new EXCEPT !["refresh"] = Nil]
  /\ RefreshGoes("retire")
  /\ UNCHANGED <<shown, conn, loop, old, retrying, queue>>
  /\ RefreshUnchanged

\* ... the old one is disconnected, and the status published.
RefreshRetires ==
  /\ refresh = "retire"
  /\ conn' = Disconnected(old["refresh"])
  /\ old' = [old EXCEPT !["refresh"] = Nil]
  /\ RefreshGoes("status")
  /\ UNCHANGED <<shown, client, loop, new, retrying, queue>>
  /\ RefreshUnchanged

RefreshPublishes ==
  /\ refresh = "status"
  /\ Enqueue("online")
  /\ RefreshGoes("tick")
  /\ UNCHANGED <<shown, clientVars, loop, new, old, retrying>>
  /\ RefreshUnchanged

Refresh ==
  \/ RefreshEnds \/ RefreshTicks \/ RefreshMisses \/ RefreshDisconnects
  \/ RefreshRetries \/ RefreshConnects \/ RefreshReads \/ RefreshSwaps
  \/ RefreshRetires \/ RefreshPublishes

-----------------------------------------------------------------------------
(* heartbeatLoop: the board is polled, then "online" queued.                *)

HeartbeatUnchanged ==
  UNCHANGED <<auth, clientVars, brokerVars, loop, refresh, new, old, retrying,
              stopVars, worker, job>>

HeartbeatEnds ==
  /\ heartbeat = "tick"
  /\ ctxDone
  /\ heartbeat' = "off"
  /\ UNCHANGED queue
  /\ HeartbeatUnchanged

HeartbeatTicks ==
  /\ heartbeat = "tick"
  /\ stop # "done"
  /\ heartbeat' = "status"
  /\ UNCHANGED queue
  /\ HeartbeatUnchanged

HeartbeatPublishes ==
  /\ heartbeat = "status"
  /\ Enqueue("online")
  /\ heartbeat' = "tick"
  /\ HeartbeatUnchanged

-----------------------------------------------------------------------------
(* publishWorker and doPublish.                                             *)

WorkerUnchanged == UNCHANGED <<auth, clientVars, reachable, goVars, stopVars>>

WorkerTakes ==
  /\ worker # "done" /\ job = "none"
  /\ queue # <<>>
  /\ job' = Head(queue)
  /\ queue' = Tail(queue)
  /\ UNCHANGED <<worker, shown>>
  /\ WorkerUnchanged

\* Without a connected client the job is dropped; on one that is reconnecting
\* the publish times out.
BugPublish ==
  /\ job # "none"
  /\ job' = "none"
  /\ IsConnected(client) => conn[client] = "up"
  /\ shown' = IF IsConnected(client) THEN job ELSE shown
  /\ UNCHANGED <<worker, queue>>
  /\ WorkerUnchanged
Publish ==
  /\ job # "none"
  /\ job' = "none"
  /\ shown' = IF client # Nil /\ conn[client] = "up" THEN job ELSE shown
  /\ UNCHANGED <<worker, queue>>
  /\ WorkerUnchanged

\* stop is seen: what is buffered is drained first.
WorkerStops ==
  /\ worker = "run" /\ job = "none"
  /\ stopped
  /\ worker' = "drain"
  /\ UNCHANGED <<queue, job, shown>>
  /\ WorkerUnchanged

WorkerExits ==
  /\ worker = "drain" /\ job = "none"
  /\ queue = <<>>
  /\ worker' = "done"
  /\ UNCHANGED <<queue, job, shown>>
  /\ WorkerUnchanged

Worker == WorkerTakes \/ Publish \/ WorkerStops \/ WorkerExits

-----------------------------------------------------------------------------
(* Stop.                                                                    *)

StopUnchanged == UNCHANGED <<auth, client, brokerVars, goVars, worker, job>>

\* On shutdown main cancels the parent of the observer's context first.
ParentCancels ==
  /\ ~ctxDone
  /\ ctxDone' = TRUE
  /\ UNCHANGED <<conn, stopped, stop, queue>>
  /\ StopUnchanged

StopBegins ==
  /\ stop = "no"
  /\ ctxDone' = TRUE
  /\ stop' = "offline"
  /\ UNCHANGED <<conn, stopped, queue>>
  /\ StopUnchanged

StopPublishes ==
  /\ stop = "offline"
  /\ Enqueue("offline")
  /\ stop' = "close"
  /\ UNCHANGED <<conn, ctxDone, stopped>>
  /\ StopUnchanged

StopCloses ==
  /\ stop = "close"
  /\ stopped' = TRUE
  /\ stop' = "wait"
  /\ UNCHANGED <<conn, ctxDone, queue>>
  /\ StopUnchanged

\* The worker is done, or five seconds have passed.
StopWaited ==
  /\ stop = "wait"
  /\ stop' = "disconnect"
  /\ UNCHANGED <<conn, ctxDone, stopped, queue>>
  /\ StopUnchanged

StopDisconnects ==
  /\ stop = "disconnect"
  /\ conn' = Disconnected(client)
  /\ stop' = "done"
  /\ UNCHANGED <<ctxDone, stopped, queue>>
  /\ StopUnchanged

Stop ==
  StopBegins \/ StopPublishes \/ StopCloses \/ StopWaited \/ StopDisconnects

-----------------------------------------------------------------------------
Next ==
  \/ \E l \in Loops : Loop(l)
  \/ Refresh
  \/ HeartbeatEnds \/ HeartbeatTicks \/ HeartbeatPublishes
  \/ Worker
  \/ ParentCancels \/ Stop
  \/ \E c \in Clients : Reconnect(c)
  \/ BrokerLost \/ BrokerBack

Spec == Init /\ [][Next]_vars

\* Goroutines run, tickers fire, and paho reconnects while the broker can be
\* reached.  A wait that a cancellation ends as well as its timer is not always
\* ended by the timer, and a broker that stays reachable does not refuse every
\* dial for ever (SF).  Nobody has to call Stop; once called it runs to its end.
FairSpec ==
  /\ Spec
  /\ \A l \in Loops : WF_vars(Loop(l))
  /\ SF_vars(\E l \in Loops : LoopStops(l))
  /\ SF_vars(RefreshConnects \/ \E l \in Loops : LoopConnects(l))
  /\ WF_vars(RefreshTicks) /\ WF_vars(Refresh /\ (refresh = "tick" => ctxDone))
  /\ WF_vars(HeartbeatTicks) /\ WF_vars(HeartbeatPublishes) /\ WF_vars(HeartbeatEnds)
  /\ WF_vars(Worker)
  /\ WF_vars(Stop /\ stop # "no")
  /\ \A c \in Clients : WF_vars(Reconnect(c))

-----------------------------------------------------------------------------
\* Two connectAndRetry loops never work on one broker: the second, which a
\* failed token refresh spawned, returns at once (the retrying flag).
OneLoop == Cardinality({l \in Loops : loop[l] \notin {"off", "begin"}}) <= 1

\* A broker without a connection, while its observer runs, has a loop at work
\* on it, wherever the worker, the heartbeat and paho's own reconnects are.
Attended ==
  ~ctxDone /\ ~IsConnected(client) /\ refresh \in {"off", "tick"}
    => \E l \in Loops : loop[l] # "off"

\* Attended for a broker with basic auth, whose client only one loop replaces.
BasicAttended == auth = "basic" => Attended

\* A broker with basic auth has no connection besides the one in use and one
\* just dialled: another would fight with them for the ClientID for ever.
BasicNoStray ==
  auth = "basic" =>
    \A c \in Clients : conn[c] \in Live => c = client \/ \E d \in Dialers : new[d] = c

\* Stop comes to its end however the broker behaves, and so does every
\* goroutine of the broker: one that stays would keep a connection alive.
StopCompletes ==
  stop = "offline" ~>
    /\ stop = "done"
    /\ worker = "done" /\ heartbeat = "off" /\ refresh = "off"
    /\ \A l \in Loops : loop[l] = "off"

\* A broker that stays reachable, however late, hears again and again from an
\* observer that is not stopped (basic auth).
StatusKeepsComing ==
  auth = "basic" /\ <>[]reachable /\ []~ctxDone => []<>(shown = "online")

\* A broker with token auth that stays reachable always gets a client again
\* from an observer that is not stopped, although a failed refresh can leave it
\* without a client and without a loop (mqtt.go:595-602): the refresh ticks on.
TokenReconnects ==
  auth = "token" /\ <>[]reachable /\ []~ctxDone
    => []<>IsConnected(client)

\* What CHANGELOG.md says of a failed token refresh: the broker is not left
\* disconnected, for any kind of auth (mqtt.go:583-602).
AttendedAfterRefresh == Attended

\* What the comment in connectAndRetry says Stop must not be met with: a live
\* connection handed to a broker that nobody will disconnect (mqtt.go:250-251).
NothingAdoptedAfterStop == stop = "done" => ~IsConnected(client)
=============================================================================
