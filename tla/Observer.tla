------------------------------ MODULE Observer ------------------------------
(***************************************************************************)
(* The packet path of an MQTT observer (mqtt.go): a handler on the modem's  *)
(* receive goroutine, one on its transmit goroutine, and a goroutine that   *)
(* composes a status, sharing the counters and, with the publish workers,   *)
(* the queue of each broker.  Every atomic access is a step of its own.     *)
(*                                                                          *)
(* What becomes of a broker's connection is BrokerLink's subject.           *)
(***************************************************************************)
EXTENDS Naturals, Sequences, FiniteSets

CONSTANTS
  Packets,     \* what the dedup hash tells apart
  Direct,      \* the packets with a direct route; the others are flooded
  Brokers,
  Allowed,     \* Allowed[b]: the packets isAllowed lets through to b
  Dedups,      \* the brokers with dedup configured
  QueueDepth,  \* publishQueueDepth
  MaxRx,       \* bound: frames heard
  MaxTx,       \* bound: frames sent
  Nil          \* nothing received or handled

ASSUME PacketsAssumption == Direct \subseteq Packets /\ Nil \notin Packets
ASSUME BrokersAssumption == Dedups \subseteq Brokers /\ Allowed \in [Brokers -> SUBSET Packets]
ASSUME BoundsAssumption == QueueDepth \in Nat \ {0} /\ {MaxRx, MaxTx} \subseteq Nat

VARIABLES
  at,        \* where the handler of each direction is
  pkt,       \* the packet it is handling
  left,      \* the brokers it has yet to offer the packet to
  received,  \* packetsReceived
  signal,    \* lastSNRBits and lastRSSI: the packet they are of
  air,       \* rxAirMs and txAirMs, one for a packet
  routed,    \* floodRx, directRx, floodTx, directTx
  dups,      \* floodDups, directDups
  cache,     \* dedupRx and dedupTx of each broker
  queue,     \* publishCh of each broker
  polling,   \* where the goroutine composing a status is
  status,    \* what it has sampled
  handled,   \* history: the packets each direction is through with
  rows       \* history: the rows each broker was offered, by direction

handlerVars == <<at, pkt, left, handled>>
counterVars == <<received, signal, air, routed, dups>>
brokerVars == <<cache, queue, rows>>
statusVars == <<polling, status>>
vars == <<handlerVars, counterVars, brokerVars, statusVars>>

Directions == {"rx", "tx"}
Routes == {"flood", "direct"}
RouteOf(p) == IF p \in Direct THEN "direct" ELSE "flood"

TypeOK ==
  /\ at \in [Directions -> {"idle", "signal", "air", "route", "publish"}]
  /\ pkt \in [Directions -> Packets \cup {Nil}]
  /\ left \in [Directions -> SUBSET Brokers]
  /\ received \in 0 .. MaxRx
  /\ signal \in Packets \cup {Nil}
  /\ air \in [Directions -> Nat]
  /\ routed \in [Directions -> [Routes -> Nat]]
  /\ dups \in [Routes -> Nat]
  /\ cache \in [Brokers -> [Directions -> SUBSET Packets]]
  /\ \A b \in Brokers : queue[b] \in Seq(Directions \X Packets) /\ Len(queue[b]) <= QueueDepth
  /\ polling \in {"idle", "health", "received", "flood", "done"}
  /\ status \in [signal : Packets \cup {Nil}, air : Nat, received : Nat, flood : Nat, direct : Nat]
  /\ handled \in [Directions -> SUBSET Packets]
  /\ rows \in [Brokers -> SUBSET (Directions \X Packets)]

NoStatus == [signal |-> Nil, air |-> 0, received |-> 0, flood |-> 0, direct |-> 0]

Init ==
  /\ at = [d \in Directions |-> "idle"]
  /\ pkt = [d \in Directions |-> Nil]
  /\ left = [d \in Directions |-> {}]
  /\ received = 0 /\ signal = Nil
  /\ air = [d \in Directions |-> 0]
  /\ routed = [d \in Directions |-> [r \in Routes |-> 0]]
  /\ dups = [r \in Routes |-> 0]
  /\ cache = [b \in Brokers |-> [d \in Directions |-> {}]]
  /\ queue = [b \in Brokers |-> <<>>]
  /\ polling = "idle" /\ status = NoStatus
  /\ handled = [d \in Directions |-> {}]
  /\ rows = [b \in Brokers |-> {}]

-----------------------------------------------------------------------------
(* onData and onOutbound.                                                   *)

Goes(d, to) == at' = [at EXCEPT ![d] = to]

\* A frame that parses arrives: it is counted, and its signal noted.
OnData(p) ==
  /\ at["rx"] = "idle" /\ received < MaxRx
  /\ pkt' = [pkt EXCEPT !["rx"] = p]
  /\ received' = received + 1
  /\ Goes("rx", "signal")
  /\ UNCHANGED <<left, handled, signal, air, routed, dups, brokerVars, statusVars>>

StoreSignal ==
  /\ at["rx"] = "signal"
  /\ signal' = pkt["rx"]
  /\ Goes("rx", "air")
  /\ UNCHANGED <<pkt, left, handled, received, air, routed, dups, brokerVars, statusVars>>

\* A received packet's airtime is added before its route is counted, one that is
\* sent has its route counted first.
AddAir(d) ==
  /\ at[d] = "air"
  /\ air' = [air EXCEPT ![d] = @ + 1]
  /\ Goes(d, IF d = "rx" THEN "route" ELSE "publish")
  /\ UNCHANGED <<pkt, left, handled, received, signal, routed, dups, brokerVars, statusVars>>

\* The modem sends a frame for anyone in the process.
OnOutbound(p) ==
  /\ at["tx"] = "idle"
  /\ routed["tx"]["flood"] + routed["tx"]["direct"] < MaxTx
  /\ pkt' = [pkt EXCEPT !["tx"] = p]
  /\ Goes("tx", "route")
  /\ UNCHANGED <<left, handled, counterVars, brokerVars, statusVars>>

BugCountRoute(d) ==
  /\ at[d] = "route"
  /\ routed' = IF pkt[d] \in Direct THEN routed ELSE [routed EXCEPT ![d]["flood"] = @ + 1]
  /\ left' = [left EXCEPT ![d] = Brokers]
  /\ Goes(d, IF d = "rx" THEN "publish" ELSE "air")
  /\ UNCHANGED <<pkt, handled, received, signal, air, dups, brokerVars, statusVars>>
CountRoute(d) ==
  /\ at[d] = "route"
  /\ routed' = [routed EXCEPT ![d][RouteOf(pkt[d])] = @ + 1]
  /\ left' = [left EXCEPT ![d] = Brokers]
  /\ Goes(d, IF d = "rx" THEN "publish" ELSE "air")
  /\ UNCHANGED <<pkt, handled, received, signal, air, dups, brokerVars, statusVars>>

-----------------------------------------------------------------------------
(* publishPacket, for one broker after the other.                           *)

Visited(d, b) == left' = [left EXCEPT ![d] = @ \ {b}]
PublishUnchanged(d) ==
  /\ at[d] = "publish"
  /\ UNCHANGED <<at, pkt, handled, received, signal, air, routed, statusVars>>

Filtered(d, b) ==
  /\ b \in left[d] /\ pkt[d] \notin Allowed[b]
  /\ Visited(d, b)
  /\ UNCHANGED <<dups, brokerVars>>
  /\ PublishUnchanged(d)

\* The cache of a direction: shared, a tx row would be a duplicate of its rx.
BugDedupFor(d) == "rx"
DedupFor(d) == d

Seen(d, b) == b \in Dedups /\ pkt[d] \in cache[b][DedupFor(d)]

Duplicate(d, b) ==
  /\ b \in left[d] /\ pkt[d] \in Allowed[b]
  /\ Seen(d, b)
  /\ dups' = [dups EXCEPT ![RouteOf(pkt[d])] = @ + 1]
  /\ Visited(d, b)
  /\ UNCHANGED brokerVars
  /\ PublishUnchanged(d)

\* enqueuePublish: with the queue full the row is dropped, never waited for.
BugEnqueue(b, row) ==
  /\ Len(queue[b]) < QueueDepth
  /\ queue' = [queue EXCEPT ![b] = Append(@, row)]
BugEnqueueGrows(b, row) == queue' = [queue EXCEPT ![b] = Append(@, row)]
Enqueue(b, row) ==
  queue' = IF Len(queue[b]) < QueueDepth
           THEN [queue EXCEPT ![b] = Append(@, row)] ELSE queue

\* HasSeen has put the packet in the cache by the time the row is queued.
Offered(d, b) ==
  /\ b \in left[d] /\ pkt[d] \in Allowed[b]
  /\ ~Seen(d, b)
  /\ cache' = IF b \in Dedups
              THEN [cache EXCEPT ![b][DedupFor(d)] = @ \cup {pkt[d]}] ELSE cache
  /\ Enqueue(b, <<d, pkt[d]>>)
  /\ rows' = [rows EXCEPT ![b] = @ \cup {<<d, pkt[d]>>}]
  /\ Visited(d, b)
  /\ UNCHANGED dups
  /\ PublishUnchanged(d)

Returns(d) ==
  /\ at[d] = "publish" /\ left[d] = {}
  /\ handled' = [handled EXCEPT ![d] = @ \cup {pkt[d]}]
  /\ pkt' = [pkt EXCEPT ![d] = Nil]
  /\ Goes(d, "idle")
  /\ UNCHANGED <<left, counterVars, brokerVars, statusVars>>

\* The cache is a ring: old hashes are forgotten.
Forget(b, d, p) ==
  /\ p \in cache[b][d]
  /\ cache' = [cache EXCEPT ![b][d] = @ \ {p}]
  /\ UNCHANGED <<handlerVars, counterVars, queue, rows, statusVars>>

\* A broker's worker takes a row.
Take(b) ==
  /\ queue[b] # <<>>
  /\ queue' = [queue EXCEPT ![b] = Tail(@)]
  /\ UNCHANGED <<handlerVars, counterVars, cache, rows, statusVars>>

-----------------------------------------------------------------------------
(* publishStatus: the board has been polled; the counters are read one by   *)
(* one.                                                                     *)

Sample(from, to) == polling = from /\ polling' = to
SampleUnchanged == UNCHANGED <<handlerVars, counterVars, brokerVars>>

\* The fields of health; nothing tells the moments of their reads apart.
SampleHealth ==
  /\ Sample("idle", "health")
  /\ status' = [NoStatus EXCEPT !.signal = signal, !.air = air["rx"]]
  /\ SampleUnchanged

SampleReceived ==
  /\ Sample("health", "received")
  /\ status' = [status EXCEPT !.received = received]
  /\ SampleUnchanged

SampleFlood ==
  /\ Sample("received", "flood")
  /\ status' = [status EXCEPT !.flood = routed["rx"]["flood"]]
  /\ SampleUnchanged

SampleDirect ==
  /\ Sample("flood", "done")
  /\ status' = [status EXCEPT !.direct = routed["rx"]["direct"]]
  /\ SampleUnchanged

\* The status is queued; the next one starts from nothing.
PublishStatus ==
  /\ Sample("done", "idle")
  /\ status' = NoStatus
  /\ SampleUnchanged

-----------------------------------------------------------------------------
Handler(d) ==
  \/ AddAir(d) \/ CountRoute(d) \/ Returns(d)
  \/ \E b \in Brokers : Filtered(d, b) \/ Duplicate(d, b) \/ Offered(d, b)
Receiving == StoreSignal \/ Handler("rx")
Status ==
  SampleHealth \/ SampleReceived \/ SampleFlood \/ SampleDirect \/ PublishStatus

Next ==
  \/ \E p \in Packets : OnData(p) \/ OnOutbound(p)
  \/ Receiving \/ Handler("tx")
  \/ \E b \in Brokers : Take(b) \/ \E d \in Directions, p \in Packets : Forget(b, d, p)
  \/ Status

Spec == Init /\ [][Next]_vars

\* Only the receive goroutine is sure to run: no worker, no transmitter.
FairSpec == Spec /\ WF_vars(Receiving)

-----------------------------------------------------------------------------
\* The receive goroutine, which serves every bot, is never held up by a slow
\* broker: a handler ends though no queue is ever emptied (enqueuePublish).
RxNeverBlocked == at["rx"] # "idle" ~> at["rx"] = "idle"

\* Every packet is offered to every broker that admits it, once for each
\* direction: what we heard and then repeated appears as sent as well.
EveryDirectionOffered ==
  \A d \in Directions : \A p \in handled[d] : \A b \in Brokers :
    p \in Allowed[b] => <<d, p>> \in rows[b]

\* A status shows no airtime of a packet it does not count as received, and
\* accounts in flood_rx and direct_rx for every packet it says was received but
\* the one in the handler, though all of them move while it is composed.
Reconciles ==
  polling = "done" =>
    /\ status.air <= status.received
    /\ status.received <= status.flood + status.direct + 1
=============================================================================
