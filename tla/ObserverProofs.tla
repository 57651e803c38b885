--------------------------- MODULE ObserverProofs ---------------------------
(***************************************************************************)
(* The observer of Observer, for any packets, filters and brokers.  The      *)
(* counters of a status reconcile because each handler adds to them in one   *)
(* order and the status reads them in the same; the rows are complete        *)
(* because a packet in the dedup cache of a direction has been offered as    *)
(* going that way.                                                           *)
(***************************************************************************)
EXTENDS Observer, TLAPS

Typed == TypeOK /\ queue \in [Brokers -> Seq(Directions \X Packets)]

\* The packet in a handler, and where it counts already.
Uncounted == IF at["rx"] \in {"signal", "air", "route"} THEN 1 ELSE 0
Unaired == IF at["rx"] \in {"signal", "air"} THEN 1 ELSE 0
Counted ==
  /\ received = routed["rx"]["flood"] + routed["rx"]["direct"] + Uncounted
  /\ air["rx"] + Unaired = received

\* What the status has read so far against the counters as they have become.
Sampled ==
  /\ polling \in {"health", "received", "flood"} => status.air <= received
  /\ polling \in {"received", "flood", "done"} =>
       status.air <= status.received /\ status.received <= received
  /\ polling = "flood" => status.received <= status.flood + routed["rx"]["direct"] + 1
  /\ Reconciles

\* The brokers a handler is through with have been offered its packet.
Offering ==
  /\ \A d \in Directions : at[d] # "idle" => pkt[d] \in Packets
  /\ at["tx"] = "air" => left["tx"] = Brokers
  /\ at["tx"] # "signal"
  /\ \A d \in Directions, b \in Brokers :
       at[d] = "publish" /\ b \notin left[d] /\ pkt[d] \in Allowed[b] => <<d, pkt[d]>> \in rows[b]
  /\ \A b \in Brokers, d \in Directions : \A p \in cache[b][d] : <<d, p>> \in rows[b]
  /\ EveryDirectionOffered

IInv == Typed /\ Counted /\ Sampled /\ Offering

-----------------------------------------------------------------------------
\* At first nothing is counted, queued or offered.
LEMMA InitHolds == Init => IInv
<1> SUFFICES ASSUME Init PROVE IInv
  OBVIOUS
<1>1. Typed
  <2>1. received \in 0 .. MaxRx
    BY BoundsAssumption DEF Init
  <2>2. queue \in [Brokers -> Seq(Directions \X Packets)] /\ \A b \in Brokers : Len(queue[b]) <= QueueDepth
    BY BoundsAssumption DEF Init
  <2>3. /\ air \in [Directions -> Nat] /\ routed \in [Directions -> [Routes -> Nat]]
        /\ dups \in [Routes -> Nat] /\ cache \in [Brokers -> [Directions -> SUBSET Packets]]
        /\ rows \in [Brokers -> SUBSET (Directions \X Packets)]
    BY DEF Init
  <2>4. status \in [signal : Packets \cup {Nil}, air : Nat, received : Nat, flood : Nat, direct : Nat]
    BY DEF Init, NoStatus
  <2>5. /\ at \in [Directions -> {"idle", "signal", "air", "route", "publish"}]
        /\ pkt \in [Directions -> Packets \cup {Nil}] /\ left \in [Directions -> SUBSET Brokers]
        /\ handled \in [Directions -> SUBSET Packets]
        /\ signal \in Packets \cup {Nil} /\ polling \in {"idle", "health", "received", "flood", "done"}
    BY DEF Init
  <2> QED
    BY <2>1, <2>2, <2>3, <2>4, <2>5 DEF Typed, TypeOK
<1>2. Counted
  BY DEF Init, Counted, Uncounted, Unaired, Directions, Routes
<1>3. Sampled
  BY DEF Init, Sampled, Reconciles
<1>4. Offering
  BY DEF Init, Offering, EveryDirectionOffered, Directions
<1> QED
  BY <1>1, <1>2, <1>3, <1>4 DEF IInv

\* A packet has one of the routes the statistics tell apart.
LEMMA RouteOfIsRoute == ASSUME NEW p PROVE RouteOf(p) \in Routes
  BY DEF RouteOf, Routes

-----------------------------------------------------------------------------
(* Counting.                                                                *)

\* A packet is counted as received before it is routed or aired.
LEMMA OnDataHolds ==
  ASSUME IInv, NEW p \in Packets, OnData(p)
  PROVE  IInv'
<1>1. /\ UNCHANGED <<left, handled, signal, air, routed, dups, cache, queue, rows, polling, status>>
      /\ at["rx"] = "idle" /\ received < MaxRx /\ received' = received + 1
      /\ at' = [at EXCEPT !["rx"] = "signal"] /\ pkt' = [pkt EXCEPT !["rx"] = p]
  BY DEF OnData, Goes, brokerVars, statusVars
<1>2. Typed'
  <2>1. received' \in 0 .. MaxRx
    BY <1>1, BoundsAssumption DEF IInv, Typed, TypeOK
  <2>2. /\ at' \in [Directions -> {"idle", "signal", "air", "route", "publish"}]
        /\ pkt' \in [Directions -> Packets \cup {Nil}]
    BY <1>1 DEF IInv, Typed, TypeOK
  <2> QED
    BY <1>1, <2>1, <2>2 DEF IInv, Typed, TypeOK
<1>3. Counted'
  BY <1>1 DEF IInv, Typed, TypeOK, Counted, Uncounted, Unaired, Directions, Routes
<1>4. Sampled'
  BY <1>1 DEF IInv, Typed, TypeOK, Sampled, Reconciles
<1>5. Offering'
  BY <1>1 DEF IInv, Typed, TypeOK, Offering, EveryDirectionOffered, Directions
<1> QED
  BY <1>2, <1>3, <1>4, <1>5 DEF IInv

\* Storing the signal counts nothing.
LEMMA StoreSignalHolds ==
  ASSUME IInv, StoreSignal
  PROVE  IInv'
<1>1. /\ UNCHANGED <<pkt, left, handled, received, air, routed, dups, cache, queue, rows, polling, status>>
      /\ at["rx"] = "signal" /\ signal' = pkt["rx"] /\ at' = [at EXCEPT !["rx"] = "air"]
  BY DEF StoreSignal, Goes, brokerVars, statusVars
<1>2. Typed'
  BY <1>1 DEF IInv, Typed, TypeOK, Directions
<1>3. Counted'
  BY <1>1 DEF IInv, Typed, TypeOK, Counted, Uncounted, Unaired, Directions
<1>4. Sampled'
  BY <1>1 DEF IInv, Sampled, Reconciles
<1>5. Offering'
  BY <1>1 DEF IInv, Typed, TypeOK, Offering, EveryDirectionOffered, Directions
<1> QED
  BY <1>2, <1>3, <1>4, <1>5 DEF IInv

\* The airtime of a packet is added after it is counted as received.
LEMMA AddAirHolds ==
  ASSUME IInv, NEW d \in Directions, AddAir(d)
  PROVE  IInv'
<1>1. /\ UNCHANGED <<pkt, left, handled, received, signal, routed, dups, cache, queue, rows, polling, status>>
      /\ at[d] = "air" /\ air' = [air EXCEPT ![d] = @ + 1]
      /\ at' = [at EXCEPT ![d] = IF d = "rx" THEN "route" ELSE "publish"]
  BY DEF AddAir, Goes, brokerVars, statusVars
<1>2. Typed'
  <2>1. air' \in [Directions -> Nat]
    BY <1>1 DEF IInv, Typed, TypeOK
  <2>2. at' \in [Directions -> {"idle", "signal", "air", "route", "publish"}]
    BY <1>1 DEF IInv, Typed, TypeOK
  <2> QED
    BY <1>1, <2>1, <2>2 DEF IInv, Typed, TypeOK
<1>3. Counted'
  BY <1>1 DEF IInv, Typed, TypeOK, Counted, Uncounted, Unaired, Directions, Routes
<1>4. Sampled'
  BY <1>1 DEF IInv, Sampled, Reconciles
<1>5. Offering'
  BY <1>1 DEF IInv, Typed, TypeOK, Offering, EveryDirectionOffered, Directions
<1> QED
  BY <1>2, <1>3, <1>4, <1>5 DEF IInv

\* A packet sent is in the handler before it is counted.
LEMMA OnOutboundHolds ==
  ASSUME IInv, NEW p \in Packets, OnOutbound(p)
  PROVE  IInv'
<1>1. /\ UNCHANGED <<left, handled, received, signal, air, routed, dups, cache, queue, rows, polling, status>>
      /\ at["tx"] = "idle" /\ at' = [at EXCEPT !["tx"] = "route"] /\ pkt' = [pkt EXCEPT !["tx"] = p]
  BY DEF OnOutbound, Goes, counterVars, brokerVars, statusVars
<1>2. Typed'
  BY <1>1 DEF IInv, Typed, TypeOK
<1>3. Counted'
  BY <1>1 DEF IInv, Typed, TypeOK, Counted, Uncounted, Unaired, Directions
<1>4. Sampled'
  BY <1>1 DEF IInv, Sampled, Reconciles
<1>5. Offering'
  BY <1>1 DEF IInv, Typed, TypeOK, Offering, EveryDirectionOffered, Directions
<1> QED
  BY <1>2, <1>3, <1>4, <1>5 DEF IInv

\* A packet received leaves the gap in the counts when its route is counted.
LEMMA CountRouteHolds ==
  ASSUME IInv, NEW d \in Directions, CountRoute(d)
  PROVE  IInv'
<1> DEFINE r == RouteOf(pkt[d])
<1>1. /\ UNCHANGED <<pkt, handled, received, signal, air, dups, cache, queue, rows, polling, status>>
      /\ at[d] = "route" /\ routed' = [routed EXCEPT ![d][r] = @ + 1]
      /\ left' = [left EXCEPT ![d] = Brokers]
      /\ at' = [at EXCEPT ![d] = IF d = "rx" THEN "publish" ELSE "air"]
  BY DEF CountRoute, Goes, brokerVars, statusVars
<1>2. r = "flood" \/ r = "direct"
  BY DEF RouteOf
<1> HIDE DEF r
<1>3. routed \in [Directions -> [Routes -> Nat]]
  BY DEF IInv, Typed, TypeOK
<1>4. routed' \in [Directions -> [Routes -> Nat]]
  BY <1>1, <1>2, <1>3 DEF Routes
<1>5. Typed'
  <2>1. /\ left' \in [Directions -> SUBSET Brokers]
        /\ at' \in [Directions -> {"idle", "signal", "air", "route", "publish"}]
    BY <1>1 DEF IInv, Typed, TypeOK
  <2> QED
    BY <1>1, <1>4, <2>1 DEF IInv, Typed, TypeOK
<1>6. \/ d = "tx" /\ routed'["rx"] = routed["rx"]
      \/ /\ d = "rx" /\ r = "flood"
         /\ routed'["rx"]["flood"] = routed["rx"]["flood"] + 1
         /\ routed'["rx"]["direct"] = routed["rx"]["direct"]
      \/ /\ d = "rx" /\ r = "direct"
         /\ routed'["rx"]["flood"] = routed["rx"]["flood"]
         /\ routed'["rx"]["direct"] = routed["rx"]["direct"] + 1
  BY <1>1, <1>2, <1>3 DEF Directions, Routes
<1>7. routed["rx"]["flood"] \in Nat /\ routed["rx"]["direct"] \in Nat
  BY <1>3 DEF Directions, Routes
<1>8. Counted'
  <2>1. at \in [Directions -> {"idle", "signal", "air", "route", "publish"}] /\ Counted
    BY DEF IInv, Typed, TypeOK
  <2>2. CASE d = "rx"
    <3>1. Uncounted = 1 /\ Unaired = 0 /\ Uncounted' = 0 /\ Unaired' = 0
      BY <1>1, <2>1, <2>2 DEF Uncounted, Unaired
    <3> QED
      BY <1>1, <1>6, <1>7, <2>1, <2>2, <3>1 DEF Counted
  <2>3. CASE d = "tx"
    <3>1. Uncounted' = Uncounted /\ Unaired' = Unaired
      BY <1>1, <2>1, <2>3 DEF Uncounted, Unaired, Directions
    <3> QED
      BY <1>1, <1>6, <2>1, <2>3, <3>1 DEF Counted
  <2> QED
    BY <2>2, <2>3 DEF Directions
<1>9. Sampled'
  BY <1>1, <1>6, <1>7 DEF IInv, Typed, TypeOK, Sampled, Reconciles
<1>10. Offering'
  BY <1>1 DEF IInv, Typed, TypeOK, Offering, EveryDirectionOffered, Directions
<1> QED
  BY <1>5, <1>8, <1>9, <1>10 DEF IInv

-----------------------------------------------------------------------------
(* Publishing.                                                              *)

\* What no step of publishPacket, a worker or the cache touches.
LEMMA CountsKept ==
  ASSUME Typed, Counted, Sampled, UNCHANGED <<at, received, air, routed, polling, status>>
  PROVE  Counted' /\ Sampled'
  BY DEF Counted, Uncounted, Unaired, Sampled, Reconciles

\* A broker whose types leave the packet out is visited and owed nothing.
LEMMA FilteredHolds ==
  ASSUME IInv, NEW d \in Directions, NEW b \in Brokers, Filtered(d, b)
  PROVE  IInv'
<1>1. /\ UNCHANGED <<at, pkt, handled, received, signal, air, routed, dups, cache, queue, rows, polling, status>>
      /\ pkt[d] \notin Allowed[b] /\ left' = [left EXCEPT ![d] = @ \ {b}] /\ at[d] = "publish"
  BY DEF Filtered, Visited, PublishUnchanged, brokerVars, statusVars
<1>2. Typed'
  BY <1>1 DEF IInv, Typed, TypeOK
<1>3. Counted' /\ Sampled'
  BY <1>1, CountsKept DEF IInv
<1>4. Offering'
  BY <1>1 DEF IInv, Typed, TypeOK, Offering, EveryDirectionOffered, Directions
<1> QED
  BY <1>2, <1>3, <1>4 DEF IInv

\* A duplicate is a row the broker has been offered before.
LEMMA DuplicateHolds ==
  ASSUME IInv, NEW d \in Directions, NEW b \in Brokers, Duplicate(d, b)
  PROVE  IInv'
<1>1. /\ UNCHANGED <<at, pkt, handled, received, signal, air, routed, cache, queue, rows, polling, status>>
      /\ dups' = [dups EXCEPT ![RouteOf(pkt[d])] = @ + 1]
      /\ left' = [left EXCEPT ![d] = @ \ {b}] /\ at[d] = "publish"
  BY DEF Duplicate, Visited, PublishUnchanged, brokerVars, statusVars
<1>2. Typed'
  <2>1. dups' \in [Routes -> Nat]
    BY <1>1, RouteOfIsRoute DEF IInv, Typed, TypeOK
  <2>2. left' \in [Directions -> SUBSET Brokers]
    BY <1>1 DEF IInv, Typed, TypeOK
  <2> QED
    BY <1>1, <2>1, <2>2 DEF IInv, Typed, TypeOK
<1>3. Counted' /\ Sampled'
  BY <1>1, CountsKept DEF IInv
<1>4. <<d, pkt[d]>> \in rows[b]
  BY DEF Duplicate, Seen, DedupFor, IInv, Offering
<1>5. Offering'
  BY <1>1, <1>4 DEF IInv, Typed, TypeOK, Offering, EveryDirectionOffered, Directions
<1> QED
  BY <1>2, <1>3, <1>5 DEF IInv

\* A row enters the cache of its own direction, as it is offered.
LEMMA OfferedHolds ==
  ASSUME IInv, NEW d \in Directions, NEW b \in Brokers, Offered(d, b)
  PROVE  IInv'
<1> DEFINE row == <<d, pkt[d]>>
<1>1. /\ UNCHANGED <<at, pkt, handled, received, signal, air, routed, dups, polling, status>>
      /\ cache' = [cache EXCEPT ![b][d] = @ \cup {pkt[d]}] \/ cache' = cache
      /\ rows' = [rows EXCEPT ![b] = @ \cup {row}]
      /\ left' = [left EXCEPT ![d] = @ \ {b}] /\ at[d] = "publish"
      /\ \/ queue' = queue
         \/ Len(queue[b]) < QueueDepth /\ queue' = [queue EXCEPT ![b] = Append(@, row)]
  BY DEF Offered, DedupFor, Enqueue, Visited, PublishUnchanged, statusVars
<1>2. pkt[d] \in Packets /\ row \in Directions \X Packets
  BY <1>1 DEF IInv, Offering
<1>3. /\ cache \in [Brokers -> [Directions -> SUBSET Packets]]
      /\ rows \in [Brokers -> SUBSET (Directions \X Packets)]
      /\ queue \in [Brokers -> Seq(Directions \X Packets)]
      /\ left \in [Directions -> SUBSET Brokers]
  BY DEF IInv, Typed, TypeOK
<1>4. cache' \in [Brokers -> [Directions -> SUBSET Packets]]
  <2>1. CASE cache' = cache
    BY <1>3, <2>1
  <2>2. CASE cache' = [cache EXCEPT ![b][d] = @ \cup {pkt[d]}]
    <3>1. cache[b][d] \cup {pkt[d]} \in SUBSET Packets
      BY <1>2, <1>3
    <3> QED
      BY <1>3, <2>2, <3>1
  <2> QED
    BY <1>1, <2>1, <2>2
<1>5. ASSUME NEW c \in Brokers, NEW e \in Directions, NEW p \in cache'[c][e]
      PROVE  p \in cache[c][e] \/ (c = b /\ e = d /\ p = pkt[d])
  <2>1. CASE cache' = cache
    BY <1>5, <2>1
  <2>2. CASE cache' = [cache EXCEPT ![b][d] = @ \cup {pkt[d]}]
    BY <1>3, <1>5, <2>2
  <2> QED
    BY <1>1, <2>1, <2>2
<1>6. /\ rows' \in [Brokers -> SUBSET (Directions \X Packets)]
      /\ row \in rows'[b] /\ \A c \in Brokers : rows[c] \subseteq rows'[c]
  BY <1>1, <1>2, <1>3
<1>7. Typed'
  <2>1. /\ queue' \in [Brokers -> Seq(Directions \X Packets)]
        /\ \A c \in Brokers : Len(queue'[c]) <= QueueDepth
    <3> DEFINE Row == Directions \X Packets
    <3>1. /\ queue \in [Brokers -> Seq(Row)] /\ \A c \in Brokers : Len(queue[c]) <= QueueDepth
          /\ row \in Row
      BY <1>2, <1>3 DEF IInv, Typed, TypeOK
    <3> HIDE DEF row, Row
    <3>2. Append(queue[b], row) \in Seq(Row) /\ Len(Append(queue[b], row)) = Len(queue[b]) + 1
      BY <3>1
    <3>3. QueueDepth \in Nat /\ Len(queue[b]) \in Nat
      BY <3>1, BoundsAssumption
    <3>4. CASE queue' = queue
      BY <3>1, <3>4 DEF Row
    <3>5. CASE Len(queue[b]) < QueueDepth /\ queue' = [queue EXCEPT ![b] = Append(@, row)]
      <4>1. Len(Append(queue[b], row)) <= QueueDepth
        BY <3>2, <3>3, <3>5
      <4>2. queue' \in [Brokers -> Seq(Row)]
        BY <3>1, <3>2, <3>5
      <4>3. \A c \in Brokers : Len(queue'[c]) <= QueueDepth
        BY <3>1, <3>5, <4>1
      <4> QED
        BY <4>2, <4>3 DEF Row
    <3> QED
      BY <1>1, <3>4, <3>5
  <2>2. left' \in [Directions -> SUBSET Brokers]
    BY <1>1, <1>3
  <2> QED
    BY <1>1, <1>4, <1>6, <2>1, <2>2 DEF IInv, Typed, TypeOK
<1>8. Counted' /\ Sampled'
  BY <1>1, CountsKept DEF IInv
<1>9. Offering'
  <2>1. \A c \in Brokers, e \in Directions : \A p \in cache'[c][e] : <<e, p>> \in rows'[c]
    BY <1>5, <1>6 DEF IInv, Offering
  <2>2. \A e \in Directions, c \in Brokers :
          at[e] = "publish" /\ c \notin left'[e] /\ pkt[e] \in Allowed[c] => <<e, pkt[e]>> \in rows'[c]
    BY <1>1, <1>3, <1>6 DEF IInv, Offering
  <2>3. EveryDirectionOffered'
    BY <1>1, <1>6 DEF IInv, Offering, EveryDirectionOffered
  <2> QED
    BY <1>1, <1>3, <2>1, <2>2, <2>3 DEF IInv, Offering, Directions
<1> QED
  BY <1>7, <1>8, <1>9 DEF IInv

\* No broker is left: all have been offered what they admit.
LEMMA ReturnsHolds ==
  ASSUME IInv, NEW d \in Directions, Returns(d)
  PROVE  IInv'
<1>1. /\ UNCHANGED <<left, received, signal, air, routed, dups, cache, queue, rows, polling, status>>
      /\ at[d] = "publish" /\ left[d] = {} /\ handled' = [handled EXCEPT ![d] = @ \cup {pkt[d]}]
      /\ pkt' = [pkt EXCEPT ![d] = Nil] /\ at' = [at EXCEPT ![d] = "idle"]
  BY DEF Returns, Goes, counterVars, brokerVars, statusVars
<1>2. pkt[d] \in Packets
  BY <1>1 DEF IInv, Offering
<1>3. Typed'
  <2>1. handled' \in [Directions -> SUBSET Packets]
    BY <1>1, <1>2 DEF IInv, Typed, TypeOK
  <2>2. /\ pkt' \in [Directions -> Packets \cup {Nil}]
        /\ at' \in [Directions -> {"idle", "signal", "air", "route", "publish"}]
    BY <1>1 DEF IInv, Typed, TypeOK
  <2> QED
    BY <1>1, <2>1, <2>2 DEF IInv, Typed, TypeOK
<1>4. Counted'
  BY <1>1 DEF IInv, Typed, TypeOK, Counted, Uncounted, Unaired, Directions
<1>5. Sampled'
  BY <1>1 DEF IInv, Sampled, Reconciles
<1>6. Offering'
  <2>1. EveryDirectionOffered'
    BY <1>1 DEF IInv, Typed, TypeOK, Offering, EveryDirectionOffered
  <2> QED
    BY <1>1, <2>1 DEF IInv, Typed, TypeOK, Offering, Directions
<1> QED
  BY <1>3, <1>4, <1>5, <1>6 DEF IInv

\* The dedup cache may lose what it holds: a row is then offered again, never withheld.
LEMMA ForgetHolds ==
  ASSUME IInv, NEW b \in Brokers, NEW d \in Directions, NEW p \in Packets, Forget(b, d, p)
  PROVE  IInv'
<1>1. /\ UNCHANGED <<at, pkt, left, handled, received, signal, air, routed, dups, queue, rows, polling, status>>
      /\ cache' = [cache EXCEPT ![b][d] = @ \ {p}]
  BY DEF Forget, handlerVars, counterVars, statusVars
<1>2. /\ cache' \in [Brokers -> [Directions -> SUBSET Packets]]
      /\ \A c \in Brokers, e \in Directions : cache'[c][e] \subseteq cache[c][e]
  BY <1>1 DEF IInv, Typed, TypeOK
<1>3. Typed'
  BY <1>1, <1>2 DEF IInv, Typed, TypeOK
<1>4. Counted' /\ Sampled'
  BY <1>1, CountsKept DEF IInv
<1>5. Offering'
  BY <1>1, <1>2 DEF IInv, Offering, EveryDirectionOffered
<1> QED
  BY <1>3, <1>4, <1>5 DEF IInv

\* A worker only shortens its queue.
LEMMA TakeHolds ==
  ASSUME IInv, NEW b \in Brokers, Take(b)
  PROVE  IInv'
<1>1. /\ UNCHANGED <<at, pkt, left, handled, received, signal, air, routed, dups, cache, rows, polling, status>>
      /\ queue[b] # <<>> /\ queue' = [queue EXCEPT ![b] = Tail(@)]
  BY DEF Take, handlerVars, counterVars, statusVars
<1>2. /\ queue' \in [Brokers -> Seq(Directions \X Packets)]
      /\ \A c \in Brokers : Len(queue'[c]) <= QueueDepth
  <2> DEFINE Row == Directions \X Packets
  <2>1. queue \in [Brokers -> Seq(Row)] /\ \A c \in Brokers : Len(queue[c]) <= QueueDepth
    BY DEF IInv, Typed, TypeOK
  <2> HIDE DEF Row
  <2>2. Tail(queue[b]) \in Seq(Row) /\ Len(Tail(queue[b])) <= QueueDepth
    BY <1>1, <2>1, BoundsAssumption
  <2> QED
    BY <1>1, <2>1, <2>2 DEF Row
<1>3. Typed'
  BY <1>1, <1>2 DEF IInv, Typed, TypeOK
<1>4. Counted' /\ Sampled'
  BY <1>1, CountsKept DEF IInv
<1>5. Offering'
  BY <1>1 DEF IInv, Offering, EveryDirectionOffered
<1> QED
  BY <1>3, <1>4, <1>5 DEF IInv

-----------------------------------------------------------------------------
(* Composing a status.                                                      *)

\* The reads follow the order of the writes: airtime, receptions, routes.
LEMMA StatusHolds ==
  ASSUME IInv, Status
  PROVE  IInv'
<1>1. UNCHANGED <<at, pkt, left, handled, received, signal, air, routed, dups, cache, queue, rows>>
  BY DEF Status, SampleHealth, SampleReceived, SampleFlood, SampleDirect, PublishStatus,
         SampleUnchanged, handlerVars, counterVars, brokerVars
<1>2. /\ air["rx"] \in Nat /\ received \in Nat /\ signal \in Packets \cup {Nil}
      /\ routed["rx"]["flood"] \in Nat /\ routed["rx"]["direct"] \in Nat
  BY BoundsAssumption DEF IInv, Typed, TypeOK, Directions, Routes
<1>3. air["rx"] <= received /\ received <= routed["rx"]["flood"] + routed["rx"]["direct"] + 1
  BY <1>2 DEF IInv, Counted, Uncounted, Unaired
<1>4. status \in [signal : Packets \cup {Nil}, air : Nat, received : Nat, flood : Nat, direct : Nat]
  BY DEF IInv, Typed, TypeOK
<1>5. /\ status' \in [signal : Packets \cup {Nil}, air : Nat, received : Nat, flood : Nat, direct : Nat]
      /\ polling' \in {"idle", "health", "received", "flood", "done"}
  <2>1. CASE SampleHealth
    BY <1>2, <2>1 DEF SampleHealth, Sample, NoStatus
  <2>2. CASE SampleReceived
    BY <1>2, <1>4, <2>2 DEF SampleReceived, Sample
  <2>3. CASE SampleFlood
    BY <1>2, <1>4, <2>3 DEF SampleFlood, Sample
  <2>4. CASE SampleDirect
    BY <1>2, <1>4, <2>4 DEF SampleDirect, Sample
  <2>5. CASE PublishStatus
    BY <2>5 DEF PublishStatus, Sample, NoStatus
  <2> QED
    BY <2>1, <2>2, <2>3, <2>4, <2>5 DEF Status
<1>6. Typed'
  BY <1>1, <1>5 DEF IInv, Typed, TypeOK
<1>7. Counted'
  BY <1>1 DEF IInv, Counted, Uncounted, Unaired
<1>8. Sampled'
  <2>1. CASE SampleHealth
    <3>1. polling' = "health" /\ status'.air = air["rx"]
      BY <2>1 DEF SampleHealth, Sample, NoStatus
    <3> QED
      BY <1>1, <1>3, <3>1 DEF Sampled, Reconciles
  <2>2. CASE SampleReceived
    <3>1. polling = "health" /\ polling' = "received" /\ status'.air = status.air /\ status'.received = received
      BY <1>4, <2>2 DEF SampleReceived, Sample
    <3> QED
      BY <1>1, <1>2, <3>1 DEF IInv, Sampled, Reconciles
  <2>3. CASE SampleFlood
    <3>1. /\ polling = "received" /\ polling' = "flood" /\ status'.air = status.air
          /\ status'.received = status.received /\ status'.flood = routed["rx"]["flood"]
      BY <1>4, <2>3 DEF SampleFlood, Sample
    <3> QED
      BY <1>1, <1>2, <1>3, <1>4, <3>1 DEF IInv, Sampled, Reconciles
  <2>4. CASE SampleDirect
    <3>1. /\ polling = "flood" /\ polling' = "done" /\ status'.air = status.air
          /\ status'.received = status.received /\ status'.flood = status.flood
          /\ status'.direct = routed["rx"]["direct"]
      BY <1>4, <2>4 DEF SampleDirect, Sample
    <3> QED
      BY <1>1, <1>2, <3>1 DEF IInv, Sampled, Reconciles
  <2>5. CASE PublishStatus
    BY <2>5 DEF PublishStatus, Sample, Sampled, Reconciles
  <2> QED
    BY <2>1, <2>2, <2>3, <2>4, <2>5 DEF Status
<1>9. Offering'
  BY <1>1 DEF IInv, Offering, EveryDirectionOffered
<1> QED
  BY <1>6, <1>7, <1>8, <1>9 DEF IInv

-----------------------------------------------------------------------------
\* The invariant is inductive.
LEMMA NextHolds == IInv /\ [Next]_vars => IInv'
<1> SUFFICES ASSUME IInv, [Next]_vars PROVE IInv'
  OBVIOUS
<1>1. ASSUME NEW d \in Directions, Handler(d) PROVE IInv'
  BY <1>1, AddAirHolds, CountRouteHolds, ReturnsHolds, FilteredHolds, DuplicateHolds, OfferedHolds
     DEF Handler
<1>2. CASE Receiving \/ Handler("tx")
  BY <1>1, <1>2, StoreSignalHolds DEF Receiving, Directions
<1>3. CASE UNCHANGED vars
  <2>1. /\ UNCHANGED <<at, pkt, left, handled, received, signal, air, routed, dups>>
        /\ UNCHANGED <<cache, queue, rows, polling, status>>
    BY <1>3 DEF vars, handlerVars, counterVars, brokerVars, statusVars
  <2>2. Typed'
    BY <2>1 DEF IInv, Typed, TypeOK
  <2>3. Counted' /\ Sampled'
    BY <2>1, CountsKept DEF IInv
  <2>4. Offering'
    BY <2>1 DEF IInv, Offering, EveryDirectionOffered
  <2> QED
    BY <2>2, <2>3, <2>4 DEF IInv
<1> QED
  BY <1>2, <1>3, OnDataHolds, OnOutboundHolds, TakeHolds, ForgetHolds, StatusHolds DEF Next

\* It holds always.
LEMMA Invariance == Spec => []IInv
  BY InitHolds, NextHolds, PTL DEF Spec

\* Every variable keeps its type; no queue outgrows its depth (enqueuePublish).
THEOREM TypeCorrect == Spec => []TypeOK
<1>1. IInv => TypeOK
  BY DEF IInv, Typed
<1> QED
  BY <1>1, Invariance, PTL

\* Every packet is offered to every broker that admits it, once for each direction
\* (publishPacket).
THEOREM EveryDirectionIsOffered == Spec => []EveryDirectionOffered
<1>1. IInv => EveryDirectionOffered
  BY DEF IInv, Offering
<1> QED
  BY <1>1, Invariance, PTL

\* The counters of a status reconcile, though all of them move while it is composed
\* (publishStatus against onData).
THEOREM EveryStatusReconciles == Spec => []Reconciles
<1>1. IInv => Reconciles
  BY DEF IInv, Sampled
<1> QED
  BY <1>1, Invariance, PTL

=============================================================================
