------------------------- MODULE ConfigStoreProofs --------------------------
(***************************************************************************)
(* The files of ConfigStore, for any documents, keys and number of seconds: *)
(* the identity the network has seen is the one on disk, and the config the *)
(* operator saved last survives a migration that ends or fails anywhere, and *)
(* a migrated config publishes to every broker of the one it replaces.      *)
(***************************************************************************)
EXTENDS ConfigStore, FiniteSetTheorems, SequenceTheorems, TLAPS

\* A legacy file on disk is what the operator saved: the process writes only
\* migrated configs.
OnlyHisIsLegacy == file = users \/ file = Torn \/ file.observers = <<>>

\* What a migration has read is the file until the backup holds it.
Copied ==
  /\ at \in {"backup", "saving", "rewrite", "rewriting"} =>
       raw \in Documents /\ raw.observers # <<>> /\ Validates(raw)
  /\ at \in {"backup", "saving"} /\ ~raced => file = users /\ raw = users
  /\ at \in {"rewrite", "rewriting"} =>
       /\ backups[stamp] = raw /\ ~Ambiguous(raw)
       /\ ~raced => raw = users

\* The key being stored has been shown to nobody, and there is no other.
NotYetShown ==
  /\ at \in {"store", "storing", "rename"} => key = Nil /\ made \in Keys
  /\ at = "rename" => tmp = made

IInv == TypeOK /\ OnlyHisIsLegacy /\ Copied /\ ConfigKept /\ NoBrokerDropped
        /\ NotYetShown /\ IdentityKept

-----------------------------------------------------------------------------
(* The brokers of a sequence of observers.                                  *)

\* The prover has no induction; that < is well-founded on Nat gives one over sets.
LEMMA LeastNatural ==
  ASSUME NEW T \in SUBSET Nat, T # {}
  PROVE  \E m \in T : \A x \in T : m <= x
<1> DEFINE R == OpToRel(<, Nat)
<1>1. IsWellFoundedOn(R, Nat)
  BY NatLessThanWellFounded
<1>2. \A x, y \in Nat : y < x => <<y, x>> \in R
  BY DEF OpToRel
<1> HIDE DEF R
<1>3. \E x \in T : \A y \in T : ~ (<<y, x>> \in R)
  BY <1>1, WFMin
<1>4. PICK m \in T : \A y \in T : ~ (<<y, m>> \in R)
  BY <1>3
<1>5. \A y \in T : ~(y < m)
  BY <1>2, <1>4
<1>6. \A y \in T : m <= y
  BY <1>5
<1> QED
  BY <1>6

\* A set that has 1 and the successor of each member up to n has them all.
LEMMA AllUpTo ==
  ASSUME NEW n \in Nat, NEW S \in SUBSET (1 .. n), n # 0 => 1 \in S,
         \A i \in S : i < n => i + 1 \in S
  PROVE  S = 1 .. n
<1> DEFINE T == (1 .. n) \ S
<1>1. SUFFICES ASSUME T # {} PROVE FALSE
  OBVIOUS
<1>2. PICK m \in T : \A x \in T : m <= x
  <2>1. T \in SUBSET Nat
    OBVIOUS
  <2> QED
    BY <1>1, <2>1, LeastNatural
<1>3. m # 1 /\ m - 1 \in 1 .. n /\ m - 1 \notin T
  BY <1>2
<1>4. m - 1 \in S /\ m - 1 < n
  BY <1>2, <1>3
<1>5. (m - 1) + 1 \in S
  BY <1>4
<1> QED
  BY <1>2, <1>5

\* f[i] is the concatenation of the first i members of s: what FlattenSeq defines
\* by recursion, and how.
Concatenates(f, s) ==
  f = [i \in 1 .. Len(s) |-> IF i = 1 THEN s[i] ELSE f[i-1] \o s[i]]

\* A concatenation holds what its two parts hold.
LEMMA ConcatElements ==
  ASSUME NEW S, NEW a \in Seq(S), NEW b \in Seq(S)
  PROVE  a \o b \in Seq(S) /\ ToSet(a \o b) = ToSet(a) \cup ToSet(b)
<1>1. /\ a \o b \in Seq(S) /\ Len(a \o b) = Len(a) + Len(b)
      /\ \A i \in 1 .. Len(a) + Len(b) : (a \o b)[i] = IF i <= Len(a) THEN a[i] ELSE b[i - Len(a)]
      /\ Len(a) \in Nat /\ Len(b) \in Nat
  BY ConcatProperties, LenProperties
<1>2. /\ DOMAIN (a \o b) = 1 .. Len(a) + Len(b)
      /\ DOMAIN a = 1 .. Len(a) /\ DOMAIN b = 1 .. Len(b)
  BY <1>1, LenProperties
<1>3. \A i \in DOMAIN a : i \in DOMAIN (a \o b) /\ (a \o b)[i] = a[i]
  BY <1>1, <1>2
<1>4. \A i \in DOMAIN b : Len(a) + i \in DOMAIN (a \o b) /\ (a \o b)[Len(a) + i] = b[i]
  BY <1>1, <1>2
<1>5. \A i \in DOMAIN (a \o b) : (a \o b)[i] \in ToSet(a) \cup ToSet(b)
  BY <1>1, <1>2 DEF ToSet
<1>6. ToSet(a) \subseteq ToSet(a \o b)
  BY <1>3 DEF ToSet
<1>7. ToSet(b) \subseteq ToSet(a \o b)
  BY <1>4 DEF ToSet
<1>8. ToSet(a \o b) \subseteq ToSet(a) \cup ToSet(b)
  <2> SUFFICES ASSUME NEW x \in ToSet(a \o b) PROVE x \in ToSet(a) \cup ToSet(b)
    OBVIOUS
  <2>1. PICK i \in DOMAIN (a \o b) : x = (a \o b)[i]
    BY DEF ToSet
  <2> QED
    BY <1>5, <2>1
<1> QED
  BY <1>1, <1>6, <1>7, <1>8

\* The function FlattenSeq is defined by exists ...
LEMMA ConcatenatesExists ==
  ASSUME NEW S, NEW s \in Seq(Seq(S)), Len(s) # 0
  PROVE  \E f : Concatenates(f, s)
<1> DEFINE n == Len(s)
           Longer(f, i) == IF i = 1 THEN s[i] ELSE f[i-1] \o s[i]
           K == {k \in 1 .. n : \E f \in [1 .. k -> Seq(S)] : \A i \in 1 .. k : f[i] = Longer(f, i)}
<1>1. n \in Nat \ {0} /\ \A i \in 1 .. n : s[i] \in Seq(S)
  BY LenProperties
<1> HIDE DEF n
<1>2. 1 \in K
  <2> DEFINE f == [i \in 1 .. 1 |-> s[i]]
  <2>1. f \in [1 .. 1 -> Seq(S)]
    BY <1>1
  <2>2. \A i \in 1 .. 1 : f[i] = Longer(f, i)
    OBVIOUS
  <2>3. 1 \in 1 .. n
    BY <1>1
  <2> HIDE DEF f
  <2> QED
    BY <2>1, <2>2, <2>3
<1>3. ASSUME NEW k \in K, k < n PROVE k + 1 \in K
  <2>1. PICK f \in [1 .. k -> Seq(S)] : \A i \in 1 .. k : f[i] = Longer(f, i)
    OBVIOUS
  <2> DEFINE g == [i \in 1 .. k + 1 |-> IF i <= k THEN f[i] ELSE f[k] \o s[k + 1]]
  <2>2. k \in 1 .. n /\ k \in Nat /\ k + 1 \in 1 .. n
    BY <1>1, <1>3
  <2>3. f[k] \o s[k + 1] \in Seq(S)
    BY <1>1, <2>1, <2>2, ConcatProperties
  <2>4. g \in [1 .. k + 1 -> Seq(S)]
    BY <2>1, <2>2, <2>3
  <2>5. (\A i \in 1 .. k : g[i] = f[i]) /\ g[k + 1] = f[k] \o s[k + 1]
    BY <2>2
  <2> HIDE DEF g
  <2>6. ASSUME NEW i \in 1 .. k + 1 PROVE g[i] = Longer(g, i)
    <3>1. CASE i \in 1 .. k
      <4>1. i = 1 \/ i - 1 \in 1 .. k
        BY <2>2, <3>1
      <4>2. f[i] = IF i = 1 THEN s[i] ELSE f[i - 1] \o s[i]
        BY <2>1, <3>1
      <4> QED
        BY <2>5, <3>1, <4>1, <4>2
    <3>2. CASE i = k + 1
      <4>1. i # 1 /\ i - 1 = k /\ k \in 1 .. k
        BY <2>2, <3>2
      <4> QED
        BY <2>5, <3>2, <4>1
    <3> QED
      BY <2>2, <3>1, <3>2
  <2> QED
    BY <2>2, <2>4, <2>6
<1>4. n \in K
  <2>1. K \in SUBSET (1 .. n)
    OBVIOUS
  <2> HIDE DEF K
  <2>2. K = 1 .. n
    BY <1>1, <1>2, <1>3, <2>1, AllUpTo
  <2> QED
    BY <1>1, <2>2
<1>5. PICK f \in [1 .. n -> Seq(S)] : \A i \in 1 .. n : f[i] = Longer(f, i)
  BY <1>4
<1> QED
  BY <1>5 DEF Concatenates, n

\* ... and its last value is the flattened sequence.
LEMMA FlattenSeqIs ==
  ASSUME NEW s, Len(s) # 0, \E f : Concatenates(f, s)
  PROVE  \E f : Concatenates(f, s) /\ FlattenSeq(s) = f[Len(s)]
<1> DEFINE f[i \in 1 .. Len(s)] == IF i = 1 THEN s[i] ELSE f[i-1] \o s[i]
<1>1. FlattenSeq(s) = f[Len(s)]
  BY DEF FlattenSeq
<1>2. f = CHOOSE g : Concatenates(g, s)
  BY DEF Concatenates
<1> HIDE DEF f
<1>3. Concatenates(CHOOSE g : Concatenates(g, s), s)
  OBVIOUS
<1> QED
  BY <1>1, <1>2, <1>3

\* What is in a flattened sequence is what was in its members.
LEMMA FlattenedElements ==
  ASSUME NEW S, NEW s \in Seq(Seq(S))
  PROVE  FlattenSeq(s) \in Seq(S) /\ ToSet(FlattenSeq(s)) = UNION {ToSet(s[i]) : i \in DOMAIN s}
<1>1. CASE Len(s) = 0
  <2>1. s = <<>> /\ FlattenSeq(s) = <<>>
    BY <1>1, LenProperties, EmptySeq DEF FlattenSeq
  <2>2. DOMAIN s = {} /\ s \in Seq(S)
    BY <2>1
  <2>3. ToSet(s) = {} /\ {ToSet(s[i]) : i \in DOMAIN s} = {}
    BY <2>2 DEF ToSet
  <2> QED
    BY <2>1, <2>2, <2>3
<1>2. CASE Len(s) # 0
  <2> DEFINE n == Len(s)
  <2>1. PICK f : Concatenates(f, s) /\ FlattenSeq(s) = f[n]
    BY <1>2, ConcatenatesExists, FlattenSeqIs
  <2>2. n \in Nat \ {0} /\ (\A i \in 1 .. n : s[i] \in Seq(S)) /\ DOMAIN s = 1 .. n
    BY <1>2, LenProperties
  <2>3. \A i \in 1 .. n : f[i] = IF i = 1 THEN s[i] ELSE f[i-1] \o s[i]
    BY <2>1, <2>2 DEF Concatenates
  <2> HIDE DEF n
  <2> DEFINE K == {k \in 1 .. n : f[k] \in Seq(S) /\ ToSet(f[k]) = UNION {ToSet(s[i]) : i \in 1 .. k}}
  <2>4. 1 \in K
    <3>1. f[1] = s[1] /\ s[1] \in Seq(S) /\ 1 \in 1 .. n /\ 1 .. 1 = {1}
      BY <2>2, <2>3
    <3> QED
      BY <3>1
  <2>5. ASSUME NEW k \in K, k < n PROVE k + 1 \in K
    <3>1. k \in Nat /\ k + 1 \in 1 .. n /\ k # 0 /\ (k + 1) - 1 = k
      BY <2>2, <2>5
    <3>2. f[k + 1] = f[k] \o s[k + 1]
      <4>1. f[k + 1] = IF k + 1 = 1 THEN s[k + 1] ELSE f[(k + 1) - 1] \o s[k + 1]
        BY <2>3, <3>1
      <4>2. (k + 1 = 1) = FALSE
        BY <3>1
      <4> QED
        BY Zenon, <3>1, <4>1, <4>2
    <3>3. f[k + 1] \in Seq(S) /\ ToSet(f[k + 1]) = ToSet(f[k]) \cup ToSet(s[k + 1])
      BY <2>2, <3>1, <3>2, ConcatElements
    <3>4. 1 .. k + 1 = (1 .. k) \cup {k + 1}
      BY <3>1
    <3>5. UNION {ToSet(s[i]) : i \in 1 .. k + 1} = (UNION {ToSet(s[i]) : i \in 1 .. k}) \cup ToSet(s[k + 1])
      BY <3>4
    <3>6. ToSet(f[k]) = UNION {ToSet(s[i]) : i \in 1 .. k}
      OBVIOUS
    <3>7. ToSet(f[k + 1]) = UNION {ToSet(s[i]) : i \in 1 .. k + 1}
      BY <3>3, <3>5, <3>6
    <3> QED
      BY <3>1, <3>3, <3>7
  <2>6. K = 1 .. n
    <3>1. K \in SUBSET (1 .. n)
      OBVIOUS
    <3> HIDE DEF K
    <3> QED
      BY <2>2, <2>4, <2>5, <3>1, AllUpTo
  <2>7. n \in K
    <3>1. n \in 1 .. n
      BY <2>2
    <3> HIDE DEF K
    <3> QED
      BY <2>6, <3>1
  <2> QED
    BY <2>1, <2>2, <2>7
<1> QED
  BY <1>1, <1>2

-----------------------------------------------------------------------------
\* A migrated config has no observers of its own and belongs to Configs.
LEMMA MigratedFields ==
  ASSUME NEW d \in Documents
  PROVE  /\ Migrated(d).observers = <<>>
         /\ Migrated(d).bots = [BotsOrOne(d) EXCEPT ![1].mqtt = Merged(d)]
         /\ Migrated(d).valid = d.valid
<1>1. DOMAIN d = {"observers", "bots", "valid"}
  BY DocumentsAssumption
<1> QED
  BY <1>1 DEF Migrated

\* It validates: no bot but the first can own an observer.
LEMMA MigratedValidates ==
  ASSUME NEW d \in Documents, Validates(d), ~Ambiguous(d)
  PROVE  Validates(Migrated(d))
<1> DEFINE b == BotsOrOne(d)
           n == Migrated(d).bots
<1>1. n = [b EXCEPT ![1].mqtt = Merged(d)]
  BY MigratedFields
<1>2. \A i \in DOMAIN b : i # 1 => b[i].mqtt = Nil
  BY DEF BotsOrOne, Ambiguous, Owners
<1>3. Owners(Migrated(d)) \subseteq {1}
  BY <1>1, <1>2 DEF Owners
<1>4. Owners(Migrated(d)) = {} \/ Owners(Migrated(d)) = {1}
  BY <1>3
<1>5. Cardinality(Owners(Migrated(d))) = 0 \/ Cardinality(Owners(Migrated(d))) = 1
  <2>1. CASE Owners(Migrated(d)) = {}
    BY <2>1, FS_EmptySet
  <2>2. CASE Owners(Migrated(d)) = {1}
    BY <2>2, FS_Singleton
  <2> QED
    BY <1>4, <2>1, <2>2
<1>6. Cardinality(Owners(Migrated(d))) <= 1
  BY <1>5
<1> QED
  BY <1>6, MigratedFields DEF Validates

\* No bot of it owns an observer already, so what the root observers published to
\* is what the first bot's observer publishes to now.
LEMMA MigratedBrokers ==
  ASSUME NEW d \in Documents, d.observers # <<>>, ~Ambiguous(d)
  PROVE  BrokersOf(Migrated(d)) = BrokersOf(d)
<1> DEFINE lists == [i \in DOMAIN d.observers |-> d.observers[i].brokers]
           m == Migrated(d)
           b == BotsOrOne(d)
<1>1. /\ d.observers \in Seq(MqttConfig) /\ DOMAIN d.observers = 1 .. Len(d.observers)
      /\ 1 \in DOMAIN d.observers
      /\ \A i \in DOMAIN d.observers : d.observers[i] \in MqttConfig
  <2>1. d.observers \in Seq(MqttConfig)
    BY DocumentsAssumption
  <2> QED
    BY <2>1, LenProperties, EmptySeq
<1>2. lists \in Seq(Seq(Brokers)) /\ DOMAIN lists = DOMAIN d.observers
  <2>1. \A i \in DOMAIN d.observers : d.observers[i].brokers \in Seq(Brokers)
    BY <1>1 DEF MqttConfig
  <2> QED
    BY <1>1, <2>1
<1>3. FlattenSeq(lists) \in Seq(Brokers)
      /\ ToSet(FlattenSeq(lists)) = UNION {ToSet(d.observers[i].brokers) : i \in DOMAIN d.observers}
  <2>1. {ToSet(lists[i]) : i \in DOMAIN lists} = {ToSet(d.observers[i].brokers) : i \in DOMAIN d.observers}
    BY <1>2
  <2> HIDE DEF lists
  <2> QED
    BY <1>2, <2>1, FlattenedElements
<1>4. Merged(d) \in MqttConfig /\ Merged(d).brokers = FlattenSeq(lists) /\ Merged(d) # Nil
  <2>1. Merged(d) = [d.observers[1] EXCEPT !.brokers = FlattenSeq(lists)]
    BY DEF Merged
  <2> HIDE DEF lists
  <2>2. Merged(d) \in MqttConfig /\ Merged(d).brokers = FlattenSeq(lists)
    BY <1>1, <1>3, <2>1 DEF MqttConfig
  <2> QED
    BY <2>2, NilAssumption
<1>5. Owners(d) = {}
  BY DEF Ambiguous
<1> HIDE DEF lists
<1>6. m.observers = <<>> /\ m.bots = [b EXCEPT ![1].mqtt = Merged(d)]
  BY MigratedFields
<1>7. 1 \in DOMAIN b /\ b[1] = [name |-> b[1].name, mqtt |-> b[1].mqtt]
      /\ \A i \in DOMAIN b : b[i].mqtt = Nil
  <2>1. CASE d.bots = <<>>
    BY <2>1 DEF BotsOrOne
  <2>2. CASE d.bots # <<>>
    <3> DEFINE Bs == [name : STRING, mqtt : MqttConfig \cup {Nil}]
    <3>1. d.bots \in Seq(Bs)
      BY DocumentsAssumption
    <3>2. \A bot \in Bs : bot = [name |-> bot.name, mqtt |-> bot.mqtt]
      OBVIOUS
    <3> HIDE DEF Bs
    <3>3. 1 \in DOMAIN d.bots /\ d.bots[1] \in Bs
      BY <2>2, <3>1, LenProperties, EmptySeq
    <3>4. \A i \in DOMAIN d.bots : d.bots[i].mqtt = Nil
      BY <1>5 DEF Owners
    <3> QED
      BY <2>2, <3>2, <3>3, <3>4 DEF BotsOrOne
  <2> QED
    BY <2>1, <2>2
<1> HIDE DEF m, b
<1>8. Owners(m) = {1} /\ m.bots[1].mqtt = Merged(d)
  <2>1. DOMAIN m.bots = DOMAIN b /\ m.bots[1].mqtt = Merged(d)
    BY <1>6, <1>7
  <2>2. \A i \in DOMAIN b : i # 1 => m.bots[i].mqtt = Nil
    BY <1>6, <1>7
  <2> QED
    BY <1>4, <1>7, <2>1, <2>2 DEF Owners
<1>9. BrokersOf(m) = ToSet(Merged(d).brokers)
  <2>1. {ToSet(m.observers[i].brokers) : i \in DOMAIN m.observers} = {}
    BY <1>6
  <2>2. {ToSet(m.bots[i].mqtt.brokers) : i \in Owners(m)} = {ToSet(Merged(d).brokers)}
    BY <1>8
  <2> QED
    BY <2>1, <2>2 DEF BrokersOf
<1>10. BrokersOf(d) = UNION {ToSet(d.observers[i].brokers) : i \in DOMAIN d.observers}
  BY <1>5 DEF BrokersOf
<1> QED
  BY <1>3, <1>4, <1>9, <1>10 DEF m

\* It is a config that may be found on disk.
LEMMA MigratedIsConfig ==
  ASSUME NEW d \in Documents, d.observers # <<>>
  PROVE  Migrated(d) \in Configs
  BY DEF Configs

-----------------------------------------------------------------------------
\* At first the file is what the operator saved and no identity is known.
LEMMA InitHolds == Init => IInv
<1> SUFFICES ASSUME Init PROVE IInv
  OBVIOUS
<1>1. TypeOK
  <2>1. booting \in BOOLEAN /\ raced \in BOOLEAN
    BY Zenon DEF Init
  <2>2. 1 \in Seconds
    BY SecondsAssumption DEF Seconds
  <2> QED
    BY <2>1, <2>2 DEF Init, TypeOK, Configs
<1>2. OnlyHisIsLegacy /\ Copied /\ ConfigKept /\ NoBrokerDropped /\ NotYetShown /\ IdentityKept
  BY DEF Init, OnlyHisIsLegacy, Copied, ConfigKept, NoBrokerDropped, NotYetShown, IdentityKept
<1> QED
  BY <1>1, <1>2 DEF IInv

\* The operator's save is his last document; one in the middle of a migration is
\* remembered as a race.
LEMMA OperatorSavesHolds ==
  ASSUME IInv, OperatorSaves
  PROVE  IInv'
<1> USE DEF memoryVars
<1>1. TypeOK'
  <2>1. raced' \in BOOLEAN
    <3>1. Rewriting \in BOOLEAN
      BY DEF Rewriting
    <3>2. raced' = Rewriting
      BY DEF OperatorSaves
    <3> QED
      BY Zenon, <3>1, <3>2
  <2> QED
    BY <2>1 DEF OperatorSaves, IInv, TypeOK, Configs
<1>2. OnlyHisIsLegacy' /\ ConfigKept' /\ NoBrokerDropped'
  BY DEF OperatorSaves, IInv, OnlyHisIsLegacy, ConfigKept, NoBrokerDropped
<1>3. Copied'
  BY DEF OperatorSaves, IInv, Copied, Rewriting
<1>4. NotYetShown' /\ IdentityKept'
  BY DEF OperatorSaves, IInv, NotYetShown, IdentityKept
<1> QED
  BY <1>1, <1>2, <1>3, <1>4 DEF IInv

\* Neither the clock nor the end of the process touches a file.
LEMMA TickHolds ==
  ASSUME IInv, Tick
  PROVE  IInv'
<1> USE DEF memoryVars, diskVars
<1>1. TypeOK'
  <2>1. second \in Seconds
    BY DEF IInv, TypeOK
  <2>2. second' \in Seconds
    BY <2>1, SecondsAssumption DEF Tick, Seconds
  <2> QED
    BY <2>2 DEF Tick, IInv, TypeOK
<1>2. OnlyHisIsLegacy' /\ Copied' /\ ConfigKept' /\ NoBrokerDropped'
      /\ NotYetShown' /\ IdentityKept'
  BY DEF Tick, IInv, OnlyHisIsLegacy, Copied, ConfigKept, NoBrokerDropped, NotYetShown, IdentityKept
<1> QED
  BY <1>1, <1>2 DEF IInv

\* A process that ends leaves the files as they are and forgets the rest.
LEMMA EndsHolds ==
  ASSUME IInv, Ends
  PROVE  IInv'
<1> USE DEF userVars, diskVars, Ended
<1>1. TypeOK'
  BY DEF Ends, IInv, TypeOK
<1>2. OnlyHisIsLegacy' /\ Copied' /\ ConfigKept' /\ NoBrokerDropped'
      /\ NotYetShown' /\ IdentityKept'
  BY DEF Ends, IInv, OnlyHisIsLegacy, Copied, ConfigKept, NoBrokerDropped, NotYetShown, IdentityKept
<1> QED
  BY <1>1, <1>2 DEF IInv

-----------------------------------------------------------------------------
\* A load that does no more than begin, or refuses, leaves the files as they are.
LEMMA RefusesHolds ==
  ASSUME IInv, Refuses, UNCHANGED diskVars
  PROVE  IInv'
<1> USE DEF userVars, diskVars, Refuses
<1>1. TypeOK'
  BY DEF IInv, TypeOK
<1>2. OnlyHisIsLegacy' /\ Copied' /\ ConfigKept' /\ NoBrokerDropped'
      /\ NotYetShown' /\ IdentityKept'
  BY DEF IInv, OnlyHisIsLegacy, Copied, ConfigKept, NoBrokerDropped, NotYetShown, IdentityKept
<1> QED
  BY <1>1, <1>2 DEF IInv

\* A load that has not read the file has changed nothing.
LEMMA BeginsHolds ==
  ASSUME IInv, Boot \/ Sighup
  PROVE  IInv'
<1> USE DEF userVars, diskVars, Boot, Sighup
<1>1. TypeOK'
  BY DEF IInv, TypeOK
<1>2. OnlyHisIsLegacy' /\ Copied' /\ ConfigKept' /\ NoBrokerDropped'
      /\ NotYetShown' /\ IdentityKept'
  BY DEF IInv, OnlyHisIsLegacy, Copied, ConfigKept, NoBrokerDropped, NotYetShown, IdentityKept
<1> QED
  BY <1>1, <1>2 DEF IInv

\* A config that needs no migration comes into force as it is.
LEMMA ReadsCurrentHolds ==
  ASSUME IInv, ReadsCurrent
  PROVE  IInv'
<1>1. PICK d \in Readings : Validates(d) /\ d.observers = <<>> /\ Adopts(d, d)
  BY DEF ReadsCurrent
<1>2. d \in Configs
  BY DEF Readings, Configs, IInv, TypeOK
<1>3. /\ UNCHANGED <<file, backups, key, tmp, second, users, raced, stamp, made, known>>
      /\ at' \in {"key", "run"} /\ booting' = FALSE /\ raw' = Nil
      /\ cfg' = d /\ source' = d /\ id' = Nil
  BY <1>1 DEF ReadsCurrent, Adopts, diskVars, userVars
<1>4. TypeOK'
  BY <1>1, <1>2, <1>3 DEF IInv, TypeOK
<1>5. OnlyHisIsLegacy' /\ Copied' /\ ConfigKept' /\ NoBrokerDropped'
      /\ NotYetShown' /\ IdentityKept'
  BY <1>1, <1>3
     DEF IInv, OnlyHisIsLegacy, Copied, ConfigKept, NoBrokerDropped, NotYetShown, IdentityKept
<1> QED
  BY <1>4, <1>5 DEF IInv

\* What is read as legacy is what the operator saved: nothing of it is torn.
LEMMA ReadsLegacyHolds ==
  ASSUME IInv, ReadsLegacy
  PROVE  IInv'
<1>1. PICK d \in Readings : Validates(d) /\ d.observers # <<>> /\ raw' = d
  BY DEF ReadsLegacy
<1>2. file # Torn /\ d = file
  BY <1>1, RemnantsAssumption DEF Readings
<1>3. d = users /\ d \in Documents
  BY <1>1, <1>2 DEF IInv, OnlyHisIsLegacy, TypeOK
<1>4. /\ UNCHANGED <<file, backups, key, tmp, second, users, raced, stamp, made, known,
                     booting, cfg, id, source>>
      /\ at' = "backup"
  BY DEF ReadsLegacy, diskVars, userVars
<1>5. TypeOK'
  BY <1>1, <1>3, <1>4 DEF IInv, TypeOK
<1>6. OnlyHisIsLegacy' /\ ConfigKept' /\ NoBrokerDropped' /\ NotYetShown' /\ IdentityKept'
  BY <1>4 DEF IInv, OnlyHisIsLegacy, ConfigKept, NoBrokerDropped, NotYetShown, IdentityKept
<1>7. Copied'
  BY <1>1, <1>2, <1>3, <1>4 DEF Copied
<1> QED
  BY <1>5, <1>6, <1>7 DEF IInv

\* A backup of the same second may be lost to this one, but the original is
\* still in its place.
LEMMA BackupOpensHolds ==
  ASSUME IInv, BackupOpens
  PROVE  IInv'
<1> USE DEF userVars
<1>1. TypeOK'
  BY DEF BackupOpens, IInv, TypeOK
<1>2. OnlyHisIsLegacy' /\ NotYetShown' /\ IdentityKept'
  BY DEF BackupOpens, IInv, OnlyHisIsLegacy, NotYetShown, IdentityKept
<1>3. Copied' /\ ConfigKept' /\ NoBrokerDropped'
  BY DEF BackupOpens, IInv, Copied, ConfigKept, NoBrokerDropped
<1> QED
  BY <1>1, <1>2, <1>3 DEF IInv

\* From here on the backup holds what the operator saved.
LEMMA BackupWrittenHolds ==
  ASSUME IInv, BackupWritten
  PROVE  IInv'
<1>1. /\ at = "saving" /\ backups' = [backups EXCEPT ![stamp] = raw]
      /\ UNCHANGED <<file, key, tmp, second, users, raced, stamp, cfg, id, made, source, known>>
      /\ \/ /\ at' \in {"down", "run"} /\ booting' = FALSE /\ raw' = Nil
         \/ /\ ~Ambiguous(raw) /\ at' = "rewrite" /\ UNCHANGED <<booting, raw>>
  BY DEF BackupWritten, Refuses, userVars, memoryVars
<1>2. raw \in Documents /\ stamp \in Seconds /\ backups'[stamp] = raw
  BY <1>1 DEF IInv, Copied, TypeOK
<1>3. TypeOK'
  BY <1>1, <1>2 DEF IInv, TypeOK
<1>4. OnlyHisIsLegacy' /\ NotYetShown' /\ IdentityKept'
  BY <1>1 DEF IInv, OnlyHisIsLegacy, NotYetShown, IdentityKept
<1>5. Copied' /\ ConfigKept' /\ NoBrokerDropped'
  BY <1>1, <1>2 DEF IInv, Copied, ConfigKept, NoBrokerDropped
<1> QED
  BY <1>3, <1>4, <1>5 DEF IInv

\* The original is cut off only when the backup holds it whole.
LEMMA RewriteOpensHolds ==
  ASSUME IInv, RewriteOpens
  PROVE  IInv'
<1> USE DEF userVars, memoryVars
<1>1. TypeOK'
  BY DEF RewriteOpens, IInv, TypeOK
<1>2. OnlyHisIsLegacy' /\ NotYetShown' /\ IdentityKept'
  BY DEF RewriteOpens, IInv, OnlyHisIsLegacy, NotYetShown, IdentityKept
<1>3. Copied' /\ ConfigKept' /\ NoBrokerDropped'
  BY DEF RewriteOpens, IInv, TypeOK, Copied, ConfigKept, NoBrokerDropped
<1> QED
  BY <1>1, <1>2, <1>3 DEF IInv

\* The migrated config comes into force when it is whole on disk.
LEMMA RewriteWrittenHolds ==
  ASSUME IInv, RewriteWritten
  PROVE  IInv'
<1> DEFINE m == Migrated(raw)
<1>1. at = "rewriting" /\ raw \in Documents /\ raw.observers # <<>>
  BY DEF RewriteWritten, IInv, Copied
<1>2. m \in Configs /\ Validates(m) /\ m.observers = <<>>
  BY <1>1, MigratedIsConfig, MigratedValidates, MigratedFields DEF IInv, Copied
<1> HIDE DEF m
<1>3. /\ UNCHANGED <<backups, key, tmp, second, users, raced, stamp, made, known>>
      /\ at' \in {"key", "run"} /\ booting' = FALSE /\ raw' = Nil
      /\ file' = m /\ cfg' = m /\ source' = raw /\ id' = Nil
  BY DEF RewriteWritten, Adopts, userVars, m
<1>4. TypeOK'
  BY <1>1, <1>2, <1>3 DEF IInv, TypeOK, Configs
<1>5. OnlyHisIsLegacy' /\ Copied'
      /\ NotYetShown' /\ IdentityKept'
  BY <1>2, <1>3 DEF IInv, OnlyHisIsLegacy, Copied, NotYetShown, IdentityKept
<1>6. ConfigKept'
  BY <1>1, <1>3 DEF IInv, TypeOK, Copied, ConfigKept
<1>7. NoBrokerDropped'
  <2>1. ~Ambiguous(raw)
    BY <1>1 DEF IInv, Copied
  <2>2. BrokersOf(m) = BrokersOf(raw)
    BY <1>1, <2>1, MigratedBrokers DEF m
  <2> QED
    BY <1>2, <1>3, <2>2 DEF NoBrokerDropped
<1> QED
  BY <1>4, <1>5, <1>6, <1>7 DEF IInv

\* Every step of a load.
LEMMA LoadHolds ==
  ASSUME IInv, Load
  PROVE  IInv'
  BY BeginsHolds, ReadsCurrentHolds, ReadsLegacyHolds, BackupOpensHolds, BackupWrittenHolds,
     RewriteOpensHolds, RewriteWrittenHolds, RefusesHolds
     DEF Load, ReadFails, BackupFails, RewriteFails

-----------------------------------------------------------------------------
\* Starting the observer touches neither the config nor its backups.
LEMMA IdentityHolds ==
  ASSUME IInv, Identity
  PROVE  IInv'
<1> USE DEF IdentityUnchanged, userVars, diskVars
<1>1. /\ UNCHANGED <<file, backups, second, users, raced, booting, raw, stamp, cfg, source>>
      /\ at' \in {"run", "key", "store", "storing", "rename"}
  BY DEF Identity, Reconnects, ReadsKey, KeyFails, MakesKey, TmpOpens, TmpWritten, TmpFails,
         Renames, RenameFails, Announces, GoesWithout
<1>2. OnlyHisIsLegacy' /\ Copied' /\ ConfigKept' /\ NoBrokerDropped'
  BY <1>1 DEF IInv, OnlyHisIsLegacy, Copied, ConfigKept, NoBrokerDropped
<1>3. /\ id' \in Keys \cup {Nil} /\ made' \in Keys \cup {Nil} /\ known' \subseteq Keys
      /\ key' \in Keys \cup {Nil, Torn} /\ tmp' \in Keys \cup {Nil, Torn}
  BY DEF IInv, TypeOK, NotYetShown, Identity, Reconnects, ReadsKey, KeyFails, MakesKey,
         TmpOpens, TmpWritten, TmpFails, Renames, RenameFails, Announces, GoesWithout
<1>4. TypeOK'
  BY <1>1, <1>3 DEF IInv, TypeOK
<1>5. NotYetShown'
  BY DEF IInv, TypeOK, NotYetShown, Identity, Reconnects, ReadsKey, KeyFails, MakesKey,
         TmpOpens, TmpWritten, TmpFails, Renames, RenameFails, Announces, GoesWithout
<1>6. IdentityKept'
  <2>1. CASE Renames
    <3>1. known = {}
      BY <2>1, NilAssumption DEF Renames, IInv, TypeOK, NotYetShown, IdentityKept
    <3> QED
      BY <2>1, <3>1 DEF Renames, Announces, IInv, NotYetShown, IdentityKept
  <2>2. CASE ReadsKey
    BY <2>2 DEF ReadsKey, Announces, IInv, IdentityKept
  <2>3. CASE UNCHANGED <<key, known>>
    BY <2>3 DEF IInv, IdentityKept
  <2> QED
    BY <2>1, <2>2, <2>3
       DEF Identity, Reconnects, KeyFails, MakesKey, TmpOpens, TmpWritten, TmpFails,
           RenameFails, GoesWithout
<1> QED
  BY <1>2, <1>4, <1>5, <1>6 DEF IInv

\* The invariant is inductive.
LEMMA NextHolds == IInv /\ [Next]_vars => IInv'
<1>1. IInv /\ UNCHANGED vars => IInv'
  <2> SUFFICES ASSUME IInv, UNCHANGED vars PROVE IInv'
    OBVIOUS
  <2> USE DEF vars, diskVars, userVars, memoryVars
  <2>1. TypeOK'
    BY DEF IInv, TypeOK
  <2>2. OnlyHisIsLegacy' /\ Copied' /\ ConfigKept' /\ NoBrokerDropped' /\ NotYetShown' /\ IdentityKept'
    BY DEF IInv, OnlyHisIsLegacy, Copied, ConfigKept, NoBrokerDropped, NotYetShown, IdentityKept
  <2> QED
    BY <2>1, <2>2 DEF IInv
<1> QED
  BY <1>1, OperatorSavesHolds, TickHolds, EndsHolds, LoadHolds, IdentityHolds DEF Next

\* It holds always.
LEMMA Invariance == Spec => []IInv
  BY InitHolds, NextHolds, PTL DEF Spec

-----------------------------------------------------------------------------
\* Every variable keeps its type; among the rest, a config in force validates,
\* also one a migration has made (loadConfigFromPath).
THEOREM TypeCorrect == Spec => []TypeOK
<1>1. IInv => TypeOK
  BY DEF IInv
<1> QED
  BY <1>1, Invariance, PTL

\* Wherever a migration ends or fails, the config the operator saved last is whole
\* in the file or in a backup, unless he raced it (migrateLegacyObservers).
THEOREM TheConfigIsKept == Spec => []ConfigKept
<1>1. IInv => ConfigKept
  BY DEF IInv
<1> QED
  BY <1>1, Invariance, PTL

\* No crash, failed write or restart rotates the identity the network has seen
\* (loadOrCreateIdentity).
THEOREM TheIdentityIsKept == Spec => []IdentityKept
<1>1. IInv => IdentityKept
  BY DEF IInv
<1> QED
  BY <1>1, Invariance, PTL

\* A config in force publishes to every broker of the file it was loaded from, and
\* no other, also when a migration merged any number of observers into it
\* (migrateLegacyObservers).
THEOREM EveryBrokerIsKept == Spec => []NoBrokerDropped
<1>1. IInv => NoBrokerDropped
  BY DEF IInv
<1> QED
  BY <1>1, Invariance, PTL

=============================================================================
