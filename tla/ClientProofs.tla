---------------------------- MODULE ClientProofs ----------------------------
(***************************************************************************)
(* Proofs about what serves the clients of the server: Metadata, Mqtt,     *)
(* Batcher and LazyHls, for any number of subscribers, calls, writers,     *)
(* requests and muxers, and any sizes of their channels and queues.        *)
(***************************************************************************)
EXTENDS LazyHls, Metadata, Mqtt, Batcher, Integers, FiniteSetTheorems, TLAPS

(* Zenon proves what is first-order; the leaves with arithmetic, sequences *)
(* or records name the SMT solver.                                         *)
USE ZenonT(30)

----------------------------------------------------------------------------
(* Queues.                                                                 *)

Elements(q) == {q[i] : i \in DOMAIN q}

(* Numbers in a queue rise.                                                *)
Rising(q) == \A i, j \in DOMAIN q : i < j => q[i] < q[j]

LEMMA Appended ==
    ASSUME NEW S, NEW q \in Seq(S), NEW x \in S
    PROVE  /\ Append(q, x) \in Seq(S)
           /\ Len(Append(q, x)) = Len(q) + 1
           /\ \A i \in 1..Len(q) : Append(q, x)[i] = q[i]
           /\ Append(q, x)[Len(q) + 1] = x
           /\ Elements(Append(q, x)) = Elements(q) \cup {x}
<1>1. /\ Append(q, x) \in Seq(S) /\ Len(Append(q, x)) = Len(q) + 1 /\ Len(q) \in Nat
      /\ \A i \in 1..Len(q) : Append(q, x)[i] = q[i]
      /\ Append(q, x)[Len(q) + 1] = x
      /\ DOMAIN q = 1..Len(q) /\ DOMAIN Append(q, x) = 1..(Len(q) + 1)
  BY SMTT(20)
<1>2. Elements(Append(q, x)) \subseteq Elements(q) \cup {x}
  BY <1>1, SMTT(20) DEF Elements
<1>3. Elements(q) \cup {x} \subseteq Elements(Append(q, x))
  <2>1. \A i \in 1..Len(q) : i \in 1..(Len(q) + 1)
    BY <1>1, SMTT(20)
  <2>2. Len(q) + 1 \in 1..(Len(q) + 1)
    BY <1>1, SMTT(20)
  <2>3. QED
    BY <1>1, <2>1, <2>2 DEF Elements
<1>4. QED
  BY <1>1, <1>2, <1>3

LEMMA Taken ==
    ASSUME NEW S, NEW q \in Seq(S), q # <<>>
    PROVE  /\ Head(q) \in S /\ Tail(q) \in Seq(S)
           /\ Len(q) > 0 /\ Head(q) = q[1]
           /\ Len(Tail(q)) = Len(q) - 1
           /\ \A i \in 1..(Len(q) - 1) : Tail(q)[i] = q[i + 1]
           /\ Elements(q) = {Head(q)} \cup Elements(Tail(q))
<1>1. /\ Head(q) \in S /\ Tail(q) \in Seq(S) /\ Len(q) \in Nat /\ Len(q) > 0 /\ Head(q) = q[1]
      /\ Len(Tail(q)) = Len(q) - 1
      /\ \A i \in 1..(Len(q) - 1) : Tail(q)[i] = q[i + 1]
      /\ DOMAIN q = 1..Len(q) /\ DOMAIN Tail(q) = 1..(Len(q) - 1)
  BY SMTT(20)
<1>2. Elements(q) \subseteq {Head(q)} \cup Elements(Tail(q))
  <2>1. SUFFICES ASSUME NEW i \in 1..Len(q), i # 1
                 PROVE  q[i] \in Elements(Tail(q))
    BY <1>1, SMTT(20) DEF Elements
  <2>2. i - 1 \in 1..(Len(q) - 1) /\ q[i] = Tail(q)[i - 1]
    BY <1>1, <2>1, SMTT(20)
  <2>3. QED
    BY <1>1, <2>2 DEF Elements
<1>3. {Head(q)} \cup Elements(Tail(q)) \subseteq Elements(q)
  <2>1. \A i \in 1..(Len(q) - 1) : i + 1 \in 1..Len(q)
    BY <1>1, SMTT(20)
  <2>2. 1 \in 1..Len(q)
    BY <1>1, SMTT(20)
  <2>3. QED
    BY <1>1, <2>1, <2>2, SMTT(20) DEF Elements
<1>4. QED
  BY <1>1, <1>2, <1>3

LEMMA RisingAppended ==
    ASSUME NEW q \in Seq(Nat), NEW n \in Nat, Rising(q), \A m \in Elements(q) : m < n
    PROVE  Rising(Append(q, n))
<1>1. DOMAIN q = 1..Len(q) /\ DOMAIN Append(q, n) = 1..(Len(q) + 1) /\ Len(q) \in Nat
  BY SMTT(20)
<1>2. \A i \in 1..Len(q) : q[i] < n
  BY <1>1 DEF Elements
<1>3. SUFFICES ASSUME NEW i \in 1..(Len(q) + 1), NEW j \in 1..(Len(q) + 1), i < j
               PROVE  Append(q, n)[i] < Append(q, n)[j]
  BY <1>1 DEF Rising
<1>4. i \in 1..Len(q) /\ Append(q, n)[i] = q[i]
  BY <1>1, <1>3, Appended, SMTT(20)
<1>5. CASE j = Len(q) + 1
  BY <1>2, <1>4, <1>5, Appended, SMTT(20)
<1>6. CASE j # Len(q) + 1
  <2>1. j \in 1..Len(q) /\ Append(q, n)[j] = q[j]
    BY <1>1, <1>6, Appended, SMTT(20)
  <2>2. QED
    BY <1>1, <1>3, <1>4, <2>1 DEF Rising
<1>7. QED
  BY <1>5, <1>6

LEMMA RisingTaken ==
    ASSUME NEW q \in Seq(Nat), q # <<>>, Rising(q)
    PROVE  Rising(Tail(q)) /\ \A n \in Elements(Tail(q)) : Head(q) < n
<1>1. /\ DOMAIN q = 1..Len(q) /\ DOMAIN Tail(q) = 1..(Len(q) - 1) /\ Len(q) \in Nat
      /\ \A i \in 1..(Len(q) - 1) : Tail(q)[i] = q[i + 1] /\ i + 1 \in 1..Len(q)
      /\ Head(q) = q[1] /\ 1 \in 1..Len(q)
  BY Taken, SMTT(20)
<1>2. Rising(Tail(q))
  BY <1>1, SMTT(20) DEF Rising
<1>3. \A i \in 1..(Len(q) - 1) : Head(q) < Tail(q)[i]
  BY <1>1, SMTT(20) DEF Rising
<1>4. QED
  BY <1>1, <1>2, <1>3 DEF Elements

----------------------------------------------------------------------------
(* The broadcaster.                                                        *)

(* The first message a subscriber is told of.                              *)
First(s) == IF since[s] = 0 \/ logs THEN since[s] + 1 ELSE since[s]

Told(s) == passed[s] \cup Elements(channel[s])

SubscriberSound(s) ==
    /\ Told(s) \cap missed[s] = {}
    /\ Told(s) \cup missed[s] = First(s)..count
    /\ Rising(channel[s])
    /\ \A m \in passed[s], n \in Elements(channel[s]) : m < n

(* Beside the property itself: what a newcomer starts from.                *)
MetadataInv ==
    /\ MetadataTypeOK
    /\ latest = IF logs THEN 0 ELSE count
    /\ \A s \in Subscribers : since[s] <= count
    /\ \A s \in Subscribers \ subscribed : passed[s] = {} /\ missed[s] = {}
    /\ \A s \in subscribed : SubscriberSound(s)

LEMMA MetadataInitInv == MetadataInit => MetadataInv
BY SMTT(20) DEF MetadataInit, MetadataInv, MetadataTypeOK

LEMMA MetadataNextInv == MetadataInv /\ [MetadataNext]_metadataVars => MetadataInv'
<1> SUFFICES ASSUME MetadataInv, [MetadataNext]_metadataVars
             PROVE  MetadataInv'
  OBVIOUS
<1>a. /\ MetadataTypeOK /\ latest = (IF logs THEN 0 ELSE count)
      /\ \A s \in Subscribers : since[s] <= count
      /\ \A s \in Subscribers \ subscribed : passed[s] = {} /\ missed[s] = {}
      /\ \A s \in subscribed : SubscriberSound(s)
  BY DEF MetadataInv
<1>1. ASSUME Broadcast
      PROVE  MetadataInv'
  <2> DEFINE n == count + 1
  <2>1. /\ count' = n /\ latest' = (IF logs THEN 0 ELSE n) /\ n \in Nat /\ count \in Nat
        /\ UNCHANGED <<logs, subscribed, since, passed>>
        /\ channel' = [s \in Subscribers |->
                         IF s \in subscribed /\ Room(s) THEN Append(channel[s], n) ELSE channel[s]]
        /\ missed' = [s \in Subscribers |->
                        IF s \in subscribed /\ ~Room(s) THEN missed[s] \cup {n} ELSE missed[s]]
    BY <1>1, <1>a, SMTT(20) DEF Broadcast, Deliver, MetadataTypeOK
  <2> HIDE DEF n
  <2>2. \A s \in Subscribers : Append(channel[s], n) \in Seq(Nat) /\ missed[s] \cup {n} \in SUBSET Nat
    BY <2>1, <1>a, SMTT(20) DEF MetadataTypeOK
  <2>3. MetadataTypeOK'
    BY <2>1, <2>2, <1>a DEF MetadataTypeOK
  <2>4. ASSUME NEW s \in subscribed
        PROVE  SubscriberSound(s)'
    <3>1. /\ s \in Subscribers /\ channel[s] \in Seq(Nat) /\ SubscriberSound(s)
          /\ since[s] \in Nat /\ since[s] <= count
      BY <1>a DEF MetadataTypeOK
    <3>2. /\ First(s)' = First(s) /\ First(s) \in Nat /\ First(s) <= n
          /\ First(s)..n = (First(s)..count) \cup {n}
      BY <2>1, <3>1, SMTT(20) DEF First, n
    <3>3. \A m \in Told(s) \cup missed[s] : m < n
      BY <3>1, <3>2, <2>1, SMTT(20) DEF SubscriberSound, n
    <3>4. CASE Room(s)
      <4>1. channel'[s] = Append(channel[s], n) /\ missed'[s] = missed[s]
        BY <2>1, <3>1, <3>4
      <4>2. Elements(channel'[s]) = Elements(channel[s]) \cup {n}
        BY <4>1, <3>1, <2>1, Appended, SMTT(20)
      <4>3. Rising(channel'[s])
        BY <4>1, <3>1, <3>3, <2>1, RisingAppended DEF Told, SubscriberSound
      <4>4. Told(s)' = Told(s) \cup {n} /\ n \notin missed[s]
        BY <4>2, <2>1, <3>3, SMTT(20) DEF Told
      <4>5. QED
        BY <4>1, <4>2, <4>3, <4>4, <2>1, <3>1, <3>2, <3>3, SMTT(20) DEF SubscriberSound, Told
    <3>5. CASE ~Room(s)
      <4>1. channel'[s] = channel[s] /\ missed'[s] = missed[s] \cup {n}
        BY <2>1, <3>1, <3>5
      <4>2. Told(s)' = Told(s) /\ n \notin Told(s)
        BY <4>1, <2>1, <3>3, SMTT(20) DEF Told
      <4>3. QED
        BY <4>1, <4>2, <2>1, <3>1, <3>2, SMTT(20) DEF SubscriberSound
    <3>6. QED
      BY <3>4, <3>5
  <2>5. \A s \in Subscribers : since'[s] <= count'
    BY <2>1, <1>a, SMTT(20) DEF MetadataTypeOK, n
  <2>6. \A s \in Subscribers \ subscribed : passed'[s] = {} /\ missed'[s] = {}
    BY <2>1, <1>a
  <2>7. QED
    BY <2>1, <2>3, <2>4, <2>5, <2>6 DEF MetadataInv
<1>2. ASSUME NEW s \in Subscribers, Subscribe(s) \/ Unsubscribe(s) \/ PassOn(s)
      PROVE  MetadataInv'
  <2>1. /\ UNCHANGED <<logs, count, latest>>
        /\ \A o \in Subscribers \ {s} :
              /\ (o \in subscribed') = (o \in subscribed)
              /\ since'[o] = since[o] /\ channel'[o] = channel[o]
              /\ passed'[o] = passed[o] /\ missed'[o] = missed[o]
    BY <1>2, <1>a, SMTT(20) DEF Subscribe, Unsubscribe, PassOn, MetadataTypeOK
  <2>2. \A o \in subscribed' \ {s} : SubscriberSound(o)'
    BY <2>1, <1>2, <1>a, SMTT(20) DEF SubscriberSound, First, Told, MetadataTypeOK, Subscribe, Unsubscribe, PassOn
  <2>3. CASE Subscribe(s)
    <3>1. /\ s \notin subscribed /\ subscribed' = subscribed \cup {s}
          /\ since' = [since EXCEPT ![s] = count] /\ UNCHANGED <<passed, missed>>
          /\ channel' = [channel EXCEPT ![s] = IF latest = 0 THEN <<>> ELSE <<latest>>]
      BY <2>3 DEF Subscribe
    <3>2. channel' \in [Subscribers -> Seq(Nat)]
      BY <3>1, <1>a, SMTT(20) DEF MetadataTypeOK
    <3>3. MetadataTypeOK'
      BY <2>1, <3>1, <3>2, <1>a DEF MetadataTypeOK
    <3>4. /\ since'[s] = count /\ passed'[s] = {} /\ missed'[s] = {} /\ count \in Nat
          /\ channel'[s] = IF latest = 0 THEN <<>> ELSE <<latest>>
      BY <3>1, <1>a DEF MetadataTypeOK
    <3>5. CASE latest = 0
      <4>1. Elements(channel'[s]) = {} /\ Rising(channel'[s])
        BY <3>4, <3>5, SMTT(20) DEF Elements, Rising
      <4>2. First(s)' = count + 1
        BY <2>1, <3>4, <3>5, <1>a DEF First
      <4>3. First(s)'..count = {}
        BY <4>2, <3>4, SMTT(20)
      <4>4. QED
        BY <4>1, <4>3, <2>1, <2>2, <3>1, <3>3, <3>4, <1>a, SMTT(20) DEF MetadataInv, SubscriberSound, Told
    <3>6. CASE latest # 0
      <4>1. Elements(channel'[s]) = {count} /\ Rising(channel'[s])
        BY <3>4, <3>6, <1>a, SMTT(20) DEF Elements, Rising
      <4>2. First(s)' = count /\ count # 0
        BY <2>1, <3>4, <3>6, <1>a DEF First, MetadataTypeOK
      <4>3. First(s)'..count = {count}
        BY <4>2, <3>4, SMTT(20)
      <4>4. QED
        BY <4>1, <4>3, <2>1, <2>2, <3>1, <3>3, <3>4, <1>a, SMTT(20) DEF MetadataInv, SubscriberSound, Told
    <3>7. QED
      BY <3>5, <3>6
  <2>4. CASE Unsubscribe(s)
    <3>1. /\ subscribed' = subscribed \ {s} /\ since'[s] = 0 /\ passed'[s] = {} /\ missed'[s] = {}
          /\ MetadataTypeOK'
      BY <2>4, <1>a, SMTT(20) DEF Unsubscribe, MetadataTypeOK
    <3>2. 0 <= count
      BY <1>a, SMTT(20) DEF MetadataTypeOK
    <3>3. QED
      BY <2>1, <2>2, <3>1, <3>2, <1>a DEF MetadataInv
  <2>5. CASE PassOn(s)
    <3>1. /\ s \in subscribed /\ channel[s] # <<>> /\ UNCHANGED <<subscribed, since, missed>>
          /\ passed' = [passed EXCEPT ![s] = @ \cup {Head(channel[s])}]
          /\ channel' = [channel EXCEPT ![s] = Tail(@)]
      BY <2>5 DEF PassOn
    <3>2. channel[s] \in Seq(Nat) /\ SubscriberSound(s)
      BY <3>1, <1>a DEF MetadataTypeOK
    <3>3. /\ Head(channel[s]) \in Nat /\ Tail(channel[s]) \in Seq(Nat)
          /\ Elements(channel[s]) = {Head(channel[s])} \cup Elements(Tail(channel[s]))
      BY <3>1, <3>2, Taken
    <3>4. Rising(Tail(channel[s])) /\ \A n \in Elements(Tail(channel[s])) : Head(channel[s]) < n
      BY <3>1, <3>2, RisingTaken DEF SubscriberSound
    <3>5. passed'[s] = passed[s] \cup {Head(channel[s])} /\ channel'[s] = Tail(channel[s])
      BY <3>1, <1>a DEF MetadataTypeOK
    <3>6. MetadataTypeOK'
      BY <2>1, <3>1, <3>3, <1>a, SMTT(20) DEF MetadataTypeOK
    <3>7. Told(s)' = Told(s) /\ First(s)' = First(s)
      BY <2>1, <3>1, <3>3, <3>5 DEF Told, First
    <3>8. SubscriberSound(s)'
      BY <2>1, <3>1, <3>2, <3>3, <3>4, <3>5, <3>7 DEF SubscriberSound
    <3>9. QED
      BY <2>1, <2>2, <3>1, <3>6, <3>8, <1>a DEF MetadataInv
  <2>6. QED
    BY <1>2, <2>3, <2>4, <2>5
<1>3. CASE UNCHANGED metadataVars
  BY <1>3, <1>a DEF metadataVars, MetadataInv, MetadataTypeOK, SubscriberSound, First, Told
<1>4. QED
  BY <1>1, <1>2, <1>3 DEF MetadataNext

(* A subscriber is told the latest message and every later one, in order   *)
(* and none twice, but for those that found its own channel full: for any  *)
(* number of subscribers that come, go and fall behind, and channels of    *)
(* any size.                                                               *)
THEOREM NoMessageBetween == MetadataSpec => []MetadataComplete
<1>1. MetadataInv => MetadataComplete
  BY DEF MetadataInv, SubscriberSound, MetadataComplete, Told, First, Elements, Rising
<1>2. QED
  BY <1>1, MetadataInitInv, MetadataNextInv, PTL DEF MetadataSpec

----------------------------------------------------------------------------
(* The publisher.                                                          *)

Messages == Producers \X Nat

(* Messages of one call are in the order of their numbers: in a queue, and *)
(* between what comes first and what comes then.                           *)
Ordered(q) == \A i, j \in DOMAIN q : i < j /\ q[i][1] = q[j][1] => q[i][2] < q[j][2]
Before(A, B) == \A x \in A, y \in B : x[1] = y[1] => x[2] < y[2]

LEMMA OrderedAppended ==
    ASSUME NEW q \in Seq(Messages), NEW m \in Messages, Ordered(q), Before(Elements(q), {m})
    PROVE  Ordered(Append(q, m))
<1>1. DOMAIN q = 1..Len(q) /\ DOMAIN Append(q, m) = 1..(Len(q) + 1) /\ Len(q) \in Nat
  BY SMTT(20)
<1>2. \A i \in 1..Len(q) : q[i][1] = m[1] => q[i][2] < m[2]
  BY <1>1 DEF Elements, Before
<1>3. SUFFICES ASSUME NEW i \in 1..(Len(q) + 1), NEW j \in 1..(Len(q) + 1), i < j,
                      Append(q, m)[i][1] = Append(q, m)[j][1]
               PROVE  Append(q, m)[i][2] < Append(q, m)[j][2]
  BY <1>1 DEF Ordered
<1>4. i \in 1..Len(q) /\ Append(q, m)[i] = q[i]
  BY <1>1, <1>3, Appended, SMTT(20)
<1>5. CASE j = Len(q) + 1
  BY <1>2, <1>3, <1>4, <1>5, Appended, SMTT(20)
<1>6. CASE j # Len(q) + 1
  <2>1. j \in 1..Len(q) /\ Append(q, m)[j] = q[j]
    BY <1>1, <1>6, Appended, SMTT(20)
  <2>2. QED
    BY <1>1, <1>3, <1>4, <2>1 DEF Ordered
<1>7. QED
  BY <1>5, <1>6

LEMMA OrderedTaken ==
    ASSUME NEW q \in Seq(Messages), q # <<>>, Ordered(q)
    PROVE  Ordered(Tail(q)) /\ Before({Head(q)}, Elements(Tail(q)))
<1>1. /\ DOMAIN q = 1..Len(q) /\ DOMAIN Tail(q) = 1..(Len(q) - 1) /\ Len(q) \in Nat
      /\ \A i \in 1..(Len(q) - 1) : Tail(q)[i] = q[i + 1] /\ i + 1 \in 1..Len(q)
      /\ Head(q) = q[1] /\ 1 \in 1..Len(q)
  BY Taken, SMTT(20)
<1>2. Ordered(Tail(q))
  BY <1>1, SMTT(20) DEF Ordered
<1>3. \A i \in 1..(Len(q) - 1) : Head(q)[1] = Tail(q)[i][1] => Head(q)[2] < Tail(q)[i][2]
  BY <1>1, SMTT(20) DEF Ordered
<1>4. QED
  BY <1>1, <1>2, <1>3 DEF Elements, Before

LEMMA Joined ==
    ASSUME NEW a \in Seq(Messages), NEW b \in Seq(Messages), Ordered(a), Ordered(b),
           Before(Elements(a), Elements(b))
    PROVE  /\ a \o b \in Seq(Messages)
           /\ Ordered(a \o b)
           /\ Elements(a \o b) = Elements(a) \cup Elements(b)
<1>1. /\ Len(a) \in Nat /\ Len(b) \in Nat /\ DOMAIN a = 1..Len(a) /\ DOMAIN b = 1..Len(b)
      /\ a \o b \in Seq(Messages) /\ DOMAIN (a \o b) = 1..(Len(a) + Len(b))
      /\ \A i \in 1..(Len(a) + Len(b)) : (a \o b)[i] = IF i <= Len(a) THEN a[i] ELSE b[i - Len(a)]
  BY SMTT(20)
<1>2. Ordered(a \o b)
  <2>1. SUFFICES ASSUME NEW i \in 1..(Len(a) + Len(b)), NEW j \in 1..(Len(a) + Len(b)), i < j,
                        (a \o b)[i][1] = (a \o b)[j][1]
                 PROVE  (a \o b)[i][2] < (a \o b)[j][2]
    BY <1>1 DEF Ordered
  <2>2. CASE j <= Len(a)
    <3>1. /\ i \in DOMAIN a /\ j \in DOMAIN a /\ (a \o b)[i] = a[i] /\ (a \o b)[j] = a[j]
      BY <1>1, <2>1, <2>2, SMTT(20)
    <3>2. QED
      BY <2>1, <3>1 DEF Ordered
  <2>3. CASE i > Len(a)
    <3>1. /\ i - Len(a) \in DOMAIN b /\ j - Len(a) \in DOMAIN b /\ i - Len(a) < j - Len(a)
          /\ (a \o b)[i] = b[i - Len(a)] /\ (a \o b)[j] = b[j - Len(a)]
      BY <1>1, <2>1, <2>3, SMTT(20)
    <3>2. QED
      BY <2>1, <3>1 DEF Ordered
  <2>4. CASE i <= Len(a) /\ j > Len(a)
    <3>1. /\ i \in DOMAIN a /\ j - Len(a) \in DOMAIN b
          /\ (a \o b)[i] = a[i] /\ (a \o b)[j] = b[j - Len(a)]
      BY <1>1, <2>1, <2>4, SMTT(20)
    <3>2. a[i] \in Elements(a) /\ b[j - Len(a)] \in Elements(b)
      BY <3>1 DEF Elements
    <3>3. QED
      BY <2>1, <3>1, <3>2 DEF Before
  <2>5. QED
    BY <1>1, <2>2, <2>3, <2>4, SMTT(20)
<1>3. Elements(a \o b) \subseteq Elements(a) \cup Elements(b)
  <2>1. SUFFICES ASSUME NEW i \in 1..(Len(a) + Len(b))
                 PROVE  (a \o b)[i] \in Elements(a) \cup Elements(b)
    BY <1>1 DEF Elements
  <2>2. CASE i <= Len(a)
    BY <1>1, <2>2, SMTT(20) DEF Elements
  <2>3. CASE i > Len(a)
    <3>1. i - Len(a) \in 1..Len(b) /\ (a \o b)[i] = b[i - Len(a)]
      BY <1>1, <2>3, SMTT(20)
    <3>2. QED
      BY <1>1, <3>1 DEF Elements
  <2>4. QED
    BY <1>1, <2>2, <2>3, SMTT(20)
<1>4. Elements(a) \cup Elements(b) \subseteq Elements(a \o b)
  <2>1. \A i \in 1..Len(a) : i \in 1..(Len(a) + Len(b)) /\ (a \o b)[i] = a[i]
    BY <1>1, SMTT(20)
  <2>2. \A i \in 1..Len(b) :
           i + Len(a) \in 1..(Len(a) + Len(b)) /\ (a \o b)[i + Len(a)] = b[i]
    <3>1. SUFFICES ASSUME NEW i \in 1..Len(b)
                   PROVE  i + Len(a) \in 1..(Len(a) + Len(b)) /\ (a \o b)[i + Len(a)] = b[i]
      OBVIOUS
    <3>2. i + Len(a) \in 1..(Len(a) + Len(b)) /\ ~(i + Len(a) <= Len(a)) /\ (i + Len(a)) - Len(a) = i
      BY <1>1, SMTT(20)
    <3>3. QED
      BY <1>1, <3>2
  <2>3. Elements(a) \subseteq Elements(a \o b)
    BY <1>1, <2>1 DEF Elements
  <2>4. Elements(b) \subseteq Elements(a \o b)
    <3>1. SUFFICES ASSUME NEW i \in 1..Len(b)
                   PROVE  b[i] \in Elements(a \o b)
      BY <1>1 DEF Elements
    <3>2. PICK j \in 1..(Len(a) + Len(b)) : (a \o b)[j] = b[i]
      BY <2>2
    <3>3. QED
      BY <1>1, <3>2 DEF Elements
  <2>5. QED
    BY <2>3, <2>4
<1>5. QED
  BY <1>1, <1>2, <1>3, <1>4

(* What the worker has in its hands.                                       *)
InHand == IF pending = NoMessage THEN {} ELSE {pending}

Sent == Elements(published) \cup InHand \cup Elements(mqttQueue)

(* The three places of a message, in order; and none beyond its call.      *)
MqttInv ==
    /\ MqttTypeOK
    /\ Ordered(published) /\ Ordered(mqttQueue)
    /\ Before(Elements(published), InHand)
    /\ Before(Elements(published) \cup InHand, Elements(mqttQueue))
    /\ \A m \in Sent : m \in Messages /\ m[2] <= pushed[m[1]]
    /\ \A p \in Producers : \A n \in 1..pushed[p] : <<p, n>> \in Sent \cup dropped
    /\ workerRuns = FALSE => pending = NoMessage

LEMMA MqttInitInv == MqttInit => MqttInv
<1> SUFFICES ASSUME MqttInit
             PROVE  MqttInv
  OBVIOUS
<1>1. MqttTypeOK
  <2>1. mqttClosed \in BOOLEAN /\ workerRuns \in BOOLEAN
    BY DEF MqttInit
  <2>2. QED
    BY <2>1, SMTT(20) DEF MqttInit, MqttTypeOK
<1>2. Elements(published) = {} /\ Elements(mqttQueue) = {} /\ InHand = {}
      /\ Ordered(published) /\ Ordered(mqttQueue)
  BY SMTT(20) DEF MqttInit, Elements, InHand, Ordered
<1>3. \A p \in Producers : 1..pushed[p] = {}
  BY SMTT(20) DEF MqttInit
<1>4. QED
  BY <1>1, <1>2, <1>3 DEF MqttInv, Sent, Before, MqttInit

(* A message that keeps its place or moves one place on keeps the order:   *)
(* what a step must show.                                                  *)
LEMMA MqttNextInv == MqttInv /\ [MqttNext]_mqttVars => MqttInv'
<1> SUFFICES ASSUME MqttInv, [MqttNext]_mqttVars
             PROVE  MqttInv'
  OBVIOUS
<1>a. /\ pushed \in [Producers -> Nat] /\ mqttQueue \in Seq(Messages) /\ published \in Seq(Messages)
      /\ pending \in Messages \cup {NoMessage} /\ mqttTokens \in Nat /\ dropped \subseteq Messages
  BY DEF MqttInv, MqttTypeOK, Messages
<1>b. mqttClosed \in BOOLEAN /\ workerRuns \in BOOLEAN
  BY DEF MqttInv, MqttTypeOK
<1>c. /\ Ordered(published) /\ Ordered(mqttQueue)
      /\ Before(Elements(published), InHand)
      /\ Before(Elements(published) \cup InHand, Elements(mqttQueue))
      /\ \A m \in Sent : m \in Messages /\ m[2] <= pushed[m[1]]
      /\ \A p \in Producers : \A n \in 1..pushed[p] : <<p, n>> \in Sent \cup dropped
      /\ workerRuns = FALSE => pending = NoMessage
  BY DEF MqttInv
<1>d. \A m \in Messages : m # NoMessage
  <2>1. ASSUME NEW p \in Producers, NEW n \in Nat
        PROVE  <<p, n>> # <<>>
    <3>1. Len(<<p, n>>) = 2
      OBVIOUS
    <3>2. Len(<<>>) = 0
      OBVIOUS
    <3>3. QED
      BY <3>1, <3>2
  <2>2. SUFFICES ASSUME NEW m \in Messages
                 PROVE  m # NoMessage
    OBVIOUS
  <2>3. PICK p \in Producers, n \in Nat : m = <<p, n>>
    BY SMTT(20) DEF Messages
  <2>4. QED
    BY <2>1, <2>3 DEF NoMessage
<1>1. ASSUME NEW p \in Producers, Push(p)
      PROVE  MqttInv'
  <2>1. PICK m \in Messages : m = <<p, pushed[p] + 1>>
    <3>1. pushed[p] + 1 \in Nat
      BY <1>a, SMTT(20)
    <3>2. <<p, pushed[p] + 1>> \in Producers \X Nat
      BY <3>1
    <3>3. QED
      BY <3>2 DEF Messages
  <2>2. /\ pushed' = [pushed EXCEPT ![p] = @ + 1]
        /\ UNCHANGED <<pending, mqttTokens, mqttClosed, workerRuns, published>>
        /\ \/ mqttQueue' = Append(mqttQueue, m) /\ UNCHANGED dropped
           \/ dropped' = dropped \cup {m} /\ UNCHANGED mqttQueue
    BY <1>1, <2>1 DEF Push
  <2>3. /\ pushed' \in [Producers -> Nat] /\ pushed'[p] = pushed[p] + 1
        /\ \A o \in Producers \ {p} : pushed'[o] = pushed[o]
    BY <2>2, <1>a, SMTT(20)
  <2>4. Before(Sent, {m})
    BY <2>1, <1>a, <1>c, SMTT(20) DEF Before, Messages
  <2>5. Elements(published)' = Elements(published) /\ InHand' = InHand
    BY <2>2 DEF Elements, InHand
  <2>6. ASSUME NEW o \in Producers, NEW n \in 1..pushed'[o]
        PROVE  <<o, n>> \in Sent \cup dropped \/ <<o, n>> = m
    BY <2>1, <2>3, <1>a, <1>c, SMTT(20) DEF Messages
  <2>7. \A x \in Sent \cup {m} : x \in Messages /\ x[2] <= pushed'[x[1]]
    BY <2>1, <2>3, <1>a, <1>c, SMTT(20) DEF Messages
  <2>8. CASE mqttQueue' = Append(mqttQueue, m) /\ UNCHANGED dropped
    <3>1. mqttQueue' \in Seq(Messages) /\ Elements(mqttQueue)' = Elements(mqttQueue) \cup {m}
      <4>1. mqttQueue' \in Seq(Messages) /\ Elements(mqttQueue') = Elements(mqttQueue) \cup {m}
        BY <2>8, <1>a, Appended, SMTT(20)
      <4>2. Elements(mqttQueue)' = Elements(mqttQueue')
        BY DEF Elements
      <4>3. QED
        BY <4>1, <4>2
    <3>2. Before(Elements(mqttQueue), {m}) /\ Before(Elements(published) \cup InHand, {m})
      BY <2>4 DEF Before, Sent
    <3>3. Ordered(mqttQueue')
      BY <2>8, <3>2, <1>a, <1>c, OrderedAppended
    <3>4. Before(Elements(published)' \cup InHand', Elements(mqttQueue)')
      BY <2>5, <3>1, <3>2, <1>c DEF Before
    <3>5. Sent' = Sent \cup {m}
      BY <2>5, <3>1 DEF Sent
    <3>6. MqttTypeOK'
      BY <2>2, <2>3, <2>8, <3>1, <1>a, <1>b DEF MqttTypeOK, Messages
    <3>7. QED
      BY <2>2, <2>5, <2>6, <2>7, <2>8, <3>3, <3>4, <3>5, <3>6, <1>c DEF MqttInv, Ordered
  <2>9. CASE dropped' = dropped \cup {m} /\ UNCHANGED mqttQueue
    <3>1. Sent' = Sent /\ Elements(mqttQueue)' = Elements(mqttQueue)
      BY <2>5, <2>9 DEF Sent, Elements
    <3>2. MqttTypeOK'
      BY <2>2, <2>3, <2>9, <1>a, <1>b DEF MqttTypeOK, Messages
    <3>3. QED
      BY <2>2, <2>5, <2>6, <2>7, <2>9, <3>1, <3>2, <1>c DEF MqttInv, Ordered
  <2>10. QED
    BY <2>2, <2>8, <2>9
<1>2. ASSUME WorkerTakes
      PROVE  MqttInv'
  <2>1. /\ workerRuns /\ pending = NoMessage /\ mqttQueue # <<>> /\ mqttQueue' = Tail(mqttQueue)
        /\ \/ pending' = Head(mqttQueue) /\ UNCHANGED dropped
           \/ dropped' = dropped \cup {Head(mqttQueue)} /\ UNCHANGED pending
        /\ UNCHANGED <<pushed, mqttTokens, mqttClosed, workerRuns, published>>
    BY <1>2 DEF WorkerTakes
  <2>2. /\ Head(mqttQueue) \in Messages /\ mqttQueue' \in Seq(Messages)
        /\ Elements(mqttQueue) = {Head(mqttQueue)} \cup Elements(mqttQueue')
    BY <2>1, <1>a, Taken
  <2>3. Ordered(mqttQueue') /\ Before({Head(mqttQueue)}, Elements(mqttQueue'))
    BY <2>1, <1>a, <1>c, OrderedTaken
  <2>4. InHand = {} /\ (InHand' = {Head(mqttQueue)} \/ (InHand' = {} /\ dropped' = dropped \cup {Head(mqttQueue)}))
    BY <2>1, <2>2, <1>d DEF InHand
  <2>5. MqttTypeOK'
    BY <2>1, <2>2, <1>a, <1>b DEF MqttTypeOK, Messages
  <2>6. Elements(published)' = Elements(published) /\ Elements(mqttQueue)' = Elements(mqttQueue')
    BY <2>1 DEF Elements
  <2>7. Sent' \subseteq Sent /\ Sent \cup dropped \subseteq Sent' \cup dropped'
    <3>1. dropped \subseteq dropped'
      BY <2>1
    <3>2. QED
      BY <2>1, <2>2, <2>4, <2>6, <3>1 DEF Sent
  <2>8. /\ Before(Elements(published)', InHand')
        /\ Before(Elements(published)' \cup InHand', Elements(mqttQueue)')
    BY <2>2, <2>3, <2>4, <2>6, <1>c DEF Before
  <2>9. QED
    BY <2>1, <2>3, <2>5, <2>6, <2>7, <2>8, <1>c DEF MqttInv, Ordered
<1>3. ASSUME WorkerPublishes
      PROVE  MqttInv'
  <2>1. /\ pending # NoMessage /\ pending' = NoMessage
        /\ \/ dropped' = dropped \cup {pending} /\ UNCHANGED published
           \/ published' = Append(published, pending) /\ UNCHANGED dropped
        /\ UNCHANGED <<pushed, mqttQueue, mqttClosed, workerRuns>>
        /\ mqttTokens' \in Nat
    BY <1>3, <1>a, SMTT(20) DEF WorkerPublishes
  <2>2. pending \in Messages /\ InHand = {pending} /\ InHand' = {}
    BY <2>1, <1>a DEF InHand
  <2>3. Elements(mqttQueue)' = Elements(mqttQueue)
    BY <2>1 DEF Elements
  <2>4. CASE dropped' = dropped \cup {pending} /\ UNCHANGED published
    <3>1. Elements(published)' = Elements(published)
      BY <2>4 DEF Elements
    <3>2. MqttTypeOK'
      BY <2>1, <2>2, <2>4, <1>a, <1>b DEF MqttTypeOK, Messages
    <3>3. Sent' \subseteq Sent /\ Sent \cup dropped \subseteq Sent' \cup dropped'
      BY <2>2, <2>3, <2>4, <3>1 DEF Sent
    <3>4. QED
      BY <2>1, <2>2, <2>3, <2>4, <3>1, <3>2, <3>3, <1>c DEF MqttInv, Ordered, Before
  <2>5. CASE published' = Append(published, pending) /\ UNCHANGED dropped
    <3>1. published' \in Seq(Messages) /\ Elements(published') = Elements(published) \cup {pending}
      BY <2>2, <2>5, <1>a, Appended, SMTT(20)
    <3>2. Elements(published)' = Elements(published')
      BY DEF Elements
    <3>3. Ordered(published')
      BY <2>2, <2>5, <1>a, <1>c, OrderedAppended
    <3>4. MqttTypeOK'
      BY <2>1, <2>5, <3>1, <1>a, <1>b DEF MqttTypeOK, Messages
    <3>5. Sent' = Sent
      BY <2>2, <2>3, <3>1, <3>2 DEF Sent
    <3>6. QED
      BY <2>1, <2>2, <2>3, <2>5, <3>1, <3>2, <3>3, <3>4, <3>5, <1>c DEF MqttInv, Ordered, Before
  <2>6. QED
    BY <2>1, <2>4, <2>5
<1>4. ASSUME TokenWaiter \/ ClosePublisher \/ WorkerEnds \/ UNCHANGED mqttVars
      PROVE  MqttInv'
  <2>1. UNCHANGED <<pushed, mqttQueue, pending, published, dropped>> /\ mqttTokens' \in Nat
    BY <1>4, <1>a, SMTT(20) DEF TokenWaiter, ClosePublisher, WorkerEnds, mqttVars
  <2>2. mqttClosed' \in BOOLEAN /\ workerRuns' \in BOOLEAN
    BY <1>4, <1>b DEF TokenWaiter, ClosePublisher, WorkerEnds, mqttVars
  <2>3. workerRuns' = FALSE => pending = NoMessage
    BY <1>4, <1>c DEF TokenWaiter, ClosePublisher, WorkerEnds, mqttVars
  <2>4. MqttTypeOK'
    BY <2>1, <2>2, <1>a DEF MqttTypeOK, Messages
  <2>5. Elements(published)' = Elements(published) /\ Elements(mqttQueue)' = Elements(mqttQueue)
        /\ InHand' = InHand /\ Sent' = Sent
    BY <2>1 DEF Elements, InHand, Sent
  <2>6. QED
    BY <2>1, <2>3, <2>4, <2>5, <1>c DEF MqttInv, Ordered
<1>5. ASSUME NewPublisher
      PROVE  MqttInv'
  <2>1. workerRuns = FALSE /\ workerRuns' = TRUE /\ mqttClosed' = FALSE
    BY <1>5, <1>b DEF NewPublisher
  <2>2. /\ pushed' = [p \in Producers |-> 0] /\ mqttQueue' = <<>> /\ mqttTokens' = 0
        /\ published' = <<>> /\ dropped' = {} /\ pending' = NoMessage
    BY <1>5, <2>1, <1>c DEF NewPublisher
  <2>3. MqttTypeOK'
    <3>1. mqttClosed' \in BOOLEAN /\ workerRuns' \in BOOLEAN
      BY <2>1
    <3>2. QED
      BY <2>2, <3>1, SMTT(20) DEF MqttTypeOK, Messages
  <2>4. /\ Elements(published)' = {} /\ Elements(mqttQueue)' = {} /\ InHand' = {}
        /\ Ordered(published)' /\ Ordered(mqttQueue)'
    BY <2>2, SMTT(20) DEF Elements, InHand, Ordered
  <2>5. \A p \in Producers : 1..pushed'[p] = {}
    BY <2>2, SMTT(20)
  <2>6. QED
    BY <2>2, <2>3, <2>4, <2>5 DEF MqttInv, Sent, Before
<1>6. QED
  BY <1>1, <1>2, <1>3, <1>4, <1>5 DEF MqttNext

(* The broker gets the messages of a call in their order and none is lost  *)
(* unseen, for any number of calls and queues of any size.                 *)
THEOREM CallsStayInOrder == MqttSpec => []PublishedInOrder
<1>1. MqttInv => PublishedInOrder
  <2> SUFFICES ASSUME MqttInv
               PROVE  PublishedInOrder
    OBVIOUS
  <2> DEFINE hand == IF pending = NoMessage THEN <<>> ELSE <<pending>>
             front == published \o hand
             line == front \o mqttQueue
  <2>1. /\ mqttQueue \in Seq(Messages) /\ published \in Seq(Messages)
        /\ pending \in Messages \cup {NoMessage}
    BY DEF MqttInv, MqttTypeOK, Messages
  <2>2. hand \in Seq(Messages) /\ Ordered(hand) /\ Elements(hand) = InHand
    BY <2>1, SMTT(20) DEF Ordered, Elements, InHand
  <2> HIDE DEF hand
  <2>3. front \in Seq(Messages) /\ Ordered(front) /\ Elements(front) = Elements(published) \cup InHand
    BY <2>1, <2>2, Joined DEF MqttInv
  <2> HIDE DEF front
  <2>4. Ordered(line) /\ Elements(line) = Sent
    BY <2>1, <2>3, Joined DEF MqttInv, Sent
  <2> HIDE DEF line
  <2>5. /\ \A i, j \in DOMAIN line : i < j /\ line[i][1] = line[j][1] => line[i][2] < line[j][2]
        /\ \A p \in Producers : \A n \in 1..pushed[p] :
              <<p, n>> \in {line[i] : i \in DOMAIN line} \cup dropped
    BY <2>4 DEF Ordered, Elements, MqttInv
  <2>6. QED
    BY <2>5 DEF PublishedInOrder, line, front, hand
<1>2. QED
  BY <1>1, MqttInitInv, MqttNextInv, PTL DEF MqttSpec

----------------------------------------------------------------------------
(* Batcher.                                                                *)

Packet == Writers \X Nat

(* Two packets, one before the other, are in order: unless one of them is  *)
(* excepted.                                                               *)
Follows(x, y, except) == x[1] = y[1] /\ x \notin except /\ y \notin except => x[2] < y[2]
InOrder(q, except) == \A i, j \in DOMAIN q : i < j => Follows(q[i], q[j], except)
AllBefore(A, B, except) == \A x \in A, y \in B : Follows(x, y, except)

LEMMA InOrderJoined ==
    ASSUME NEW a \in Seq(Packet), NEW b \in Seq(Packet), NEW except,
           InOrder(a, except), InOrder(b, except), AllBefore(Elements(a), Elements(b), except)
    PROVE  /\ a \o b \in Seq(Packet)
           /\ InOrder(a \o b, except)
           /\ Elements(a \o b) \subseteq Elements(a) \cup Elements(b)
<1>1. /\ Len(a) \in Nat /\ Len(b) \in Nat /\ DOMAIN a = 1..Len(a) /\ DOMAIN b = 1..Len(b)
      /\ a \o b \in Seq(Packet) /\ DOMAIN (a \o b) = 1..(Len(a) + Len(b))
      /\ \A i \in 1..(Len(a) + Len(b)) : (a \o b)[i] = IF i <= Len(a) THEN a[i] ELSE b[i - Len(a)]
  BY SMTT(20)
<1>2. \A i \in 1..(Len(a) + Len(b)) :
         IF i <= Len(a) THEN i \in DOMAIN a /\ (a \o b)[i] = a[i]
         ELSE i - Len(a) \in DOMAIN b /\ (a \o b)[i] = b[i - Len(a)]
  BY <1>1, SMTT(20)
<1>3. ASSUME NEW i \in 1..(Len(a) + Len(b)), NEW j \in 1..(Len(a) + Len(b)), i < j
      PROVE  Follows((a \o b)[i], (a \o b)[j], except)
  <2>1. CASE j <= Len(a)
    <3>1. i <= Len(a)
      BY <1>1, <1>3, <2>1, SMTT(20)
    <3> QED BY <1>2, <1>3, <2>1, <3>1 DEF InOrder
  <2>2. CASE ~(i <= Len(a))
    <3>1. ~(j <= Len(a)) /\ i - Len(a) < j - Len(a)
      BY <1>1, <1>3, <2>2, SMTT(20)
    <3> QED BY <1>2, <2>2, <3>1 DEF InOrder
  <2>3. CASE i <= Len(a) /\ ~(j <= Len(a))
    <3>1. (a \o b)[i] \in Elements(a) /\ (a \o b)[j] \in Elements(b)
      BY <1>2, <2>3 DEF Elements
    <3> QED BY <3>1 DEF AllBefore
  <2> QED BY <2>1, <2>2, <2>3
<1>4. Elements(a \o b) \subseteq Elements(a) \cup Elements(b)
  BY <1>1, <1>2 DEF Elements
<1> QED BY <1>1, <1>3, <1>4 DEF InOrder

(* What a flush sends are packets of the batch, in its order.              *)
LEMMA FlushedPart ==
    ASSUME NEW q \in Seq(Packet), NEW except, InOrder(q, except), NEW sent \in Flushes(q)
    PROVE  /\ sent \in Seq(Packet)
           /\ Elements(sent) \subseteq Elements(q)
           /\ InOrder(sent, except)
<1>1. PICK n \in 0..Len(q) : sent = SubSeq(q, 1, n)
  BY DEF Flushes
<1>2. Len(q) \in Nat /\ DOMAIN q = 1..Len(q)
  BY SMTT(20)
<1>3. \A i \in 1..n : i \in 1..Len(q) /\ q[i] \in Packet
  BY <1>1, <1>2, SMTT(20)
<1>4. /\ sent \in Seq(Packet) /\ DOMAIN sent = 1..n
      /\ \A i \in 1..n : sent[i] = q[i]
  BY <1>1, <1>2, <1>3, SMTT(20)
<1> QED BY <1>2, <1>3, <1>4 DEF Elements, InOrder

LEMMA InOrderAppended ==
    ASSUME NEW q \in Seq(Packet), NEW except, NEW x \in Packet,
           InOrder(q, except), AllBefore(Elements(q), {x}, except)
    PROVE  /\ Append(q, x) \in Seq(Packet)
           /\ InOrder(Append(q, x), except)
           /\ Elements(Append(q, x)) = Elements(q) \cup {x}
<1>1. /\ Len(q) \in Nat /\ DOMAIN q = 1..Len(q) /\ DOMAIN Append(q, x) = 1..(Len(q) + 1)
      /\ Append(q, x) \in Seq(Packet)
      /\ \A i \in 1..Len(q) : Append(q, x)[i] = q[i]
      /\ Append(q, x)[Len(q) + 1] = x
      /\ Elements(Append(q, x)) = Elements(q) \cup {x}
  BY Appended, SMTT(20)
<1>2. ASSUME NEW i \in 1..(Len(q) + 1), NEW j \in 1..(Len(q) + 1), i < j
      PROVE  Follows(Append(q, x)[i], Append(q, x)[j], except)
  <2>1. i \in 1..Len(q) /\ Append(q, x)[i] = q[i] /\ q[i] \in Elements(q)
    BY <1>1, <1>2, SMTT(20) DEF Elements
  <2>2. CASE j = Len(q) + 1
    BY <1>1, <2>1, <2>2 DEF AllBefore
  <2>3. CASE j # Len(q) + 1
    <3>1. j \in 1..Len(q) /\ Append(q, x)[j] = q[j]
      BY <1>1, <2>3, SMTT(20)
    <3> QED BY <1>1, <1>2, <2>1, <3>1 DEF InOrder
  <2> QED BY <2>2, <2>3
<1> QED BY <1>1, <1>2 DEF InOrder

(* More exceptions leave an order an order.                                *)
LEMMA MoreExcepted ==
    ASSUME NEW some, NEW more, some \subseteq more
    PROVE  /\ \A q : InOrder(q, some) => InOrder(q, more)
           /\ \A A, B : AllBefore(A, B, some) => AllBefore(A, B, more)
BY DEF InOrder, AllBefore, Follows

(* A packet has been written: it is not the one its writer is about to     *)
(* write.  A writer on its own sends its packet without a look at the      *)
(* batch in the table.                                                     *)
Written(x) == x[2] <= written[x[1]] /\ (at[x[1]] # "idle" => x[2] < written[x[1]])
OnItsOwn(w) == at[w] = "send" \/ (at[w] = "lock" /\ held[w] # table)

BatchSound(b) ==
    /\ InOrder(batch[b], late)
    /\ AllBefore(Elements(wire), Elements(batch[b]), late)
    /\ \A x \in Elements(batch[b]) :
          /\ Written(x)
          /\ b # table \/ status = "closed" \/ OnItsOwn(x[1]) => x \in late

(* What was sent comes before what waits, and all that waits outside the   *)
(* table, or beside a writer on its own, came late.                        *)
BatcherInv ==
    /\ BatcherTypeOK
    /\ \A w \in Writers : held[w] # NoBatch <=> at[w] = "lock"
    /\ InOrder(wire, late)
    /\ \A x \in Elements(wire) : Written(x)
    /\ \A b \in BatchIds : BatchSound(b)

LEMMA PacketsOfBatch ==
    ASSUME BatcherTypeOK
    PROVE  /\ \A b \in BatchIds : batch[b] \in Seq(Packet) /\ Elements(batch[b]) \subseteq Packet
           /\ wire \in Seq(Packet) /\ Elements(wire) \subseteq Packet
<1>1. (\A b \in BatchIds : batch[b] \in Seq(Packet)) /\ wire \in Seq(Packet)
  BY DEF BatcherTypeOK, Packet
<1>2. \A q \in Seq(Packet) : Elements(q) \subseteq Packet
  BY SMTT(20) DEF Elements
<1> QED BY <1>1, <1>2

LEMMA NothingThere ==
    /\ <<>> \in Seq(Packet) /\ Elements(<<>>) = {}
    /\ \A except : InOrder(<<>>, except)
    /\ \A A, except : AllBefore(A, {}, except)
<1>1. <<>> \in Seq(Packet) /\ DOMAIN <<>> = {}
  BY SMTT(20)
<1> QED BY <1>1 DEF Elements, InOrder, AllBefore

(* Batch b, with a packet more or not, is flushed: what is sent is in      *)
(* order, and before what waits in other batches, as b or they are not in  *)
(* the table.                                                              *)
LEMMA FlushKeepsOrder ==
    ASSUME BatcherInv, NEW b \in BatchIds, NEW q \in Seq(Packet), NEW sent \in Flushes(q),
           NEW except, late \subseteq except,
           InOrder(q, except), AllBefore(Elements(wire), Elements(q), except),
           b # table => Elements(q) \subseteq except
    PROVE  /\ wire \o sent \in Seq(Packet)
           /\ InOrder(wire \o sent, except)
           /\ Elements(wire \o sent) \subseteq Elements(wire) \cup Elements(q)
           /\ \A c \in BatchIds \ {b} :
                 AllBefore(Elements(wire \o sent), Elements(batch[c]), except)
<1>1. wire \in Seq(Packet) /\ InOrder(wire, except)
  BY PacketsOfBatch, MoreExcepted DEF BatcherInv
<1>2. sent \in Seq(Packet) /\ Elements(sent) \subseteq Elements(q) /\ InOrder(sent, except)
  BY FlushedPart
<1>3. AllBefore(Elements(wire), Elements(sent), except)
  BY <1>2 DEF AllBefore
<1>4. /\ wire \o sent \in Seq(Packet) /\ InOrder(wire \o sent, except)
      /\ Elements(wire \o sent) \subseteq Elements(wire) \cup Elements(sent)
  BY <1>1, <1>2, <1>3, InOrderJoined
<1>5. ASSUME NEW c \in BatchIds \ {b}
      PROVE  AllBefore(Elements(wire \o sent), Elements(batch[c]), except)
  <2>1. /\ AllBefore(Elements(wire), Elements(batch[c]), except)
        /\ c # table => Elements(batch[c]) \subseteq except
    <3>1. BatchSound(c)
      BY DEF BatcherInv
    <3> QED BY <3>1, MoreExcepted DEF BatchSound
  <2>2. CASE b = table
    <3>1. Elements(batch[c]) \subseteq except
      BY <2>1, <2>2
    <3> QED BY <3>1 DEF AllBefore, Follows
  <2>3. CASE b # table
    <3>1. Elements(sent) \subseteq except
      BY <1>2, <2>3
    <3> QED BY <1>4, <2>1, <3>1 DEF AllBefore, Follows
  <2> QED BY <2>2, <2>3
<1> QED BY <1>2, <1>4, <1>5

(* There is a name for a new batch: a writer that looks one up holds none, *)
(* and there are no more names held than other writers.                    *)
LEMMA GarbageLeft ==
    ASSUME BatcherInv, NEW w \in Writers, at[w] = "lookup", table = NoBatch
    PROVE  Garbage # {}
<1> DEFINE others == Writers \ {w}
<1>1. /\ IsFiniteSet(others) /\ IsFiniteSet(BatchIds)
      /\ Cardinality(others) = Cardinality(Writers) - 1
      /\ Cardinality(Writers) \in Nat /\ Cardinality(BatchIds) \in Nat
  BY BatcherAssumption, FS_RemoveElement, FS_CardinalityType
<1>2. Cardinality(others) < Cardinality(BatchIds)
  <2>1. Cardinality(Writers) <= Cardinality(BatchIds)
    BY BatcherAssumption
  <2> HIDE DEF others
  <2> QED BY <1>1, <2>1, SMTT(20)
<1>3. held[w] = NoBatch
  BY DEF BatcherInv
<1>4. ASSUME \A b \in BatchIds : \E v \in others : held[v] = b
      PROVE  FALSE
  <2> DEFINE f == [b \in BatchIds |-> CHOOSE v \in others : held[v] = b]
  <2>1. \A b \in BatchIds : f[b] \in others /\ held[f[b]] = b
    BY <1>4
  <2>2. f \in [BatchIds -> others]
    BY <2>1
  <2>3. PICK b \in BatchIds, c \in BatchIds : b # c /\ f[b] = f[c]
    <3> HIDE DEF f, others
    <3> QED BY <1>1, <1>2, <2>2, FS_PigeonHole, SMTT(20)
  <2> HIDE DEF f
  <2> QED BY <2>1, <2>3
<1>5. PICK b \in BatchIds : \A v \in others : held[v] # b
  BY <1>4
<1>6. \A v \in Writers : held[v] # b
  BY <1>3, <1>5, BatcherAssumption
<1>7. b \in Garbage
  BY <1>6, BatcherAssumption DEF Garbage
<1> QED BY <1>7

LEMMA BatcherInitInv == BatcherInit => BatcherInv
<1> SUFFICES ASSUME BatcherInit PROVE BatcherInv
  OBVIOUS
<1>1. BatcherTypeOK
  BY SMTT(20) DEF BatcherInit, BatcherTypeOK
<1>2. wire = <<>> /\ \A b \in BatchIds : batch[b] = <<>>
  BY DEF BatcherInit
<1>3. \A b \in BatchIds : BatchSound(b)
  BY <1>2, NothingThere DEF BatchSound
<1>4. \A w \in Writers : held[w] = NoBatch /\ at[w] = "idle"
  BY DEF BatcherInit
<1> QED BY <1>1, <1>2, <1>3, <1>4, NothingThere DEF BatcherInv

(* What a flush of batch b, or of b with a packet more, leaves.            *)
LEMMA FlushStep ==
    ASSUME BatcherInv, NEW b \in BatchIds, NEW q \in Seq(Packet), NEW sent \in Flushes(q),
           late \subseteq late', late' \subseteq Packet,
           InOrder(q, late'), AllBefore(Elements(wire), Elements(q), late'),
           b # table => Elements(q) \subseteq late',
           \A x \in Elements(wire) \cup Elements(q) : Written(x)',
           wire' = wire \o sent,
           batch' = [batch EXCEPT ![b] = <<>>],
           \A c \in BatchIds \ {b} : \A x \in Elements(batch[c]) :
              /\ Written(x)'
              /\ c # table' \/ status' = "closed" \/ OnItsOwn(x[1])' => x \in late'
    PROVE  /\ InOrder(wire, late)'
           /\ \A x \in Elements(wire)' : Written(x)'
           /\ \A c \in BatchIds : BatchSound(c)'
<1>1. /\ InOrder(wire', late')
      /\ Elements(wire') \subseteq Elements(wire) \cup Elements(q)
      /\ \A c \in BatchIds \ {b} : AllBefore(Elements(wire'), Elements(batch[c]), late')
  BY FlushKeepsOrder
<1>2. \A x \in Elements(wire') : Written(x)'
  BY <1>1
<1>3. batch'[b] = <<>> /\ \A c \in BatchIds \ {b} : batch'[c] = batch[c]
  BY DEF BatcherInv, BatcherTypeOK
<1>4. BatchSound(b)'
  BY <1>3, NothingThere DEF BatchSound
<1>5. ASSUME NEW c \in BatchIds \ {b} PROVE BatchSound(c)'
  <2>1. InOrder(batch[c], late')
    BY MoreExcepted DEF BatcherInv, BatchSound
  <2> QED BY <1>1, <1>3, <2>1 DEF BatchSound
<1> QED BY <1>1, <1>2, <1>4, <1>5

(* A step that sends and batches nothing.                                  *)
LEMMA QuietStep ==
    ASSUME BatcherInv, UNCHANGED <<batch, wire, late>>,
           \A x \in Packet : Written(x) => Written(x)',
           \A c \in BatchIds : \A x \in Elements(batch[c]) :
              c # table' \/ status' = "closed" \/ OnItsOwn(x[1])' => x \in late
    PROVE  /\ InOrder(wire, late)'
           /\ \A x \in Elements(wire)' : Written(x)'
           /\ \A c \in BatchIds : BatchSound(c)'
<1>1. /\ \A b \in BatchIds : Elements(batch[b]) \subseteq Packet
      /\ Elements(wire) \subseteq Packet
  BY PacketsOfBatch DEF BatcherInv
<1>2. InOrder(wire, late)' /\ \A x \in Elements(wire)' : Written(x)'
  BY <1>1 DEF BatcherInv
<1>3. ASSUME NEW c \in BatchIds PROVE BatchSound(c)'
  <2>1. BatchSound(c)
    BY DEF BatcherInv
  <2> QED BY <1>1, <2>1 DEF BatchSound
<1> QED BY <1>2, <1>3

LEMMA BatcherNextInv == BatcherInv /\ [BatcherNext]_batcherVars => BatcherInv'
<1> SUFFICES ASSUME BatcherInv, [BatcherNext]_batcherVars PROVE BatcherInv'
  OBVIOUS
<1> DEFINE Rest == /\ InOrder(wire, late)'
                   /\ \A x \in Elements(wire)' : Written(x)'
                   /\ \A c \in BatchIds : BatchSound(c)'
<1>t. /\ BatcherTypeOK /\ Packet = Writers \X Nat
      /\ \A b \in BatchIds : batch[b] \in Seq(Packet) /\ Elements(batch[b]) \subseteq Packet
      /\ wire \in Seq(Packet) /\ Elements(wire) \subseteq Packet
  BY PacketsOfBatch DEF BatcherInv, Packet
<1>h. \A w \in Writers : held[w] # NoBatch <=> at[w] = "lock"
  BY DEF BatcherInv
<1>s. \A b \in BatchIds : BatchSound(b)
  BY DEF BatcherInv
<1>w. \A x \in Elements(wire) : Written(x)
  BY DEF BatcherInv
<1>1. ASSUME NEW w \in Writers, NEW form1 \in {"other", "large", "part", "marker"},
             WriteToAddrPort(w, form1)
      PROVE  BatcherInv'
  <2>1. BatcherTypeOK'
    BY <1>1, <1>t, SMTT(20) DEF WriteToAddrPort, BatcherTypeOK
  <2>2. \A v \in Writers : (held[v] # NoBatch)' <=> (at[v] = "lock")'
    BY <1>1, <1>t, <1>h DEF WriteToAddrPort, BatcherTypeOK
  <2>3. ASSUME NEW x \in Packet, Written(x) PROVE Written(x)'
    <3>1. x[1] \in Writers /\ x[2] \in Nat /\ written[x[1]] \in Nat
      BY <1>t DEF BatcherTypeOK, Packet
    <3>2. CASE x[1] = w
      <4>1. x[2] <= written[w] /\ written'[w] = written[w] + 1
        BY <1>1, <1>t, <2>3, <3>2 DEF WriteToAddrPort, BatcherTypeOK, Written
      <4> QED BY <3>1, <3>2, <4>1, SMTT(20) DEF Written
    <3>3. CASE x[1] # w
      BY <1>1, <1>t, <2>3, <3>1, <3>3 DEF WriteToAddrPort, BatcherTypeOK, Written
    <3> QED BY <3>2, <3>3
  <2>4. \A v \in Writers : OnItsOwn(v)' => OnItsOwn(v)
    BY <1>1, <1>t DEF WriteToAddrPort, BatcherTypeOK, OnItsOwn
  <2>5. UNCHANGED <<batch, wire, late, table, status>>
    BY <1>1 DEF WriteToAddrPort
  <2>6. \A c \in BatchIds : \A x \in Elements(batch[c]) :
           c # table' \/ status' = "closed" \/ OnItsOwn(x[1])' => x \in late
    BY <1>t, <1>s, <2>4, <2>5 DEF BatchSound, Packet
  <2>7. Rest
    BY <2>3, <2>5, <2>6, QuietStep
  <2> QED BY <2>1, <2>2, <2>7 DEF BatcherInv
<1>2. ASSUME NEW w \in Writers, GetOrCreatePeerBatch(w), table # NoBatch
      PROVE  BatcherInv'
  <2>1. /\ UNCHANGED <<batch, wire, late, table, status, written, idle, cleaner, form>>
        /\ at' = [at EXCEPT ![w] = "lock"] /\ held' = [held EXCEPT ![w] = table]
        /\ at[w] = "lookup"
    BY <1>2 DEF GetOrCreatePeerBatch
  <2>2. BatcherTypeOK'
    BY <2>1, <1>t DEF BatcherTypeOK
  <2>3. \A v \in Writers : (held[v] # NoBatch)' <=> (at[v] = "lock")'
    BY <2>1, <1>2, <1>t, <1>h DEF BatcherTypeOK
  <2>4. \A x \in Packet : Written(x) => Written(x)'
    BY <2>1, <1>t DEF BatcherTypeOK, Written
  <2>5. \A v \in Writers : OnItsOwn(v)' => OnItsOwn(v)
    BY <2>1, <1>t DEF BatcherTypeOK, OnItsOwn
  <2>6. \A c \in BatchIds : \A x \in Elements(batch[c]) :
           c # table' \/ status' = "closed" \/ OnItsOwn(x[1])' => x \in late
    BY <1>t, <1>s, <2>1, <2>5 DEF BatchSound, Packet
  <2>7. Rest
    BY <2>1, <2>4, <2>6, QuietStep
  <2> QED BY <2>2, <2>3, <2>7 DEF BatcherInv
<1>3. ASSUME NEW w \in Writers, GetOrCreatePeerBatch(w), table = NoBatch
      PROVE  BatcherInv'
  <2>1. PICK b \in Garbage :
           /\ table' = b
           /\ held' = [held EXCEPT ![w] = b]
           /\ batch' = [batch EXCEPT ![b] = <<>>]
           /\ idle' = idle \ {b}
    <3>1. Garbage # {}
      BY <1>3, GarbageLeft DEF GetOrCreatePeerBatch
    <3> QED BY <1>3, <3>1 DEF GetOrCreatePeerBatch
  <2>2. /\ at' = [at EXCEPT ![w] = "lock"] /\ at[w] = "lookup"
        /\ UNCHANGED <<status, cleaner, form, written, wire, late>>
        /\ b \in BatchIds /\ b # NoBatch
    BY <1>3, BatcherAssumption DEF GetOrCreatePeerBatch, Garbage
  <2>3. BatcherTypeOK'
    BY <2>1, <2>2, <1>t, SMTT(20) DEF BatcherTypeOK
  <2>4. \A v \in Writers : (held[v] # NoBatch)' <=> (at[v] = "lock")'
    BY <2>1, <2>2, <1>t, <1>h DEF BatcherTypeOK
  <2>5. \A x \in Packet : Written(x) => Written(x)'
    BY <2>2, <1>t DEF BatcherTypeOK, Written
  <2>6. batch'[b] = <<>> /\ \A c \in BatchIds \ {b} : batch'[c] = batch[c]
    BY <2>1, <2>2, <1>t DEF BatcherTypeOK
  <2>7. BatchSound(b)'
    BY <2>6, NothingThere DEF BatchSound
  <2>8. ASSUME NEW c \in BatchIds \ {b} PROVE BatchSound(c)'
    <3>1. \A x \in Elements(batch[c]) : x \in late /\ x \in Packet
      BY <1>3, <1>s, <1>t, BatcherAssumption DEF BatchSound
    <3> QED BY <1>s, <2>2, <2>5, <2>6, <3>1 DEF BatchSound
  <2>9. InOrder(wire, late)' /\ \A x \in Elements(wire)' : Written(x)'
    BY <1>t, <1>w, <2>2, <2>5 DEF BatcherInv
  <2> QED BY <2>3, <2>4, <2>7, <2>8, <2>9 DEF BatcherInv
<1>4. ASSUME NEW w \in Writers, WriteOther(w) PROVE BatcherInv'
  <2>1. /\ at[w] = "lock" /\ held[w] \in BatchIds
        /\ batch' = [batch EXCEPT ![held[w]] = <<>>]
        /\ at' = [at EXCEPT ![w] = "send"]
        /\ held' = [held EXCEPT ![w] = NoBatch]
        /\ UNCHANGED <<table, idle, status, cleaner, form, written, late>>
    BY <1>4, <1>t, <1>h DEF WriteOther, BatcherTypeOK
  <2>2. PICK sent \in Flushes(batch[held[w]]) : wire' = wire \o sent
    BY <1>4 DEF WriteOther
  <2> DEFINE b == held[w]
  <2>3. /\ InOrder(batch[b], late) /\ AllBefore(Elements(wire), Elements(batch[b]), late)
        /\ b # table => Elements(batch[b]) \subseteq late
        /\ \A x \in Elements(batch[b]) : Written(x)
    BY <2>1, <1>s DEF BatchSound
  <2>4. wire' \in Seq(Packet)
    BY <1>t, <2>1, <2>2, <2>3, FlushKeepsOrder
  <2>5. BatcherTypeOK'
    BY <1>t, <2>1, <2>4, SMTT(20) DEF BatcherTypeOK
  <2>6. \A v \in Writers : (held[v] # NoBatch)' <=> (at[v] = "lock")'
    BY <1>t, <1>h, <2>1 DEF BatcherTypeOK
  <2>7. \A x \in Packet : Written(x) => Written(x)'
    BY <1>t, <2>1 DEF BatcherTypeOK, Written
  <2>8. \A v \in Writers : v # w => (OnItsOwn(v)' <=> OnItsOwn(v))
    BY <1>t, <2>1 DEF BatcherTypeOK, OnItsOwn
  <2>9. ASSUME NEW c \in BatchIds \ {b}, NEW x \in Elements(batch[c])
        PROVE  /\ Written(x)'
               /\ c # table' \/ status' = "closed" \/ OnItsOwn(x[1])' => x \in late'
    <3>1. /\ x \in Packet /\ x[1] \in Writers /\ Written(x)
          /\ c # table \/ status = "closed" \/ OnItsOwn(x[1]) => x \in late
      BY <1>t, <1>s, <2>9 DEF BatchSound, Packet
    <3>2. c = table => OnItsOwn(w)
      BY <2>1, <2>9 DEF OnItsOwn
    <3> QED BY <2>1, <2>7, <2>8, <3>1, <3>2
  <2>10. \A x \in Elements(wire) \cup Elements(batch[b]) : Written(x)'
    BY <1>t, <1>w, <2>1, <2>3, <2>7
  <2>11. late' \subseteq Packet
    BY <1>t, <2>1 DEF BatcherTypeOK, Packet
  <2>12. Rest
    <3> HIDE DEF b
    <3> QED BY <1>t, <2>1, <2>2, <2>3, <2>9, <2>10, <2>11, FlushStep DEF b
  <2> QED BY <2>5, <2>6, <2>12 DEF BatcherInv
<1>5. ASSUME NEW w \in Writers, SendOther(w) PROVE BatcherInv'
  <2>0. PICK p \in Packet : p = <<w, written[w]>> /\ p[1] = w /\ p[2] = written[w]
                            /\ written[w] \in Nat
    <3>1. written[w] \in Nat /\ <<w, written[w]>> \in Packet
      BY <1>t DEF BatcherTypeOK
    <3> QED BY <3>1
  <2>1. /\ at[w] = "send" /\ wire' \in {wire, Append(wire, p)}
        /\ at' = [at EXCEPT ![w] = "idle"]
        /\ UNCHANGED <<table, batch, idle, status, cleaner, form, held, written, late>>
    BY <1>5, <2>0 DEF SendOther
  <2>3. AllBefore(Elements(wire), {p}, late)
    BY <1>w, <2>1, <2>0 DEF AllBefore, Follows, Written
  <2>4. /\ wire' \in Seq(Packet) /\ InOrder(wire', late)
        /\ Elements(wire') \subseteq Elements(wire) \cup {p}
    <3>1. InOrder(wire, late)
      BY DEF BatcherInv
    <3>2. /\ Append(wire, p) \in Seq(Packet) /\ InOrder(Append(wire, p), late)
          /\ Elements(Append(wire, p)) = Elements(wire) \cup {p}
      <4>1. wire \in Seq(Packet)
        BY <1>t
      <4> QED BY <2>3, <3>1, <4>1, InOrderAppended
    <3> QED BY <1>t, <2>1, <3>1, <3>2
  <2>5. BatcherTypeOK'
    BY <1>t, <2>1, <2>4 DEF BatcherTypeOK
  <2>6. \A v \in Writers : (held[v] # NoBatch)' <=> (at[v] = "lock")'
    BY <1>t, <1>h, <2>1 DEF BatcherTypeOK
  <2>7. \A x \in Packet : Written(x) => Written(x)'
    BY <1>t, <2>1 DEF BatcherTypeOK, Written
  <2>8. Written(p)'
    BY <1>t, <2>1, <2>0, SMTT(20) DEF BatcherTypeOK, Written
  <2>9. \A v \in Writers : OnItsOwn(v)' => OnItsOwn(v)
    BY <1>t, <2>1 DEF BatcherTypeOK, OnItsOwn
  <2>10. ASSUME NEW c \in BatchIds PROVE BatchSound(c)'
    <3>1. BatchSound(c)
      BY <1>s
    <3>2. ASSUME NEW x \in Elements(batch[c])
          PROVE  /\ Written(x)'
                 /\ c # table' \/ status' = "closed" \/ OnItsOwn(x[1])' => x \in late'
                 /\ x[1] = w => x \in late
      <4>1. x \in Packet /\ x[1] \in Writers
        BY <1>t, <3>2 DEF Packet
      <4>2. OnItsOwn(w)
        BY <2>1 DEF OnItsOwn
      <4> QED BY <2>1, <2>7, <2>9, <3>1, <4>1, <4>2 DEF BatchSound
    <3>3. AllBefore({p}, Elements(batch[c]), late)
      BY <2>0, <3>2 DEF AllBefore, Follows
    <3>4. AllBefore(Elements(wire'), Elements(batch[c]), late)
      BY <2>4, <3>1, <3>3 DEF AllBefore, BatchSound
    <3> QED BY <2>1, <3>1, <3>2, <3>4 DEF BatchSound
  <2>11. Rest
    <3>1. \A x \in Elements(wire') : Written(x)'
      BY <1>t, <1>w, <2>4, <2>7, <2>8
    <3> QED BY <2>1, <2>4, <2>10, <3>1
  <2> QED BY <2>5, <2>6, <2>11 DEF BatcherInv
<1>6. ASSUME NEW w \in Writers, WriteRTP(w) PROVE BatcherInv'
  <2>1. PICK p \in Packet : p = <<w, written[w]>> /\ p[1] = w /\ p[2] = written[w]
                            /\ written[w] \in Nat
    <3>1. written[w] \in Nat /\ <<w, written[w]>> \in Packet
      BY <1>t DEF BatcherTypeOK
    <3> QED BY <3>1
  <2>2. PICK b \in BatchIds : b = held[w]
    BY <1>6, <1>t, <1>h DEF WriteRTP, BatcherTypeOK
  <2>3. PICK q : q = Append(batch[b], p)
    OBVIOUS
  <2>4. /\ at[w] = "lock"
        /\ \/ /\ \E sent \in Flushes(q) : wire' = wire \o sent
              /\ batch' = [batch EXCEPT ![b] = <<>>]
           \/ batch' = [batch EXCEPT ![b] = q] /\ wire' = wire
        /\ late' = IF b # table \/ status = "closed" THEN late \cup {p} ELSE late
        /\ idle' = idle \ {b}
        /\ at' = [at EXCEPT ![w] = "idle"]
        /\ held' = [held EXCEPT ![w] = NoBatch]
        /\ UNCHANGED <<table, status, cleaner, form, written>>
    BY <1>6, <2>1, <2>2, <2>3 DEF WriteRTP
  <2>5. late \subseteq late' /\ late' \subseteq Packet
    BY <1>t, <2>4 DEF BatcherTypeOK, Packet
  <2>6. /\ InOrder(batch[b], late') /\ AllBefore(Elements(wire), Elements(batch[b]), late')
        /\ \A x \in Elements(batch[b]) :
              Written(x) /\ (b # table \/ status = "closed" => x \in late)
    <3>1. BatchSound(b)
      BY <1>s
    <3> QED BY <2>5, <3>1, MoreExcepted DEF BatchSound
  <2>7. /\ AllBefore(Elements(wire), {p}, late')
        /\ AllBefore(Elements(batch[b]), {p}, late')
    BY <1>w, <2>1, <2>4, <2>6 DEF AllBefore, Follows, Written
  <2>8. /\ q \in Seq(Packet) /\ InOrder(q, late') /\ Elements(q) = Elements(batch[b]) \cup {p}
    <3>1. batch[b] \in Seq(Packet)
      BY <1>t
    <3> QED BY <2>3, <2>6, <2>7, <3>1, InOrderAppended
  <2>9. /\ AllBefore(Elements(wire), Elements(q), late')
        /\ b # table \/ status = "closed" => Elements(q) \subseteq late'
    BY <2>4, <2>6, <2>7, <2>8 DEF AllBefore
  <2>10. \A x \in Packet : Written(x) => Written(x)'
    BY <1>t, <2>4 DEF BatcherTypeOK, Written
  <2>11. Written(p)'
    BY <1>t, <2>1, <2>4, SMTT(20) DEF BatcherTypeOK, Written
  <2>12. \A x \in Elements(wire) \cup Elements(q) : Written(x)'
    BY <1>t, <1>w, <2>6, <2>8, <2>10, <2>11
  <2>13. \A v \in Writers : OnItsOwn(v)' => OnItsOwn(v) /\ v # w
    BY <1>t, <2>4 DEF BatcherTypeOK, OnItsOwn
  <2>14. ASSUME NEW c \in BatchIds, NEW x \in Elements(batch[c])
         PROVE  /\ Written(x)'
                /\ c # table' \/ status' = "closed" \/ OnItsOwn(x[1])' => x \in late'
    <3>1. x \in Packet /\ x[1] \in Writers
      BY <1>t, <2>14 DEF Packet
    <3>2. /\ Written(x)
          /\ c # table \/ status = "closed" \/ OnItsOwn(x[1]) => x \in late
      BY <1>s, <2>14 DEF BatchSound
    <3> QED BY <2>4, <2>5, <2>10, <2>13, <3>1, <3>2
  <2>15. \A v \in Writers : (held[v] # NoBatch)' <=> (at[v] = "lock")'
    BY <1>t, <1>h, <2>4 DEF BatcherTypeOK
  <2>16. CASE (\E sent \in Flushes(q) : wire' = wire \o sent) /\ batch' = [batch EXCEPT ![b] = <<>>]
    <3>1. PICK sent \in Flushes(q) : wire' = wire \o sent
      BY <2>16
    <3>2. wire' \in Seq(Packet)
      BY <2>5, <2>8, <2>9, <3>1, FlushKeepsOrder
    <3>3. BatcherTypeOK'
      BY <1>t, <2>4, <2>5, <2>16, <3>2, SMTT(20) DEF BatcherTypeOK
    <3>4. Rest
      BY <2>5, <2>8, <2>9, <2>12, <2>14, <2>16, <3>1, FlushStep
    <3> QED BY <2>15, <3>3, <3>4 DEF BatcherInv
  <2>17. CASE batch' = [batch EXCEPT ![b] = q] /\ wire' = wire
    <3>1. BatcherTypeOK'
      BY <1>t, <2>4, <2>5, <2>8, <2>17 DEF BatcherTypeOK
    <3>2. batch'[b] = q /\ \A c \in BatchIds \ {b} : batch'[c] = batch[c]
      BY <1>t, <2>17 DEF BatcherTypeOK
    <3>3. \A v : OnItsOwn(v)' /\ v \in Writers => v # w
      BY <2>13
    <3>4. ASSUME NEW x \in Elements(q)
          PROVE  b # table' \/ status' = "closed" \/ OnItsOwn(x[1])' => x \in late'
      <4>1. CASE x = p
        BY <2>1, <2>4, <2>9, <3>3, <4>1
      <4>2. CASE x \in Elements(batch[b])
        BY <2>14, <4>2
      <4> QED BY <2>8, <4>1, <4>2
    <3>5. BatchSound(b)'
      BY <2>8, <2>9, <2>12, <2>17, <3>2, <3>4 DEF BatchSound
    <3>6. ASSUME NEW c \in BatchIds \ {b} PROVE BatchSound(c)'
      <4>1. InOrder(batch[c], late') /\ AllBefore(Elements(wire), Elements(batch[c]), late')
        BY <1>s, <2>5, MoreExcepted DEF BatchSound
      <4> QED BY <2>14, <2>17, <3>2, <4>1 DEF BatchSound
    <3>7. InOrder(wire, late)'
      BY <2>5, <2>17, MoreExcepted DEF BatcherInv
    <3>8. Rest
      BY <2>12, <2>17, <3>5, <3>6, <3>7
    <3> QED BY <2>15, <3>1, <3>8 DEF BatcherInv
  <2> QED BY <2>4, <2>16, <2>17
<1>7. CASE Idle \/ CleanerEnds \/ CloseBatcher \/ UNCHANGED batcherVars
  <2>1. /\ UNCHANGED <<batch, wire, late, table, at, form, held, written>>
        /\ status' = "closed" => status = "closed"
        /\ idle' \subseteq idle \cup {table} /\ (idle' # idle => table # NoBatch)
        /\ cleaner' \in {cleaner, FALSE} /\ status' \in {status, "closing"}
    BY <1>7 DEF Idle, CleanerEnds, CloseBatcher, batcherVars
  <2>2. BatcherTypeOK'
    BY <1>t, <2>1 DEF BatcherTypeOK
  <2>3. (\A x \in Packet : Written(x) => Written(x)') /\ (\A v : OnItsOwn(v)' <=> OnItsOwn(v))
    BY <2>1 DEF Written, OnItsOwn
  <2>4. Rest
    <3>1. \A c \in BatchIds : \A x \in Elements(batch[c]) :
             c # table' \/ status' = "closed" \/ OnItsOwn(x[1])' => x \in late
      BY <1>s, <2>1, <2>3 DEF BatchSound
    <3> QED BY <2>1, <2>3, <3>1, QuietStep
  <2> QED BY <1>h, <2>1, <2>2, <2>4 DEF BatcherInv
<1>8. CASE Clean \/ (FlushAll /\ table # NoBatch)
  <2>1. /\ table \in BatchIds
        /\ batch' = [batch EXCEPT ![table] = <<>>]
        /\ table' \in {table, NoBatch}
        /\ status' \in {status, "closed"}
        /\ UNCHANGED <<idle, cleaner, at, form, held, written, late>>
    BY <1>8, <1>t DEF Clean, FlushAll, BatcherTypeOK
  <2>2. PICK sent \in Flushes(batch[table]) : wire' = wire \o sent
    BY <1>8 DEF Clean, FlushAll
  <2>3. PICK b \in BatchIds : b = table
    BY <2>1
  <2>4. /\ InOrder(batch[b], late) /\ AllBefore(Elements(wire), Elements(batch[b]), late)
        /\ \A x \in Elements(batch[b]) : Written(x)
    BY <2>3, <1>s DEF BatchSound
  <2>5. wire' \in Seq(Packet)
    BY <1>t, <2>2, <2>3, <2>4, FlushKeepsOrder
  <2>6. BatcherTypeOK'
    BY <1>t, <2>1, <2>5, SMTT(20) DEF BatcherTypeOK
  <2>7. \A x \in Packet : Written(x) => Written(x)'
    BY <2>1 DEF Written
  <2>8. \A c \in BatchIds \ {b} : \A x \in Elements(batch[c]) :
           /\ Written(x)'
           /\ c # table' \/ status' = "closed" \/ OnItsOwn(x[1])' => x \in late'
    BY <1>t, <1>s, <2>1, <2>3, <2>7 DEF BatchSound
  <2>9. (\A x \in Elements(wire) \cup Elements(batch[b]) : Written(x)') /\ late' \subseteq Packet
    BY <1>t, <1>w, <2>1, <2>4, <2>7 DEF BatcherTypeOK
  <2>10. Rest
    BY <1>t, <2>1, <2>2, <2>3, <2>4, <2>8, <2>9, FlushStep
  <2> QED BY <1>h, <2>1, <2>6, <2>10 DEF BatcherInv
<1>9. CASE FlushAll /\ table = NoBatch
  <2>1. /\ UNCHANGED <<batch, wire, late, table, at, form, held, written, idle, cleaner>>
        /\ status' = "closed"
    BY <1>9 DEF FlushAll
  <2>2. BatcherTypeOK'
    BY <1>t, <2>1 DEF BatcherTypeOK
  <2>3. \A x \in Packet : Written(x) => Written(x)'
    BY <2>1 DEF Written
  <2>4. \A c \in BatchIds : \A x \in Elements(batch[c]) : x \in late
    BY <1>9, <1>s, BatcherAssumption DEF BatchSound
  <2>5. Rest
    BY <2>1, <2>3, <2>4, QuietStep
  <2> QED BY <1>h, <2>1, <2>2, <2>5 DEF BatcherInv
<1>10. CASE NewBatcher
  <2>1. /\ wire' = <<>> /\ batch' = [b \in BatchIds |-> <<>>]
        /\ UNCHANGED <<at, held>>
    BY <1>10 DEF NewBatcher
  <2>2. BatcherTypeOK'
    BY <1>10, <1>t, NothingThere DEF NewBatcher, BatcherTypeOK
  <2>3. \A c \in BatchIds : BatchSound(c)'
    BY <2>1, NothingThere DEF BatchSound
  <2> QED BY <1>h, <2>1, <2>2, <2>3, NothingThere DEF BatcherInv
<1> QED BY <1>1, <1>2, <1>3, <1>4, <1>5, <1>6, <1>7, <1>8, <1>9, <1>10 DEF BatcherNext

(* A packet waits only where a later packet, the cleaner or Close finds    *)
(* it, and the packets of a writer leave in the order it wrote them: for   *)
(* any number of writers and packets and any size of a batch, however the  *)
(* lookups, the cleaner and Close of batch_linux.go interleave.            *)
THEOREM NoPacketStranded == BatcherSpec => []NothingStranded
<1>1. BatcherInv => NothingStranded
  <2> SUFFICES ASSUME BatcherInv PROVE NothingStranded
    OBVIOUS
  <2>1. ASSUME NEW b \in BatchIds, b # table \/ status = "closed", NEW i \in DOMAIN batch[b]
        PROVE  batch[b][i] \in late
    BY <2>1 DEF BatcherInv, BatchSound, Elements
  <2>2. \A i, j \in DOMAIN wire :
           i < j /\ wire[i][1] = wire[j][1] /\ {wire[i], wire[j]} \cap late = {} =>
               wire[i][2] < wire[j][2]
    BY DEF BatcherInv, InOrder, Follows
  <2> QED BY <2>1, <2>2 DEF NothingStranded
<1> QED BY <1>1, BatcherInitInv, BatcherNextInv, PTL DEF BatcherSpec

----------------------------------------------------------------------------
(* LazyHls.                                                                *)

(* While housekeeping waits for a muxer's goroutine it keeps muxerMu, so   *)
(* the muxer of the stream stays the one whose subscription it has ended.  *)
Awaiting ==
    /\ tick = "await" => holder = "tick" /\ hlsMuxer \notin subs
    /\ stop = "await" => holder = "stop"

LazyInv == TypeOK /\ OneMuxer /\ Awaiting

LEMMA LazyInitInv == Init => LazyInv
BY NoMuxerAssumption DEF Init, LazyInv, TypeOK, OneMuxer, Awaiting

(* A muxer that is started is the only one: there was none, so nothing     *)
(* runs and nothing is subscribed.                                         *)
LEMMA StartMuxerKeepsOne ==
    ASSUME LazyInv, NEW m \in Muxers, StartMuxer(m)
    PROVE  /\ running' \cup subs' \subseteq {hlsMuxer'}
           /\ hlsMuxer' \in Muxers \cup {NoMuxer}
           /\ running' \subseteq Muxers /\ cancelled' \subseteq Muxers /\ subs' \subseteq Muxers
<1>1. CASE hlsMuxer # NoMuxer
  BY <1>1 DEF StartMuxer, LazyInv, TypeOK, OneMuxer, muxerVars
<1>2. CASE hlsMuxer = NoMuxer
  <2>1. running = {} /\ subs = {}
    BY <1>2, NoMuxerAssumption DEF LazyInv, TypeOK, OneMuxer
  <2>2. QED
    BY <1>2, <2>1 DEF StartMuxer, StartNew, LazyInv, TypeOK
<1>3. QED
  BY <1>1, <1>2

LEMMA LazyNextInv == LazyInv /\ [Next]_vars => LazyInv'
<1> SUFFICES ASSUME LazyInv, [Next]_vars
             PROVE  LazyInv'
  OBVIOUS
<1> USE DEF LazyInv, TypeOK, OneMuxer, Awaiting
<1>1. ASSUME NEW m \in Muxers, LoopEnds(m)
      PROVE  LazyInv'
  BY <1>1, SMTT(20) DEF LoopEnds, viewerVars
<1>2. ASSUME NEW v \in Viewers, Request(v)
      PROVE  LazyInv'
  BY <1>2, SMTT(20) DEF Request, muxerVars
<1>3. ASSUME NEW v \in Viewers, FastPath(v)
      PROVE  LazyInv'
  BY <1>3 DEF FastPath, muxerVars
<1>4. ASSUME NEW v \in Viewers, Join(v)
      PROVE  LazyInv'
  BY <1>4, SMTT(20) DEF Join, muxerVars
<1>5. ASSUME NEW v \in Viewers, NEW m \in Muxers, WakeUp(v, m)
      PROVE  LazyInv'
  <2>1. StartMuxer(m) /\ holder = "none"
    BY <1>5 DEF WakeUp
  <2>2. /\ running' \cup subs' \subseteq {hlsMuxer'}
        /\ hlsMuxer' \in Muxers \cup {NoMuxer}
        /\ running' \subseteq Muxers /\ cancelled' \subseteq Muxers /\ subs' \subseteq Muxers
    BY <2>1, StartMuxerKeepsOne
  <2>3. /\ UNCHANGED <<lazyHLS, lastReq, holder, tick, ringClosed, stop>>
        /\ flight' \in BOOLEAN
        /\ viewer' \in [Viewers -> {"idle", "fast", "slow", "lead", "follow", "serving"}]
        /\ got' \in [Viewers -> Muxers \cup {NoMuxer}]
    BY <1>5 DEF WakeUp
  <2>4. QED
    BY <2>1, <2>2, <2>3
<1>6. ASSUME NEW v \in Viewers, Answer(v)
      PROVE  LazyInv'
  BY <1>6, SMTT(20) DEF Answer, muxerVars
<1>7. CASE Age
  BY <1>7, SMTT(20) DEF Age, muxerVars, viewerVars
<1>8. CASE TickJudge
  BY <1>8 DEF TickJudge, muxerVars, viewerVars
<1>9. CASE TickStop
  BY <1>9 DEF TickStop, StopMuxer, viewerVars
<1>10. CASE TickStopped
  BY <1>10 DEF TickStopped, viewerVars
<1>11. CASE TickWatchdog
  BY <1>11 DEF TickWatchdog, muxerVars, viewerVars
<1>12. CASE CloseBuffer
  BY <1>12 DEF CloseBuffer, muxerVars, viewerVars
<1>13. CASE StopStopsMuxer
  BY <1>13 DEF StopStopsMuxer, StopMuxer, viewerVars
<1>14. CASE StopStopped
  BY <1>14 DEF StopStopped, muxerVars, viewerVars
<1>15. CASE StopReturns
  BY <1>15 DEF StopReturns, muxerVars, viewerVars
<1>16. CASE UNCHANGED vars
  BY <1>16, SMTT(20) DEF vars, muxerVars, viewerVars
<1>17. QED
  BY <1>1, <1>2, <1>3, <1>4, <1>5, <1>6, <1>7, <1>8, <1>9, <1>10, <1>11, <1>12, <1>13, <1>14,
     <1>15, <1>16 DEF Next, Wake, Tick, StopSteps

(* However requests, housekeeping and Stop interleave, one muxer at most   *)
(* reads the stream's frames, and it alone is subscribed to metadata.      *)
THEOREM NeverTwoMuxers == Spec => []OneMuxer
<1>1. LazyInv => OneMuxer
  BY DEF LazyInv
<1>2. QED
  BY LazyInitInv, LazyNextInv, <1>1, PTL DEF Spec
=============================================================================
