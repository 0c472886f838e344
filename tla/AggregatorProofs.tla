-------------------------- MODULE AggregatorProofs --------------------------
(***************************************************************************)
(* Proofs about Aggregator, for any number of instances, hashes, failures  *)
(* and any tree size.                                                      *)
(***************************************************************************)
EXTENDS Aggregator, SequenceTheorems, FiniteSetTheorems, TLAPS

(* A tag up to top names at most the delivery d of those in O. *)
Names(O, top, tag, d) == tag <= top /\ \A e \in O : e.tag = tag => e = d

TagInv(i) ==
    /\ \A d \in out[i] : Names(out[i], lastTag[i], d.tag, d)
    /\ \A k \in 1..Len(HASHES[i]) :
          Names(out[i], lastTag[i], HASHES[i][k].tag, HASHES[i][k])

(* On a wire w, an ack of a delivery in O comes after the tree that holds  *)
(* its hash, unless the hash is in P already; top is the last tag given.   *)
After(w, n, P, h) ==
    h \in P \/ \E m \in 1..(n - 1) : w[m].kind = "publish" /\ h \in w[m].tree

SoundWire(w, O, P, top) ==
    \A n \in 1..Len(w) :
        /\ w[n].kind # "publish" => w[n].tag <= top
        /\ w[n].kind = "ack" => \A d \in O : d.tag = w[n].tag => After(w, n, P, d.hash)

Aggregated == {h \in Hash : InSomeTree(h)}

WireInv(i) == SoundWire(wire[i], out[i], Aggregated, lastTag[i])

AckInv ==
    /\ TypeOK
    /\ AckedIsAggregated
    /\ \A i \in Instance : TagInv(i) /\ WireInv(i)

-----------------------------------------------------------------------------

(* What splice leaves and returns: two stretches of HASHES. *)
LEMMA BatchType ==
  ASSUME TypeOK, NEW i \in Instance
  PROVE  /\ Batch(i) \in Seq(Delivery) /\ Rest(i) \in Seq(Delivery)
         /\ \A k \in 1..Len(Batch(i)) :
               k \in 1..Len(HASHES[i]) /\ Batch(i)[k] = HASHES[i][k]
         /\ \A k \in 1..Len(Rest(i)) : \E j \in 1..Len(HASHES[i]) : Rest(i)[k] = HASHES[i][j]
<1>1. /\ HASHES[i] \in Seq(Delivery) /\ Len(HASHES[i]) \in Nat
      /\ BatchSize(i) \in Nat /\ BatchSize(i) <= Len(HASHES[i])
  BY BoundsAssumption DEF TypeOK, BatchSize
<1>2. \A k \in 1..Len(HASHES[i]) : HASHES[i][k] \in Delivery
  BY <1>1
<1>3. /\ Batch(i) \in Seq(Delivery)
      /\ Len(Batch(i)) = BatchSize(i)
      /\ \A k \in 1..BatchSize(i) : Batch(i)[k] = HASHES[i][k]
  <2>1. /\ Batch(i) \in Seq(Delivery)
        /\ Len(Batch(i)) = IF 1 <= BatchSize(i) THEN BatchSize(i) - 1 + 1 ELSE 0
        /\ \A k \in 1..BatchSize(i) - 1 + 1 : Batch(i)[k] = HASHES[i][1 + k - 1]
    BY <1>1, <1>2, SubSeqProperties DEF Batch
  <2>. QED
    BY <1>1, <2>1
<1>4. /\ Rest(i) \in Seq(Delivery)
      /\ Len(Rest(i)) = Len(HASHES[i]) - BatchSize(i)
      /\ \A k \in 1..Len(Rest(i)) : Rest(i)[k] = HASHES[i][k + BatchSize(i)]
  BY <1>1, <1>2, SubSeqProperties DEF Rest
<1>5. \A k \in 1..Len(Rest(i)) :
        k + BatchSize(i) \in 1..Len(HASHES[i]) /\ Rest(i)[k] = HASHES[i][k + BatchSize(i)]
  BY <1>1, <1>4
<1>6. \A k \in 1..Len(Batch(i)) : k \in 1..Len(HASHES[i]) /\ Batch(i)[k] = HASHES[i][k]
  BY <1>1, <1>3
<1>. QED
  BY <1>3, <1>4, <1>5, <1>6

(* Settling a batch writes one frame per delivery, with its tag. *)
LEMMA SettleType ==
  ASSUME NEW b \in Seq(Delivery), NEW kind \in {"ack", "nack"}
  PROVE  /\ SettleAll(kind, b) \in Seq(Frame) /\ Len(SettleAll(kind, b)) = Len(b)
         /\ \A k \in DOMAIN b : SettleAll(kind, b)[k] = Settle(kind, b[k].tag)
<1>1. Len(b) \in Nat /\ DOMAIN b = 1..Len(b) /\ \A k \in 1..Len(b) : b[k] \in Delivery
  BY LenProperties
<1>2. ASSUME NEW k \in 1..Len(b)
      PROVE  Settle(kind, b[k].tag) \in Frame
  <2>1. b[k].tag \in Nat
    BY <1>1 DEF Delivery
  <2>. QED
    BY <2>1 DEF Settle, Frame
<1>3. SettleAll(kind, b) \in [1..Len(b) -> Frame]
  BY <1>1, <1>2 DEF SettleAll
<1>. QED
  BY <1>1, <1>3 DEF SettleAll

(* The initial state has its type. *)
LEMMA InitTypeOK == Init => TypeOK
BY NoTreeAssumption DEF Init, TypeOK

(* Every step keeps the types. *)
LEMMA NextTypeOK == TypeOK /\ [Next]_vars => TypeOK'
<1>. SUFFICES ASSUME TypeOK, [Next]_vars PROVE TypeOK'
  OBVIOUS
<1>. USE DEF TypeOK, broker
<1>1. CASE UNCHANGED vars
  BY <1>1 DEF vars
<1>2. ASSUME NEW h \in Hash, SubmitHash(h)
      PROVE  TypeOK'
  BY <1>2 DEF SubmitHash
<1>3. ASSUME NEW t \in DOMAIN trees, StoreAggStates(t)
      PROVE  TypeOK'
  <2>1. t \in Nat
    OBVIOUS
  <2>. QED
    BY <1>3, <2>1 DEF StoreAggStates
<1>4. ASSUME NEW i \in Instance, NEW h \in Hash, ConsumeHashMessage(i, h)
      PROVE  TypeOK'
  <2>1. [tag |-> lastTag[i] + 1, hash |-> h] \in Delivery
    BY DEF Delivery
  <2>. QED
    BY <1>4, <2>1 DEF ConsumeHashMessage
<1>5. ASSUME NEW i \in Instance, Aggregate(i) \/ FailAggregation(i)
      PROVE  TypeOK'
  <2>1. /\ Rest(i) \in Seq(Delivery)
        /\ SettleAll("ack", Batch(i)) \in Seq(Frame)
        /\ SettleAll("nack", Batch(i)) \in Seq(Frame)
    BY BatchType, SettleType
  <2>2. Publish(HashesOf(Batch(i))) \in Frame
    <3>1. Batch(i) \in [1..Len(Batch(i)) -> Delivery]
      BY BatchType, LenProperties
    <3>2. HashesOf(Batch(i)) \in SUBSET Hash
      BY <3>1 DEF HashesOf, Delivery
    <3>. QED
      BY <3>2 DEF Publish, Frame
  <2>3. HASHES' \in [Instance -> Seq(Delivery)]
    BY <1>5, <2>1 DEF Aggregate, FailAggregation
  <2>4. wire' \in [Instance -> Seq(Frame)]
    <3>. DEFINE w == wire[i]
                p == <<Publish(HashesOf(Batch(i)))>>
                a == SettleAll("ack", Batch(i))
                n == SettleAll("nack", Batch(i))
    <3>1. /\ w \in Seq(Frame) /\ p \in Seq(Frame)
          /\ a \in Seq(Frame) /\ n \in Seq(Frame)
      BY <2>1, <2>2
    <3>. HIDE DEF w, p, a, n
    <3>2. w \o p \o a \in Seq(Frame) /\ w \o n \in Seq(Frame)
      BY <3>1
    <3>3. \/ wire' = [wire EXCEPT ![i] = w \o p \o a]
          \/ wire' = [wire EXCEPT ![i] = w \o n]
      BY <1>5 DEF Aggregate, FailAggregation, w, p, a, n
    <3>. QED
      BY <3>2, <3>3
  <2>. QED
    BY <1>5, <2>3, <2>4 DEF Aggregate, FailAggregation, Fault
<1>6. ASSUME NEW i \in Instance, CloseChannel(i) \/ OpenChannel(i)
      PROVE  TypeOK'
  <2>1. CASE CloseChannel(i)
    <3>1. /\ message' \in [Hash -> {"unsent", "ready", "delivered", "acked"}]
          /\ out' \in [Instance -> SUBSET Delivery] /\ lastTag' \in [Instance -> Nat]
      BY <2>1 DEF CloseChannel, Requeue
    <3>2. /\ channel' \in [Instance -> {"open", "closed"}] /\ faults' \in Nat
          /\ trees' = trees /\ aggStates' = aggStates
      BY <2>1 DEF CloseChannel, Fault
    <3>3. HASHES' \in [Instance -> Seq(Delivery)] /\ wire' \in [Instance -> Seq(Frame)]
      BY <2>1, EmptySeq DEF CloseChannel
    <3>. QED
      BY <3>1, <3>2, <3>3
  <2>2. CASE OpenChannel(i)
    BY <2>2 DEF OpenChannel
  <2>. QED
    BY <1>6, <2>1, <2>2
<1>7. ASSUME NEW i \in Instance, ReceivePublish(i)
      PROVE  TypeOK'
  <2>1. Head(wire[i]) \in Frame /\ Tail(wire[i]) \in Seq(Frame)
    BY <1>7 DEF ReceivePublish
  <2>2. Append(trees, Head(wire[i]).tree) \in Seq(SUBSET Hash)
    BY <2>1 DEF Frame
  <2>. QED
    BY <1>7, <2>1, <2>2 DEF ReceivePublish
<1>8. ASSUME NEW i \in Instance, ReceiveSettle(i)
      PROVE  TypeOK'
  <2>1. Tail(wire[i]) \in Seq(Frame)
    BY <1>8 DEF ReceiveSettle
  <2>2. message' \in [Hash -> {"unsent", "ready", "delivered", "acked"}]
    BY <1>8 DEF ReceiveSettle
  <2>. QED
    BY <1>8, <2>1, <2>2 DEF ReceiveSettle
<1>. QED
  BY <1>1, <1>2, <1>3, <1>4, <1>5, <1>6, <1>7, <1>8 DEF Next, InstanceStep

(* The model's variables keep their types. *)
THEOREM TypeCorrect == Spec => []TypeOK
<1>. QED
  BY InitTypeOK, NextTypeOK, PTL DEF Spec

-----------------------------------------------------------------------------

(* Rows of agg_states are never rewritten: the first tree wins. *)
THEOREM RowsAreFinal == Spec => RowsNeverMove
<1>1. TypeOK /\ [Next]_vars =>
        [\A h \in Hash : aggStates[h] # NoTree => aggStates'[h] = aggStates[h]]_vars
  <2>. SUFFICES ASSUME TypeOK, [Next]_vars, NEW h \in Hash, aggStates[h] # NoTree
                PROVE  aggStates'[h] = aggStates[h]
    OBVIOUS
  <2>. QED
    BY DEF Next, vars, broker, InstanceStep, SubmitHash, ConsumeHashMessage, Aggregate,
           FailAggregation, CloseChannel, OpenChannel, ReceivePublish, ReceiveSettle,
           StoreAggStates
<1>. QED
  BY <1>1, TypeCorrect, PTL DEF Spec, RowsNeverMove

-----------------------------------------------------------------------------

(* Soundness of a wire survives the loss of deliveries, new trees, and     *)
(* deliveries with new tags.                                               *)
LEMMA SoundMono ==
  ASSUME NEW w \in Seq(Frame), NEW O, NEW P, NEW top \in Nat,
         NEW O2, NEW P2, NEW top2 \in Nat,
         SoundWire(w, O, P, top), P \subseteq P2, top <= top2,
         \A d \in O2 : d \in O \/ d.tag > top
  PROVE  SoundWire(w, O2, P2, top2)
<1>1. \A n \in 1..Len(w) : w[n] \in Frame
  BY LenProperties
<1>. SUFFICES ASSUME NEW n \in 1..Len(w)
              PROVE  /\ w[n].kind # "publish" => w[n].tag <= top2
                     /\ w[n].kind = "ack" =>
                          \A d \in O2 : d.tag = w[n].tag => After(w, n, P2, d.hash)
  BY DEF SoundWire
<1>2. w[n].tag \in Nat
  BY <1>1 DEF Frame
<1>3. w[n].kind # "publish" => w[n].tag <= top
  BY DEF SoundWire
<1>4. ASSUME w[n].kind = "ack", NEW d \in O2, d.tag = w[n].tag
      PROVE  After(w, n, P2, d.hash)
  <2>1. d \in O
    BY <1>2, <1>3, <1>4
  <2>2. After(w, n, P, d.hash)
    BY <1>4, <2>1 DEF SoundWire
  <2>. QED
    BY <2>2 DEF After
<1>. QED
  BY <1>2, <1>3, <1>4

(* Receiving the first frame. *)
LEMMA SoundTail ==
  ASSUME NEW w \in Seq(Frame), NEW O, NEW P, NEW top \in Nat, NEW P2,
         w # <<>>, SoundWire(w, O, P, top),
         P \subseteq P2, Head(w).kind = "publish" => Head(w).tree \subseteq P2
  PROVE  SoundWire(Tail(w), O, P2, top)
<1>1. /\ Len(Tail(w)) = Len(w) - 1 /\ Len(w) \in Nat /\ Len(w) > 0
      /\ \A n \in 1..Len(Tail(w)) : Tail(w)[n] = w[n + 1]
      /\ Head(w) = w[1]
  OBVIOUS
<1>. SUFFICES ASSUME NEW n \in 1..Len(Tail(w))
              PROVE  /\ Tail(w)[n].kind # "publish" => Tail(w)[n].tag <= top
                     /\ Tail(w)[n].kind = "ack" =>
                          \A d \in O : d.tag = Tail(w)[n].tag => After(Tail(w), n, P2, d.hash)
  BY DEF SoundWire
<1>2. n + 1 \in 1..Len(w) /\ Tail(w)[n] = w[n + 1]
  BY <1>1
<1>3. ASSUME w[n + 1].kind = "ack", NEW d \in O, d.tag = w[n + 1].tag
      PROVE  After(Tail(w), n, P2, d.hash)
  <2>1. After(w, n + 1, P, d.hash)
    BY <1>2, <1>3 DEF SoundWire
  <2>2. CASE d.hash \in P
    BY <2>2 DEF After
  <2>3. ASSUME NEW m \in 1..n, w[m].kind = "publish", d.hash \in w[m].tree
        PROVE  After(Tail(w), n, P2, d.hash)
    <3>1. CASE m = 1
      BY <1>1, <2>3, <3>1 DEF After
    <3>2. CASE m # 1
      <4>1. m - 1 \in 1..(n - 1) /\ m - 1 \in 1..Len(Tail(w)) /\ (m - 1) + 1 = m
        BY <1>1, <3>2
      <4>2. Tail(w)[m - 1] = w[m]
        BY <1>1, <4>1
      <4>. QED
        BY <2>3, <4>1, <4>2 DEF After
    <3>. QED
      BY <3>1, <3>2
  <2>4. (n + 1) - 1 = n
    BY <1>1
  <2>. QED
    BY <2>1, <2>2, <2>3, <2>4 DEF After
<1>. QED
  BY <1>2, <1>3 DEF SoundWire

(* The two parts of a concatenation. *)
Joined(u, s, t) ==
    /\ u \in Seq(Frame)
    /\ Len(u) = Len(s) + Len(t)
    /\ \A n \in 1..Len(s) : u[n] = s[n]
    /\ \A k \in 1..Len(t) : u[Len(s) + k] = t[k]

(* Writing t behind s on the wire joins the two. *)
LEMMA ConcatJoins == \A s, t \in Seq(Frame) : Joined(s \o t, s, t)
<1>. SUFFICES ASSUME NEW s \in Seq(Frame), NEW t \in Seq(Frame) PROVE Joined(s \o t, s, t)
  OBVIOUS
<1>1. Len(s) \in Nat /\ Len(t) \in Nat
  BY LenProperties
<1>2. /\ s \o t \in Seq(Frame)
      /\ Len(s \o t) = Len(s) + Len(t)
      /\ \A i \in 1..Len(s) + Len(t) :
            (s \o t)[i] = IF i <= Len(s) THEN s[i] ELSE t[i - Len(s)]
  BY ConcatProperties
<1>3. ASSUME NEW k \in 1..Len(t)
      PROVE  (s \o t)[Len(s) + k] = t[k]
  <2>1. /\ Len(s) + k \in 1..Len(s) + Len(t)
        /\ ~(Len(s) + k <= Len(s))
        /\ (Len(s) + k) - Len(s) = k
    BY <1>1
  <2>. QED
    BY <1>2, <2>1
<1>. QED
  BY <1>1, <1>2, <1>3 DEF Joined

(* An aggregation: a tree, then the acks of its messages. *)
LEMMA SoundAggregation ==
  ASSUME NEW w \in Seq(Frame), NEW O, NEW P, NEW top \in Nat,
         NEW b \in Seq(Delivery),
         SoundWire(w, O, P, top),
         \A k \in 1..Len(b) : Names(O, top, b[k].tag, b[k])
  PROVE  SoundWire(w \o <<Publish(HashesOf(b))>> \o SettleAll("ack", b), O, P, top)
<1>. DEFINE p == <<Publish(HashesOf(b))>>
            a == SettleAll("ack", b)
            x == w \o p
            u == x \o a
            L == Len(w)
<1>1. b \in [1..Len(b) -> Delivery] /\ Len(b) \in Nat /\ DOMAIN b = 1..Len(b)
  BY LenProperties
<1>2. /\ a \in Seq(Frame) /\ Len(a) = Len(b)
      /\ \A k \in 1..Len(b) : a[k] = Settle("ack", b[k].tag)
  BY <1>1, SettleType
<1>3. p \in Seq(Frame) /\ Len(p) = 1 /\ p[1] = Publish(HashesOf(b))
  <2>1. HashesOf(b) \in SUBSET Hash
    BY <1>1 DEF HashesOf, Delivery
  <2>. QED
    BY <2>1 DEF Publish, Frame
<1>. HIDE DEF p, a
<1>4. /\ x \in Seq(Frame) /\ Len(x) = L + 1 /\ L \in Nat
      /\ \A n \in 1..L : x[n] = w[n]
      /\ x[L + 1] = p[1]
  <2>1. 1 \in 1..Len(p) /\ p \in Seq(Frame) /\ Len(p) = 1
    BY <1>3
  <2>2. Joined(w \o p, w, p)
    BY <2>1, ConcatJoins
  <2>. QED
    BY <1>3, <2>1, <2>2, LenProperties DEF Joined
<1>. HIDE DEF x
<1>5. /\ u \in Seq(Frame) /\ Len(u) = L + 1 + Len(b)
      /\ \A n \in 1..(L + 1) : u[n] = x[n]
      /\ \A k \in 1..Len(b) : u[(L + 1) + k] = a[k]
  <2>1. a \in Seq(Frame) /\ x \in Seq(Frame)
    BY <1>2, <1>4
  <2>2. Joined(x \o a, x, a)
    BY <2>1, ConcatJoins
  <2>. QED
    BY <1>2, <1>4, <2>2 DEF Joined
<1>. HIDE DEF u, L
<1>6. SoundWire(u, O, P, top)
  <2>. SUFFICES ASSUME NEW n \in 1..Len(u)
                PROVE  /\ u[n].kind # "publish" => u[n].tag <= top
                       /\ u[n].kind = "ack" =>
                            \A d \in O : d.tag = u[n].tag => After(u, n, P, d.hash)
    BY DEF SoundWire
  <2>1. CASE n \in 1..L
    <3>1. u[n] = w[n] /\ \A m \in 1..(n - 1) : u[m] = w[m]
      BY <1>4, <1>5, <2>1
    <3>2. \A h : After(w, n, P, h) => After(u, n, P, h)
      BY <3>1 DEF After
    <3>. QED
      BY <2>1, <3>1, <3>2 DEF SoundWire, L
  <2>2. CASE n = L + 1
    <3>1. u[n].kind = "publish"
      BY <1>3, <1>4, <1>5, <2>2 DEF Publish
    <3>. QED
      BY <3>1
  <2>3. ASSUME NEW k \in 1..Len(b), n = (L + 1) + k
        PROVE  /\ u[n].tag <= top
               /\ \A d \in O : d.tag = u[n].tag => After(u, n, P, d.hash)
    <3>1. u[n].tag = b[k].tag /\ Names(O, top, b[k].tag, b[k])
      <4>1. u[n] = a[k] /\ a[k] = Settle("ack", b[k].tag)
        BY <1>2, <1>5, <2>3
      <4>. QED
        BY <4>1 DEF Settle
    <3>2. /\ u[L + 1].kind = "publish" /\ u[L + 1].tree = HashesOf(b)
          /\ L + 1 \in 1..(n - 1)
      BY <1>1, <1>3, <1>4, <1>5, <2>3 DEF Publish
    <3>3. b[k].hash \in HashesOf(b)
      BY <1>1 DEF HashesOf
    <3>. QED
      BY <3>1, <3>2, <3>3 DEF Names, After
  <2>4. n \in 1..L \/ n = L + 1 \/ \E k \in 1..Len(b) : n = (L + 1) + k
    <3>1. n > L + 1 => n - (L + 1) \in 1..Len(b) /\ n = L + 1 + (n - (L + 1))
      BY <1>1, <1>4, <1>5
    <3>. QED
      BY <1>1, <1>4, <1>5, <3>1
  <2>. QED
    BY <2>1, <2>2, <2>3, <2>4
<1>. QED
  BY <1>6 DEF u, x, p, a

(* A failed aggregation only nacks. *)
LEMMA SoundFailure ==
  ASSUME NEW w \in Seq(Frame), NEW O, NEW P, NEW top \in Nat,
         NEW b \in Seq(Delivery),
         SoundWire(w, O, P, top),
         \A k \in 1..Len(b) : Names(O, top, b[k].tag, b[k])
  PROVE  SoundWire(w \o SettleAll("nack", b), O, P, top)
<1>. DEFINE a == SettleAll("nack", b)
            u == w \o a
<1>1. Len(b) \in Nat /\ DOMAIN b = 1..Len(b) /\ Len(w) \in Nat
  BY LenProperties
<1>2. /\ a \in Seq(Frame) /\ Len(a) = Len(b)
      /\ \A k \in 1..Len(b) : a[k] = Settle("nack", b[k].tag)
  BY <1>1, SettleType
<1>. HIDE DEF a
<1>3. /\ u \in Seq(Frame) /\ Len(u) = Len(w) + Len(b)
      /\ \A n \in 1..Len(w) : u[n] = w[n]
      /\ \A k \in 1..Len(b) : u[Len(w) + k] = a[k]
  <2>1. a \in Seq(Frame)
    BY <1>2
  <2>2. Joined(w \o a, w, a)
    BY <2>1, ConcatJoins
  <2>. QED
    BY <1>2, <2>2 DEF Joined
<1>. HIDE DEF u
<1>4. SoundWire(u, O, P, top)
  <2>. SUFFICES ASSUME NEW n \in 1..Len(u)
                PROVE  /\ u[n].kind # "publish" => u[n].tag <= top
                       /\ u[n].kind = "ack" =>
                            \A d \in O : d.tag = u[n].tag => After(u, n, P, d.hash)
    BY DEF SoundWire
  <2>0. n \in 1..(Len(w) + Len(b))
    BY <1>3
  <2>1. CASE n \in 1..Len(w)
    <3>1. u[n] = w[n] /\ \A m \in 1..(n - 1) : u[m] = w[m]
      BY <1>1, <1>3, <2>1
    <3>2. \A h : After(w, n, P, h) => After(u, n, P, h)
      BY <3>1 DEF After
    <3>. QED
      BY <2>1, <3>1, <3>2 DEF SoundWire
  <2>2. ASSUME NEW k \in 1..Len(b), n = Len(w) + k
        PROVE  u[n].tag <= top /\ u[n].kind = "nack"
    <3>1. u[n] = a[k] /\ a[k] = Settle("nack", b[k].tag)
      BY <1>2, <1>3, <2>2
    <3>. QED
      BY <3>1 DEF Settle, Names
  <2>3. n \in 1..Len(w) \/ \E k \in 1..Len(b) : n = Len(w) + k
    <3>1. n > Len(w) => n - Len(w) \in 1..Len(b) /\ n = Len(w) + (n - Len(w))
      BY <1>1, <2>0
    <3>. QED
      BY <1>1, <2>0, <3>1
  <2>. QED
    BY <2>1, <2>2, <2>3
<1>. QED
  BY <1>4 DEF u, a

-----------------------------------------------------------------------------

(* What RabbitMQ has received only grows. *)
LEMMA AggregatedGrows ==
  ASSUME TypeOK, [Next]_vars
  PROVE  /\ Aggregated \subseteq Aggregated'
         /\ \A i \in Instance : ReceivePublish(i) =>
               Head(wire[i]).tree \subseteq Aggregated'
<1>1. trees' = trees \/ \E i \in Instance : ReceivePublish(i)
  BY DEF Next, vars, broker, InstanceStep, SubmitHash, ConsumeHashMessage, Aggregate,
         FailAggregation, CloseChannel, OpenChannel, ReceiveSettle, StoreAggStates
<1>2. CASE trees' = trees /\ ~\E i \in Instance : ReceivePublish(i)
  BY <1>2 DEF Aggregated, InSomeTree
<1>3. ASSUME NEW i \in Instance, ReceivePublish(i)
      PROVE  Aggregated \subseteq Aggregated' /\ Head(wire[i]).tree \subseteq Aggregated'
  <2>. DEFINE t == Head(wire[i]).tree
  <2>1. wire[i] \in Seq(Frame) /\ wire[i] # <<>>
    BY <1>3 DEF ReceivePublish, TypeOK
  <2>2. t \in SUBSET Hash
    <3>1. Head(wire[i]) \in Frame
      BY <2>1
    <3>. QED
      BY <3>1 DEF Frame
  <2>3. trees' = Append(trees, t) /\ trees \in Seq(SUBSET Hash)
    BY <1>3 DEF ReceivePublish, TypeOK
  <2>. HIDE DEF t
  <2>4. /\ DOMAIN trees' = 1..(Len(trees) + 1) /\ Len(trees) \in Nat
        /\ DOMAIN trees = 1..Len(trees)
        /\ trees'[Len(trees) + 1] = t
        /\ \A k \in 1..Len(trees) : trees'[k] = trees[k]
    BY <2>2, <2>3
  <2>5. Aggregated \subseteq Aggregated'
    BY <2>4 DEF Aggregated, InSomeTree
  <2>6. t \subseteq Aggregated'
    BY <2>2, <2>4 DEF Aggregated, InSomeTree
  <2>. QED
    BY <2>5, <2>6 DEF t
<1>. QED
  BY <1>1, <1>2, <1>3

(* What a channel knows is kept by the steps of other instances, and by    *)
(* those of the channel's own instance that leave its deliveries alone.    *)
LEMMA OthersKeep ==
  ASSUME AckInv, [Next]_vars, NEW i \in Instance,
         out'[i] = out[i], lastTag'[i] = lastTag[i]
  PROVE  /\ HASHES'[i] = HASHES[i] => TagInv(i)'
         /\ wire'[i] = wire[i] => WireInv(i)'
<1>1. HASHES'[i] = HASHES[i] => TagInv(i)'
  BY DEF AckInv, TagInv, Names
<1>2. ASSUME wire'[i] = wire[i]
      PROVE  WireInv(i)'
  <2>1. wire[i] \in Seq(Frame) /\ lastTag[i] \in Nat /\ WireInv(i)
    BY DEF AckInv, TypeOK
  <2>2. Aggregated \subseteq Aggregated'
    BY AggregatedGrows DEF AckInv
  <2>3. SoundWire(wire[i], out[i], Aggregated', lastTag[i])
    BY <2>1, <2>2, SoundMono DEF WireInv
  <2>. QED
    BY <1>2, <2>3 DEF WireInv
<1>. QED
  BY <1>1, <1>2

(* Every step keeps what is known of an instance's tags and frames. *)
LEMMA NextChannelInv ==
  ASSUME AckInv, TypeOK', [Next]_vars, NEW i \in Instance
  PROVE  TagInv(i)' /\ WireInv(i)'
<1>0. /\ TypeOK /\ TagInv(i) /\ WireInv(i)
      /\ wire[i] \in Seq(Frame) /\ lastTag[i] \in Nat /\ HASHES[i] \in Seq(Delivery)
      /\ out \in [Instance -> SUBSET Delivery] /\ lastTag \in [Instance -> Nat]
      /\ HASHES \in [Instance -> Seq(Delivery)] /\ wire \in [Instance -> Seq(Frame)]
  BY DEF AckInv, TypeOK
<1>1. CASE out'[i] = out[i] /\ lastTag'[i] = lastTag[i]
           /\ HASHES'[i] = HASHES[i] /\ wire'[i] = wire[i]
  BY <1>1, OthersKeep
<1>2. ASSUME NEW h \in Hash, ConsumeHashMessage(i, h)
      PROVE  TagInv(i)' /\ WireInv(i)'
  <2>. DEFINE d == [tag |-> lastTag[i] + 1, hash |-> h]
  <2>1. /\ out'[i] = out[i] \cup {d} /\ lastTag'[i] = lastTag[i] + 1
        /\ HASHES'[i] = Append(HASHES[i], d) /\ wire'[i] = wire[i]
    BY <1>0, <1>2 DEF ConsumeHashMessage
  <2>2. d.tag = lastTag[i] + 1 /\ d \in Delivery
    BY <1>0 DEF Delivery
  <2>. HIDE DEF d
  <2>3. \A e \in Delivery : Names(out[i], lastTag[i], e.tag, e)
            => Names(out[i] \cup {d}, lastTag[i] + 1, e.tag, e)
    BY <1>0, <2>2 DEF Names, Delivery
  <2>4. Names(out[i] \cup {d}, lastTag[i] + 1, d.tag, d)
    <3>1. \A e \in out[i] : e.tag <= lastTag[i] /\ e.tag \in Nat
      BY <1>0 DEF TagInv, Names, Delivery
    <3>. QED
      BY <1>0, <2>2, <3>1 DEF Names
  <2>5. \A e \in out'[i] : Names(out'[i], lastTag'[i], e.tag, e)
    BY <1>0, <2>1, <2>3, <2>4 DEF TagInv
  <2>6. \A k \in 1..Len(HASHES'[i]) :
            Names(out'[i], lastTag'[i], HASHES'[i][k].tag, HASHES'[i][k])
    <3>1. /\ Len(HASHES'[i]) = Len(HASHES[i]) + 1 /\ Len(HASHES[i]) \in Nat
          /\ \A k \in 1..Len(HASHES[i]) : HASHES'[i][k] = HASHES[i][k]
          /\ HASHES'[i][Len(HASHES[i]) + 1] = d
      BY <1>0, <2>1, <2>2
    <3>2. \A k \in 1..Len(HASHES[i]) : HASHES[i][k] \in Delivery
      BY <1>0, LenProperties
    <3>3. ASSUME NEW k \in 1..Len(HASHES[i])
          PROVE  Names(out[i] \cup {d}, lastTag[i] + 1, HASHES[i][k].tag, HASHES[i][k])
      BY <1>0, <2>3, <3>2 DEF TagInv
    <3>4. ASSUME NEW k \in 1..Len(HASHES'[i])
          PROVE  Names(out[i] \cup {d}, lastTag[i] + 1, HASHES'[i][k].tag, HASHES'[i][k])
      <4>1. k \in 1..Len(HASHES[i]) \/ k = Len(HASHES[i]) + 1
        BY <3>1
      <4>2. CASE k \in 1..Len(HASHES[i])
        <5>1. HASHES'[i][k] = HASHES[i][k]
          BY <3>1, <4>2
        <5>. QED
          BY <3>3, <4>2, <5>1
      <4>3. CASE k = Len(HASHES[i]) + 1
        BY <2>4, <3>1, <4>3
      <4>. QED
        BY <4>1, <4>2, <4>3
    <3>5. out'[i] = out[i] \cup {d} /\ lastTag'[i] = lastTag[i] + 1
      BY <2>1
    <3>. QED
      BY <3>4, <3>5
  <2>7. SoundWire(wire[i], out[i] \cup {d}, Aggregated', lastTag[i] + 1)
    <3>1. Aggregated \subseteq Aggregated'
      BY <1>0, AggregatedGrows
    <3>2. lastTag[i] + 1 \in Nat /\ lastTag[i] <= lastTag[i] + 1
      BY <1>0
    <3>3. \A e \in out[i] \cup {d} : e \in out[i] \/ e.tag > lastTag[i]
      BY <1>0, <2>2
    <3>4. SoundWire(wire[i], out[i], Aggregated, lastTag[i])
      BY <1>0 DEF WireInv
    <3>5. ASSUME NEW O2, NEW P2, NEW top2 \in Nat, O2 = out[i] \cup {d},
                 P2 = Aggregated', top2 = lastTag[i] + 1
          PROVE  SoundWire(wire[i], O2, P2, top2)
      <4>1. /\ Aggregated \subseteq P2 /\ lastTag[i] <= top2
            /\ \A e \in O2 : e \in out[i] \/ e.tag > lastTag[i]
        BY <3>1, <3>2, <3>3, <3>5
      <4>2. wire[i] \in Seq(Frame) /\ lastTag[i] \in Nat
        BY <1>0
      <4>. QED
        BY <3>4, <4>1, <4>2, SoundMono
    <3>. QED
      BY <3>2, <3>5
  <2>. QED
    BY <2>1, <2>5, <2>6, <2>7 DEF TagInv, WireInv
<1>3. ASSUME Aggregate(i) \/ FailAggregation(i)
      PROVE  TagInv(i)' /\ WireInv(i)'
  <2>1. /\ out' = out /\ lastTag' = lastTag /\ trees' = trees
        /\ HASHES'[i] = Rest(i)
        /\ \/ wire'[i] = wire[i] \o <<Publish(HashesOf(Batch(i)))>> \o SettleAll("ack", Batch(i))
           \/ wire'[i] = wire[i] \o SettleAll("nack", Batch(i))
    BY <1>0, <1>3 DEF Aggregate, FailAggregation, broker
  <2>2. /\ Batch(i) \in Seq(Delivery)
        /\ \A k \in 1..Len(Batch(i)) :
              Names(out[i], lastTag[i], Batch(i)[k].tag, Batch(i)[k])
    BY <1>0, BatchType DEF TagInv
  <2>3. SoundWire(wire'[i], out[i], Aggregated, lastTag[i])
    BY <1>0, <2>1, <2>2, SoundAggregation, SoundFailure DEF WireInv
  <2>4. \A k \in 1..Len(Rest(i)) : Names(out[i], lastTag[i], Rest(i)[k].tag, Rest(i)[k])
    BY <1>0, BatchType DEF TagInv
  <2>5. Aggregated' = Aggregated
    BY <2>1 DEF Aggregated, InSomeTree
  <2>. QED
    BY <1>0, <2>1, <2>3, <2>4, <2>5 DEF TagInv, WireInv
<1>4. ASSUME CloseChannel(i)
      PROVE  TagInv(i)' /\ WireInv(i)'
  <2>1. out'[i] = {} /\ HASHES'[i] = <<>> /\ wire'[i] = <<>>
    BY <1>0, <1>4 DEF CloseChannel, Requeue
  <2>2. Len(<<>>) = 0
    OBVIOUS
  <2>. QED
    BY <2>1, <2>2 DEF TagInv, WireInv, SoundWire
<1>5. ASSUME ReceivePublish(i)
      PROVE  TagInv(i)' /\ WireInv(i)'
  <2>1. /\ out' = out /\ lastTag' = lastTag /\ HASHES' = HASHES
        /\ wire'[i] = Tail(wire[i]) /\ wire[i] # <<>>
    BY <1>0, <1>5 DEF ReceivePublish, broker
  <2>2. SoundWire(Tail(wire[i]), out[i], Aggregated', lastTag[i])
    BY <1>0, <1>5, <2>1, AggregatedGrows, SoundTail DEF WireInv
  <2>. QED
    BY <1>0, <2>1, <2>2 DEF TagInv, WireInv, Names
<1>6. ASSUME ReceiveSettle(i)
      PROVE  TagInv(i)' /\ WireInv(i)'
  <2>1. /\ out'[i] \subseteq out[i] /\ lastTag' = lastTag /\ HASHES' = HASHES
        /\ wire'[i] = Tail(wire[i]) /\ wire[i] # <<>> /\ trees' = trees
        /\ Head(wire[i]).kind # "publish"
    BY <1>0, <1>6 DEF ReceiveSettle
  <2>2. SoundWire(Tail(wire[i]), out[i], Aggregated, lastTag[i])
    BY <1>0, <2>1, SoundTail DEF WireInv
  <2>3. /\ Tail(wire[i]) \in Seq(Frame) /\ Aggregated' = Aggregated
        /\ \A d \in out'[i] : d \in out[i] \/ d.tag > lastTag[i]
    <3>1. Tail(wire[i]) \in Seq(Frame)
      BY <1>0, <2>1
    <3>2. Aggregated' = Aggregated
      BY <2>1 DEF Aggregated, InSomeTree
    <3>. QED
      BY <2>1, <3>1, <3>2
  <2>4. SoundWire(Tail(wire[i]), out'[i], Aggregated, lastTag[i])
    <3>1. Aggregated \subseteq Aggregated /\ lastTag[i] <= lastTag[i]
      BY <1>0
    <3>. QED
      BY <1>0, <2>2, <2>3, <3>1, SoundMono
  <2>. QED
    BY <1>0, <2>1, <2>3, <2>4 DEF TagInv, WireInv, Names
<1>7. ASSUME NEW j \in Instance, j # i,
             \/ \E h \in Hash : ConsumeHashMessage(j, h)
             \/ Aggregate(j) \/ FailAggregation(j) \/ CloseChannel(j) \/ OpenChannel(j)
             \/ ReceivePublish(j) \/ ReceiveSettle(j)
      PROVE  /\ out'[i] = out[i] /\ lastTag'[i] = lastTag[i]
             /\ HASHES'[i] = HASHES[i] /\ wire'[i] = wire[i]
  BY <1>0, <1>7 DEF ConsumeHashMessage, Aggregate, FailAggregation, CloseChannel, Requeue,
                    OpenChannel, ReceivePublish, ReceiveSettle, broker
<1>8. \/ UNCHANGED vars \/ \E h \in Hash : SubmitHash(h)
      \/ \E t \in DOMAIN trees : StoreAggStates(t)
      \/ OpenChannel(i)
      => /\ out'[i] = out[i] /\ lastTag'[i] = lastTag[i]
         /\ HASHES'[i] = HASHES[i] /\ wire'[i] = wire[i]
  BY DEF vars, broker, SubmitHash, StoreAggStates, OpenChannel
<1>. QED
  BY <1>1, <1>2, <1>3, <1>4, <1>5, <1>6, <1>7, <1>8 DEF Next, InstanceStep

(* Only the receipt of an ack makes RabbitMQ forget a message. *)
LEMMA NextAcked ==
  ASSUME AckInv, TypeOK', [Next]_vars
  PROVE  AckedIsAggregated'
<1>1. AckedIsAggregated /\ Aggregated \subseteq Aggregated'
  BY AggregatedGrows DEF AckInv
<1>2. ASSUME NEW i \in Instance, ReceiveSettle(i), NEW h \in Hash,
             message'[h] = "acked", message[h] # "acked"
      PROVE  h \in Aggregated
  <2>. DEFINE w == wire[i]
  <2>1. w \in Seq(Frame) /\ w # <<>> /\ WireInv(i)
    BY <1>2 DEF AckInv, TypeOK, ReceiveSettle
  <2>2. Head(w) = w[1] /\ 1 \in 1..Len(w)
    BY <2>1
  <2>3. PICK d \in out[i] : d.tag = w[1].tag /\ d.hash = h /\ w[1].kind = "ack"
    BY <1>2, <2>2 DEF ReceiveSettle
  <2>4. After(w, 1, Aggregated, h)
    BY <2>1, <2>2, <2>3 DEF WireInv, SoundWire
  <2>. QED
    BY <2>4 DEF After
<1>3. ASSUME NEW h \in Hash, message'[h] = "acked", ~\E i \in Instance : ReceiveSettle(i)
      PROVE  message[h] = "acked"
  <2>1. \/ message' = message
        \/ \E g \in Hash : SubmitHash(g)
        \/ \E i \in Instance, g \in Hash : ConsumeHashMessage(i, g)
        \/ \E i \in Instance : Requeue(i)
    BY <1>3 DEF Next, vars, broker, InstanceStep, Aggregate, FailAggregation, CloseChannel,
                OpenChannel, ReceivePublish, StoreAggStates
  <2>2. message \in [Hash -> {"unsent", "ready", "delivered", "acked"}]
    BY DEF AckInv, TypeOK
  <2>3. ASSUME NEW g \in Hash, SubmitHash(g)
        PROVE  message[h] = "acked"
    BY <1>3, <2>2, <2>3 DEF SubmitHash
  <2>4. ASSUME NEW i \in Instance, NEW g \in Hash, ConsumeHashMessage(i, g)
        PROVE  message[h] = "acked"
    BY <1>3, <2>2, <2>4 DEF ConsumeHashMessage
  <2>5. ASSUME NEW i \in Instance, Requeue(i)
        PROVE  message[h] = "acked"
    BY <1>3, <2>2, <2>5 DEF Requeue
  <2>. QED
    BY <1>3, <2>1, <2>3, <2>4, <2>5
<1>4. ASSUME NEW h \in Hash, message'[h] = "acked"
      PROVE  InSomeTree(h)'
  <2>1. h \in Aggregated
    BY <1>1, <1>2, <1>3, <1>4 DEF AckedIsAggregated, Aggregated
  <2>. QED
    BY <1>1, <2>1 DEF Aggregated
<1>. QED
  BY <1>4 DEF AckedIsAggregated

(* AckInv is inductive, and so holds throughout. *)
LEMMA InitAckInv == Init => AckInv
<1>. SUFFICES ASSUME Init PROVE AckInv
  OBVIOUS
<1>1. TypeOK
  BY InitTypeOK
<1>2. \A h \in Hash : message[h] # "acked"
  BY DEF Init
<1>3. \A i \in Instance : out[i] = {} /\ Len(HASHES[i]) = 0 /\ Len(wire[i]) = 0
  BY DEF Init
<1>. QED
  BY <1>1, <1>2, <1>3 DEF AckInv, AckedIsAggregated, TagInv, WireInv, SoundWire

LEMMA NextAckInv == AckInv /\ [Next]_vars => AckInv'
<1>. SUFFICES ASSUME AckInv, [Next]_vars PROVE AckInv'
  OBVIOUS
<1>1. TypeOK'
  BY NextTypeOK DEF AckInv
<1>. QED
  BY <1>1, NextChannelInv, NextAcked DEF AckInv

LEMMA AckInvariant == Spec => []AckInv
<1>. QED
  BY InitAckInv, NextAckInv, PTL DEF Spec

(* RabbitMQ forgets a hash only once it holds a tree with the hash, for    *)
(* any interleaving of instances, lost channels and cut-off sockets.       *)
THEOREM NoHashForgotten == Spec => []AckedIsAggregated
<1>1. AckInv => AckedIsAggregated
  BY DEF AckInv
<1>. QED
  BY <1>1, AckInvariant, PTL

-----------------------------------------------------------------------------
(* The wire after a batch: what HASHES splits into, and what is written.   *)

Splits(H, b, r) ==
    /\ b \in Seq(Delivery) /\ r \in Seq(Delivery)
    /\ \A k \in 1..Len(b) : k \in 1..Len(H) /\ b[k] = H[k]
    /\ \A k \in 1..Len(r) : Len(b) + k \in 1..Len(H) /\ r[k] = H[Len(b) + k]

(* The wire u is w, then p trees (the tree of b or none), then a           *)
(* settlement of each delivery of b.                                       *)
Trees == {0, 1}

Extended(u, w, b, p, kind) ==
    /\ u \in Seq(Frame) /\ Len(u) = Len(w) + p + Len(b)
    /\ \A n \in 1..Len(w) : u[n] = w[n]
    /\ p = 1 => u[Len(w) + 1] = Publish(HashesOf(b))
    /\ \A k \in 1..Len(b) : u[Len(w) + p + k] = Settle(kind, b[k].tag)

(* splice returns the first deliveries of HASHES and leaves the others. *)
LEMMA SpliceSplits ==
  ASSUME TypeOK, NEW i \in Instance
  PROVE  Splits(HASHES[i], Batch(i), Rest(i))
<1>1. /\ HASHES[i] \in Seq(Delivery) /\ Len(HASHES[i]) \in Nat
      /\ BatchSize(i) \in Nat /\ BatchSize(i) <= Len(HASHES[i])
  BY BoundsAssumption DEF TypeOK, BatchSize
<1>2. /\ Batch(i) \in Seq(Delivery) /\ Len(Batch(i)) = BatchSize(i)
      /\ Rest(i) \in Seq(Delivery)
      /\ \A k \in 1..Len(Batch(i)) : k \in 1..Len(HASHES[i]) /\ Batch(i)[k] = HASHES[i][k]
  <2>1. Len(Batch(i)) = IF 1 <= BatchSize(i) THEN BatchSize(i) - 1 + 1 ELSE 0
    BY <1>1, SubSeqProperties, LenProperties DEF Batch
  <2>. QED
    BY <1>1, <2>1, BatchType
<1>3. /\ Len(Rest(i)) = Len(HASHES[i]) - BatchSize(i)
      /\ \A k \in 1..Len(Rest(i)) : Rest(i)[k] = HASHES[i][k + BatchSize(i)]
  BY <1>1, SubSeqProperties, LenProperties DEF Rest
<1>4. \A k \in 1..Len(Rest(i)) :
        Len(Batch(i)) + k \in 1..Len(HASHES[i]) /\ Len(Batch(i)) + k = k + BatchSize(i)
  BY <1>1, <1>2, <1>3
<1>. QED
  BY <1>2, <1>3, <1>4 DEF Splits

(* What aggregateAsync writes when it succeeds... *)
LEMMA AggregationFrames ==
  ASSUME NEW w \in Seq(Frame), NEW b \in Seq(Delivery)
  PROVE  Extended(w \o <<Publish(HashesOf(b))>> \o SettleAll("ack", b), w, b, 1, "ack")
<1>. DEFINE p == <<Publish(HashesOf(b))>>
            a == SettleAll("ack", b)
            x == w \o p
            u == x \o a
<1>1. b \in [1..Len(b) -> Delivery] /\ Len(b) \in Nat /\ DOMAIN b = 1..Len(b) /\ Len(w) \in Nat
  BY LenProperties
<1>2. /\ a \in Seq(Frame) /\ Len(a) = Len(b)
      /\ \A k \in 1..Len(b) : a[k] = Settle("ack", b[k].tag)
  BY <1>1, SettleType
<1>3. p \in Seq(Frame) /\ Len(p) = 1 /\ p[1] = Publish(HashesOf(b))
  <2>1. HashesOf(b) \in SUBSET Hash
    BY <1>1 DEF HashesOf, Delivery
  <2>. QED
    BY <2>1 DEF Publish, Frame
<1>. HIDE DEF p, a
<1>4. Joined(x, w, p)
  BY <1>3, ConcatJoins
<1>5. x \in Seq(Frame)
  BY <1>4 DEF Joined
<1>. HIDE DEF x
<1>6. Joined(u, x, a)
  BY <1>2, <1>5, ConcatJoins DEF u
<1>. HIDE DEF u
<1>7. /\ Len(x) = Len(w) + 1 /\ x[Len(w) + 1] = Publish(HashesOf(b))
      /\ \A n \in 1..Len(w) : x[n] = w[n]
  BY <1>1, <1>3, <1>4 DEF Joined
<1>8. /\ u \in Seq(Frame) /\ Len(u) = Len(w) + 1 + Len(b)
      /\ \A n \in 1..(Len(w) + 1) : u[n] = x[n]
      /\ \A k \in 1..Len(b) : u[Len(w) + 1 + k] = Settle("ack", b[k].tag)
  BY <1>1, <1>2, <1>6, <1>7 DEF Joined
<1>9. Extended(u, w, b, 1, "ack")
  BY <1>1, <1>7, <1>8 DEF Extended
<1>. QED
  BY <1>9 DEF u, x, p, a

(* ... and when it fails. *)
LEMMA FailureFrames ==
  ASSUME NEW w \in Seq(Frame), NEW b \in Seq(Delivery)
  PROVE  Extended(w \o SettleAll("nack", b), w, b, 0, "nack")
<1>. DEFINE a == SettleAll("nack", b)
<1>1. Len(b) \in Nat /\ DOMAIN b = 1..Len(b) /\ Len(w) \in Nat
  BY LenProperties
<1>2. /\ a \in Seq(Frame) /\ Len(a) = Len(b)
      /\ \A k \in 1..Len(b) : a[k] = Settle("nack", b[k].tag)
  BY <1>1, SettleType
<1>. HIDE DEF a
<1>3. Joined(w \o a, w, a)
  BY <1>2, ConcatJoins
<1>4. Extended(w \o a, w, b, 0, "nack")
  BY <1>1, <1>2, <1>3 DEF Extended, Joined
<1>. QED
  BY <1>4 DEF a

(* A frame of the extended wire is old, the tree, or a settlement. *)
Origin(u, w, b, p, kind, n) ==
    \/ n \in 1..Len(w) /\ u[n] = w[n]
    \/ p = 1 /\ n = Len(w) + 1 /\ u[n] = Publish(HashesOf(b))
    \/ \E k \in 1..Len(b) : n = Len(w) + p + k /\ u[n] = Settle(kind, b[k].tag)

LEMMA FrameOrigin ==
  ASSUME NEW w \in Seq(Frame), NEW b \in Seq(Delivery), NEW u, NEW p \in Trees,
         NEW kind, Extended(u, w, b, p, kind), NEW n \in 1..Len(u)
  PROVE  Origin(u, w, b, p, kind, n)
<1>1. Len(w) \in Nat /\ Len(b) \in Nat /\ Len(u) = Len(w) + p + Len(b) /\ p \in {0, 1}
  BY LenProperties DEF Extended, Trees
<1>2. n > Len(w) + p => n - (Len(w) + p) \in 1..Len(b) /\ n = Len(w) + p + (n - (Len(w) + p))
  BY <1>1
<1>3. n \in 1..Len(w) \/ (p = 1 /\ n = Len(w) + 1) \/ n > Len(w) + p
  BY <1>1
<1>. QED
  BY <1>2, <1>3 DEF Extended, Origin

-----------------------------------------------------------------------------
(* WorkIsCurrent, for the work H, the wire w and the deliveries O of one   *)
(* channel.  Tags in H differ, so that a batch settles each of its         *)
(* deliveries once.                                                        *)

Current(H, w, O) ==
    /\ \A k \in 1..Len(H) : H[k] \in O
    /\ \A k, l \in 1..Len(H) : H[k].tag = H[l].tag => k = l
    /\ \A n \in 1..Len(w) : w[n].kind # "publish" =>
          /\ \E d \in O : d.tag = w[n].tag
          /\ \A k \in 1..Len(H) : H[k].tag # w[n].tag
          /\ \A m \in 1..Len(w) : w[m].kind # "publish" /\ w[m].tag = w[n].tag => m = n

(* A new delivery has a tag of its own. *)
LEMMA CurrentDelivery ==
  ASSUME NEW H \in Seq(Delivery), NEW w \in Seq(Frame), NEW O \in SUBSET Delivery,
         NEW top \in Nat, NEW d \in Delivery, d.tag = top + 1,
         \A e \in O : e.tag <= top, Current(H, w, O)
  PROVE  Current(Append(H, d), w, O \cup {d})
<1>. DEFINE G == Append(H, d)
            Q == O \cup {d}
<1>1. /\ Len(G) = Len(H) + 1 /\ Len(H) \in Nat
      /\ \A k \in 1..Len(H) : G[k] = H[k]
      /\ G[Len(H) + 1] = d
  OBVIOUS
<1>2. \A e \in O : e.tag \in Nat /\ e.tag # d.tag
  BY DEF Delivery
<1>3. \A k \in 1..Len(G) : (k \in 1..Len(H) /\ G[k] = H[k] /\ H[k] \in O) \/ (k = Len(H) + 1 /\ G[k] = d)
  BY <1>1 DEF Current
<1>. HIDE DEF G
<1>4. \A k \in 1..Len(G) : G[k] \in Q
  BY <1>3
<1>5. ASSUME NEW k \in 1..Len(G), NEW l \in 1..Len(G), G[k].tag = G[l].tag
      PROVE  k = l
  BY <1>2, <1>3, <1>5 DEF Current
<1>6. ASSUME NEW n \in 1..Len(w), w[n].kind # "publish"
      PROVE  /\ \E e \in Q : e.tag = w[n].tag
             /\ \A k \in 1..Len(G) : G[k].tag # w[n].tag
             /\ \A m \in 1..Len(w) : w[m].kind # "publish" /\ w[m].tag = w[n].tag => m = n
  BY <1>2, <1>3, <1>6 DEF Current
<1>7. Current(G, w, Q)
  BY <1>4, <1>5, <1>6 DEF Current
<1>. QED
  BY <1>7 DEF G

(* A batch leaves HASHES and is settled, whether it was aggregated or not. *)
LEMMA CurrentBatch ==
  ASSUME NEW H \in Seq(Delivery), NEW w \in Seq(Frame), NEW O,
         NEW b, NEW r, Splits(H, b, r),
         NEW u, NEW p \in Trees, NEW kind \in {"ack", "nack"}, Extended(u, w, b, p, kind),
         Current(H, w, O)
  PROVE  Current(r, u, O)
<1>1. b \in Seq(Delivery) /\ r \in Seq(Delivery)
  BY DEF Splits
<1>2. Len(H) \in Nat /\ Len(b) \in Nat /\ Len(r) \in Nat /\ Len(w) \in Nat /\ p \in {0, 1}
  BY <1>1, LenProperties DEF Trees
<1>3. \A k \in 1..Len(r) : Len(b) + k \in 1..Len(H) /\ r[k] = H[Len(b) + k]
  BY DEF Splits
<1>4. \A k \in 1..Len(b) : k \in 1..Len(H) /\ b[k] = H[k]
  BY DEF Splits
<1>5. \A n \in 1..Len(u) :
         \/ n \in 1..Len(w) /\ u[n] = w[n]
         \/ u[n].kind = "publish"
         \/ \E k \in 1..Len(b) : n = Len(w) + p + k /\ u[n].tag = b[k].tag
  <2>1. \A n \in 1..Len(u) : Origin(u, w, b, p, kind, n)
    BY <1>1, FrameOrigin
  <2>2. Publish(HashesOf(b)).kind = "publish" /\ \A t : Settle(kind, t).tag = t
    BY DEF Publish, Settle
  <2>3. ASSUME NEW n \in 1..Len(u), NEW k \in 1..Len(b),
               n = Len(w) + p + k, u[n] = Settle(kind, b[k].tag)
        PROVE  \E j \in 1..Len(b) : n = Len(w) + p + j /\ u[n].tag = b[j].tag
    <3>1. u[n].tag = b[k].tag
      BY <2>2, <2>3
    <3>. QED
      BY <2>3, <3>1
  <2>. QED
    BY <2>1, <2>2, <2>3 DEF Origin
<1>6. \A k \in 1..Len(r) : r[k] \in O
  BY <1>3 DEF Current
<1>7. ASSUME NEW k \in 1..Len(r), NEW l \in 1..Len(r), r[k].tag = r[l].tag
      PROVE  k = l
  <2>1. Len(b) + k = Len(b) + l
    <3>1. \A i, j \in 1..Len(H) : H[i].tag = H[j].tag => i = j
      BY DEF Current
    <3>2. H[Len(b) + k].tag = H[Len(b) + l].tag
      BY <1>3, <1>7
    <3>. QED
      BY <1>3, <3>1, <3>2
  <2>. QED
    BY <1>2, <2>1
<1>8. ASSUME NEW n \in 1..Len(u), u[n].kind # "publish"
      PROVE  /\ \E d \in O : d.tag = u[n].tag
             /\ \A k \in 1..Len(r) : r[k].tag # u[n].tag
             /\ \A m \in 1..Len(u) : u[m].kind # "publish" /\ u[m].tag = u[n].tag => m = n
  <2>1. CASE n \in 1..Len(w) /\ u[n] = w[n]
    <3>1. /\ \E d \in O : d.tag = u[n].tag
          /\ \A k \in 1..Len(H) : H[k].tag # u[n].tag
      BY <1>8, <2>1 DEF Current
    <3>2. \A k \in 1..Len(r) : r[k].tag # u[n].tag
      BY <1>3, <3>1
    <3>3. ASSUME NEW m \in 1..Len(u), u[m].kind # "publish", u[m].tag = u[n].tag
          PROVE  m = n
      <4>1. CASE m \in 1..Len(w) /\ u[m] = w[m]
        BY <1>8, <2>1, <3>3, <4>1 DEF Current
      <4>2. ASSUME NEW l \in 1..Len(b), u[m].tag = b[l].tag
            PROVE  FALSE
        BY <1>4, <3>1, <3>3, <4>2
      <4>. QED
        BY <1>5, <3>3, <4>1, <4>2
    <3>. QED
      BY <3>1, <3>2, <3>3
  <2>2. ASSUME NEW k \in 1..Len(b), n = Len(w) + p + k, u[n].tag = b[k].tag
        PROVE  /\ \E d \in O : d.tag = u[n].tag
               /\ \A j \in 1..Len(r) : r[j].tag # u[n].tag
               /\ \A m \in 1..Len(u) : u[m].kind # "publish" /\ u[m].tag = u[n].tag => m = n
    <3>1. k \in 1..Len(H) /\ u[n].tag = H[k].tag /\ H[k] \in O
      BY <1>4, <2>2 DEF Current
    <3>2. ASSUME NEW j \in 1..Len(r), r[j].tag = u[n].tag
          PROVE  FALSE
      <4>1. Len(b) + j = k
        BY <1>3, <3>1, <3>2 DEF Current
      <4>. QED
        BY <1>2, <4>1
    <3>3. ASSUME NEW m \in 1..Len(u), u[m].kind # "publish", u[m].tag = u[n].tag
          PROVE  m = n
      <4>1. CASE m \in 1..Len(w) /\ u[m] = w[m]
        BY <3>1, <3>3, <4>1 DEF Current
      <4>2. ASSUME NEW l \in 1..Len(b), m = Len(w) + p + l, u[m].tag = b[l].tag
            PROVE  m = n
        <5>1. l \in 1..Len(H) /\ H[l].tag = H[k].tag
          BY <1>4, <3>1, <3>3, <4>2
        <5>. QED
          BY <2>2, <3>1, <4>2, <5>1 DEF Current
      <4>. QED
        BY <1>5, <3>3, <4>1, <4>2
    <3>. QED
      BY <3>1, <3>2, <3>3
  <2>. QED
    BY <1>5, <1>8, <2>1, <2>2
<1>. QED
  BY <1>6, <1>7, <1>8 DEF Current

(* What RabbitMQ settles with the first frame is what that frame names. *)
SettlesHead(w, O, Q) ==
    /\ Q \subseteq O
    /\ \A d \in O \ Q : Head(w).kind # "publish" /\ d.tag = Head(w).tag

(* The frames that are left name deliveries that are left. *)
LEMMA CurrentTail ==
  ASSUME NEW H \in Seq(Delivery), NEW w \in Seq(Frame), NEW O, NEW Q,
         w # <<>>, SettlesHead(w, O, Q), Current(H, w, O)
  PROVE  Current(H, Tail(w), Q)
<1>1. /\ Len(Tail(w)) = Len(w) - 1 /\ Len(w) \in Nat /\ Len(w) > 0
      /\ \A n \in 1..Len(Tail(w)) : n + 1 \in 1..Len(w) /\ Tail(w)[n] = w[n + 1]
      /\ Head(w) = w[1] /\ 1 \in 1..Len(w)
  OBVIOUS
<1>2. ASSUME NEW k \in 1..Len(H)
      PROVE  H[k] \in Q
  BY <1>1, <1>2 DEF Current, SettlesHead
<1>3. ASSUME NEW n \in 1..Len(Tail(w)), Tail(w)[n].kind # "publish"
      PROVE  /\ \E d \in Q : d.tag = Tail(w)[n].tag
             /\ \A k \in 1..Len(H) : H[k].tag # Tail(w)[n].tag
             /\ \A m \in 1..Len(Tail(w)) :
                   Tail(w)[m].kind # "publish" /\ Tail(w)[m].tag = Tail(w)[n].tag => m = n
  <2>1. n + 1 \in 1..Len(w) /\ Tail(w)[n] = w[n + 1] /\ n + 1 # 1
    BY <1>1
  <2>2. PICK d \in O : d.tag = w[n + 1].tag
    BY <1>3, <2>1 DEF Current
  <2>3. d \in Q
    <3>. SUFFICES ASSUME d \notin Q PROVE FALSE
      OBVIOUS
    <3>1. w[1].kind # "publish" /\ w[1].tag = w[n + 1].tag
      BY <1>1, <2>2 DEF SettlesHead
    <3>. QED
      BY <1>1, <1>3, <2>1, <3>1 DEF Current
  <2>4. ASSUME NEW m \in 1..Len(Tail(w)),
               Tail(w)[m].kind # "publish", Tail(w)[m].tag = Tail(w)[n].tag
        PROVE  m = n
    <3>1. m + 1 = n + 1
      BY <1>1, <1>3, <2>1, <2>4 DEF Current
    <3>. QED
      BY <3>1
  <2>. QED
    BY <1>3, <2>1, <2>2, <2>3, <2>4 DEF Current
<1>. QED
  BY <1>2, <1>3 DEF Current

-----------------------------------------------------------------------------
(* A tree on the wire is followed by the acks of its hashes, and no hash   *)
(* is in two trees of one wire.                                            *)

AckedLater(w, n, O, h) ==
    \E m \in 1..Len(w) : \E d \in O :
        m > n /\ w[m].kind = "ack" /\ w[m].tag = d.tag /\ d.hash = h

PublishSound(w, O) ==
    \A n \in 1..Len(w) : w[n].kind = "publish" =>
        \A h \in w[n].tree :
            /\ AckedLater(w, n, O, h)
            /\ \A m \in 1..Len(w) : w[m].kind = "publish" /\ h \in w[m].tree => m = n

(* More deliveries take nothing away. *)
LEMMA PublishGrows ==
  ASSUME NEW w, NEW O, NEW Q, O \subseteq Q, PublishSound(w, O)
  PROVE  PublishSound(w, Q)
<1>1. \A n, h : AckedLater(w, n, O, h) => AckedLater(w, n, Q, h)
  BY DEF AckedLater
<1>. QED
  BY <1>1 DEF PublishSound

(* A batch of which no hash is in a tree on the wire. *)
Fresh(w, b) ==
    \A n \in 1..Len(w) : w[n].kind = "publish" => HashesOf(b) \cap w[n].tree = {}

TreeIsAcked(p, kind) == p = 1 => kind = "ack"

LEMMA PublishBatch ==
  ASSUME NEW w \in Seq(Frame), NEW O, NEW b \in Seq(Delivery),
         NEW u, NEW p \in Trees, NEW kind \in {"ack", "nack"}, Extended(u, w, b, p, kind),
         PublishSound(w, O), TreeIsAcked(p, kind), Fresh(w, b),
         \A k \in 1..Len(b) : b[k] \in O
  PROVE  PublishSound(u, O)
<1>1. Len(w) \in Nat /\ Len(b) \in Nat /\ DOMAIN b = 1..Len(b) /\ p \in {0, 1}
      /\ Len(u) = Len(w) + p + Len(b) /\ \A n \in 1..Len(w) : u[n] = w[n]
  BY LenProperties DEF Extended, Trees
<1>2. ASSUME NEW n \in 1..Len(u), u[n].kind = "publish"
      PROVE  \/ n \in 1..Len(w) /\ u[n] = w[n]
             \/ p = 1 /\ n = Len(w) + 1 /\ u[n].tree = HashesOf(b)
  <2>1. Origin(u, w, b, p, kind, n)
    BY FrameOrigin
  <2>2. \A t : Settle(kind, t).kind # "publish"
    BY DEF Settle
  <2>3. Publish(HashesOf(b)).tree = HashesOf(b)
    BY DEF Publish
  <2>. QED
    BY <1>2, <2>1, <2>2, <2>3 DEF Origin
<1>3. \A n, h : AckedLater(w, n, O, h) => AckedLater(u, n, O, h)
  BY <1>1 DEF AckedLater
<1>4. ASSUME NEW n \in 1..Len(u), u[n].kind = "publish", NEW h \in u[n].tree
      PROVE  /\ AckedLater(u, n, O, h)
             /\ \A m \in 1..Len(u) : u[m].kind = "publish" /\ h \in u[m].tree => m = n
  <2>1. CASE n \in 1..Len(w) /\ u[n] = w[n]
    <3>1. AckedLater(u, n, O, h)
      BY <1>3, <1>4, <2>1 DEF PublishSound
    <3>2. ASSUME NEW m \in 1..Len(u), u[m].kind = "publish", h \in u[m].tree
          PROVE  m = n
      BY <1>2, <1>4, <2>1, <3>2 DEF PublishSound, Fresh
    <3>. QED
      BY <3>1, <3>2
  <2>2. CASE p = 1 /\ n = Len(w) + 1 /\ u[n].tree = HashesOf(b)
    <3>1. PICK k \in 1..Len(b) : b[k].hash = h
      BY <1>1, <1>4, <2>2 DEF HashesOf
    <3>2. Len(w) + p + k \in 1..Len(u) /\ Len(w) + p + k > n
      BY <1>1, <2>2
    <3>3. u[Len(w) + p + k].kind = "ack" /\ u[Len(w) + p + k].tag = b[k].tag
      <4>1. u[Len(w) + p + k] = Settle("ack", b[k].tag)
        BY <2>2 DEF Extended, TreeIsAcked
      <4>. QED
        BY <4>1 DEF Settle
    <3>4. AckedLater(u, n, O, h)
      BY <3>1, <3>2, <3>3 DEF AckedLater
    <3>5. ASSUME NEW m \in 1..Len(u), u[m].kind = "publish", h \in u[m].tree
          PROVE  m = n
      BY <1>2, <1>4, <2>2, <3>5 DEF Fresh
    <3>. QED
      BY <3>4, <3>5
  <2>. QED
    BY <1>2, <1>4, <2>1, <2>2
<1>. QED
  BY <1>4 DEF PublishSound

(* Receiving a frame takes no ack of another delivery away. *)
LEMMA AckedTail ==
  ASSUME NEW H, NEW w \in Seq(Frame), NEW O, NEW Q, w # <<>>,
         SettlesHead(w, O, Q), Current(H, w, O), NEW n \in Nat, NEW h,
         AckedLater(w, n + 1, O, h)
  PROVE  AckedLater(Tail(w), n, Q, h)
<1>1. PICK m \in 1..Len(w), d \in O :
          m > n + 1 /\ w[m].kind = "ack" /\ w[m].tag = d.tag /\ d.hash = h
  BY DEF AckedLater
<1>2. /\ Len(Tail(w)) = Len(w) - 1 /\ Len(w) \in Nat /\ Head(w) = w[1] /\ 1 \in 1..Len(w)
      /\ m - 1 \in 1..Len(Tail(w)) /\ m - 1 > n /\ m # 1
      /\ Tail(w)[m - 1] = w[m]
  <2>1. \A k \in 1..Len(Tail(w)) : Tail(w)[k] = w[k + 1]
    OBVIOUS
  <2>2. Len(Tail(w)) = Len(w) - 1 /\ Len(w) \in Nat /\ Head(w) = w[1]
    OBVIOUS
  <2>3. m - 1 \in 1..Len(Tail(w)) /\ (m - 1) + 1 = m
    BY <1>1, <2>2
  <2>. QED
    BY <1>1, <2>1, <2>2, <2>3
<1>3. d \in Q
  <2>. SUFFICES ASSUME d \notin Q PROVE FALSE
    OBVIOUS
  <2>1. w[1].kind # "publish" /\ w[1].tag = w[m].tag
    BY <1>1, <1>2 DEF SettlesHead
  <2>. QED
    BY <1>1, <1>2, <2>1 DEF Current
<1>. QED
  BY <1>1, <1>2, <1>3 DEF AckedLater

LEMMA PublishTail ==
  ASSUME NEW H, NEW w \in Seq(Frame), NEW O, NEW Q, w # <<>>,
         SettlesHead(w, O, Q), Current(H, w, O), PublishSound(w, O)
  PROVE  PublishSound(Tail(w), Q)
<1>1. \A n \in 1..Len(Tail(w)) : n \in Nat /\ n + 1 \in 1..Len(w) /\ Tail(w)[n] = w[n + 1]
  OBVIOUS
<1>2. ASSUME NEW n \in 1..Len(Tail(w)), Tail(w)[n].kind = "publish", NEW h \in Tail(w)[n].tree
      PROVE  /\ AckedLater(Tail(w), n, Q, h)
             /\ \A m \in 1..Len(Tail(w)) :
                   Tail(w)[m].kind = "publish" /\ h \in Tail(w)[m].tree => m = n
  <2>1. AckedLater(w, n + 1, O, h)
    BY <1>1, <1>2 DEF PublishSound
  <2>2. AckedLater(Tail(w), n, Q, h)
    BY <1>1, <2>1, AckedTail
  <2>3. ASSUME NEW m \in 1..Len(Tail(w)), Tail(w)[m].kind = "publish", h \in Tail(w)[m].tree
        PROVE  m = n
    <3>1. m + 1 = n + 1
      BY <1>1, <1>2, <2>3 DEF PublishSound
    <3>. QED
      BY <3>1
  <2>. QED
    BY <2>2, <2>3
<1>. QED
  BY <1>2 DEF PublishSound

-----------------------------------------------------------------------------

ChannelInv(i) ==
    Current(HASHES[i], wire[i], out[i]) /\ PublishSound(wire[i], out[i])

(* A message is in the hands of one channel, once. *)
OneDelivery ==
    /\ \A i \in Instance : \A d \in out[i] : message[d.hash] = "delivered"
    /\ \A i, j \in Instance : \A d \in out[i], e \in out[j] :
          d.hash = e.hash => i = j /\ d = e

(* A tree that holds h is on its way; h will not be put into another tree, *)
(* because its message is gone, or its ack is on its way.                  *)
PendingTree(h) ==
    \E i \in Instance : \E n \in 1..Len(wire[i]) :
        wire[i][n].kind = "publish" /\ h \in wire[i][n].tree

Spent(h) ==
    \/ message[h] = "acked"
    \/ \E i \in Instance : AckedLater(wire[i], 0, out[i], h)

Count(holds) == IF holds THEN 1 ELSE 0

(* Every tree that holds h, but for one, has cost a fault; and that one    *)
(* too, as long as h may still get into another.                           *)
TreesCounted(h) ==
    Cardinality(TreesHolding(h)) + Count(PendingTree(h)) <= faults + Count(Spent(h))

WorkInv ==
    /\ AckInv
    /\ \A i \in Instance : ChannelInv(i)
    /\ OneDelivery
    /\ \A h \in Hash : TreesCounted(h)

(* A hash that is still in HASHES is in no tree on a wire, and no ack of   *)
(* it is: its message was delivered since.                                 *)
LEMMA WorkIsFresh ==
  ASSUME WorkInv, NEW i \in Instance, NEW k \in 1..Len(HASHES[i])
  PROVE  ~Spent(HASHES[i][k].hash) /\ ~PendingTree(HASHES[i][k].hash)
<1>. DEFINE d == HASHES[i][k]
            h == d.hash
<1>1. d \in out[i] /\ ChannelInv(i) /\ OneDelivery
  BY DEF WorkInv, ChannelInv, Current
<1>2. ASSUME NEW j \in Instance, AckedLater(wire[j], 0, out[j], h)
      PROVE  FALSE
  <2>1. PICK m \in 1..Len(wire[j]), e \in out[j] :
            wire[j][m].kind = "ack" /\ wire[j][m].tag = e.tag /\ e.hash = h
    BY <1>2 DEF AckedLater
  <2>2. j = i /\ e = d
    BY <1>1, <2>1 DEF OneDelivery
  <2>. QED
    BY <1>1, <2>1, <2>2 DEF ChannelInv, Current
<1>3. ~Spent(h)
  BY <1>1, <1>2 DEF Spent, OneDelivery
<1>4. ASSUME NEW j \in Instance, NEW n \in 1..Len(wire[j]),
             wire[j][n].kind = "publish", h \in wire[j][n].tree
      PROVE  FALSE
  <2>1. AckedLater(wire[j], n, out[j], h)
    BY <1>4 DEF WorkInv, ChannelInv, PublishSound
  <2>2. AckedLater(wire[j], 0, out[j], h)
    BY <2>1 DEF AckedLater
  <2>. QED
    BY <1>2, <2>2
<1>. QED
  BY <1>3, <1>4 DEF PendingTree

(* The steps of one instance leave the others' channels alone. *)
LEMMA OthersUntouched ==
  ASSUME TypeOK, NEW i \in Instance, NEW j \in Instance, i # j,
         \/ \E h \in Hash : ConsumeHashMessage(j, h)
         \/ Aggregate(j) \/ FailAggregation(j) \/ CloseChannel(j)
         \/ ReceivePublish(j) \/ ReceiveSettle(j)
  PROVE  out'[i] = out[i] /\ HASHES'[i] = HASHES[i] /\ wire'[i] = wire[i]
BY DEF TypeOK, ConsumeHashMessage, Aggregate, FailAggregation, CloseChannel, Requeue,
       ReceivePublish, ReceiveSettle, broker

(* Steps that touch no channel. *)
Elsewhere ==
    \/ UNCHANGED vars
    \/ \E h \in Hash : SubmitHash(h)
    \/ \E i \in Instance : OpenChannel(i)
    \/ \E t \in DOMAIN trees : StoreAggStates(t)

LEMMA StepsOfNext ==
  [Next]_vars =>
     \/ Elsewhere
     \/ \E i \in Instance :
           \/ \E h \in Hash : ConsumeHashMessage(i, h)
           \/ Aggregate(i) \/ FailAggregation(i) \/ CloseChannel(i)
           \/ ReceivePublish(i) \/ ReceiveSettle(i)
BY DEF Next, InstanceStep, Elsewhere

(* A delivery appears in HASHES and on the channel. *)
LEMMA ConsumeChannelInv ==
  ASSUME WorkInv, NEW i \in Instance, NEW h \in Hash, ConsumeHashMessage(i, h)
  PROVE  ChannelInv(i)'
<1>. DEFINE d == [tag |-> lastTag[i] + 1, hash |-> h]
<1>1. /\ HASHES[i] \in Seq(Delivery) /\ wire[i] \in Seq(Frame) /\ lastTag[i] \in Nat
      /\ out[i] \in SUBSET Delivery /\ ChannelInv(i)
      /\ \A e \in out[i] : e.tag <= lastTag[i]
  BY DEF WorkInv, AckInv, TypeOK, TagInv, Names
<1>2. /\ out'[i] = out[i] \cup {d} /\ HASHES'[i] = Append(HASHES[i], d)
      /\ wire'[i] = wire[i]
  BY DEF ConsumeHashMessage, WorkInv, AckInv, TypeOK
<1>3. d \in Delivery /\ d.tag = lastTag[i] + 1
  BY <1>1 DEF Delivery
<1>. HIDE DEF d
<1>4. Current(Append(HASHES[i], d), wire[i], out[i] \cup {d})
  BY <1>1, <1>3, CurrentDelivery DEF ChannelInv
<1>5. PublishSound(wire[i], out[i] \cup {d})
  BY <1>1, PublishGrows DEF ChannelInv
<1>. QED
  BY <1>2, <1>4, <1>5 DEF ChannelInv

(* What an aggregation, or a failed one, does to the wire and to HASHES. *)
BatchWritten(i, p, kind) ==
    /\ out' = out /\ HASHES'[i] = Rest(i)
    /\ Extended(wire'[i], wire[i], Batch(i), p, kind)
    /\ \A j \in Instance : j # i => wire'[j] = wire[j]

LEMMA AggregateWrites ==
  ASSUME TypeOK, NEW i \in Instance
  PROVE  /\ Aggregate(i) => BatchWritten(i, 1, "ack")
         /\ FailAggregation(i) => BatchWritten(i, 0, "nack")
<1>1. wire[i] \in Seq(Frame) /\ Batch(i) \in Seq(Delivery)
  BY BatchType DEF TypeOK
<1>2. ASSUME Aggregate(i)
      PROVE  BatchWritten(i, 1, "ack")
  <2>1. wire'[i] = wire[i] \o <<Publish(HashesOf(Batch(i)))>> \o SettleAll("ack", Batch(i))
    BY <1>2 DEF Aggregate, TypeOK
  <2>2. Extended(wire'[i], wire[i], Batch(i), 1, "ack")
    BY <1>1, <2>1, AggregationFrames
  <2>. QED
    BY <1>2, <2>2 DEF Aggregate, TypeOK, BatchWritten, broker
<1>3. ASSUME FailAggregation(i)
      PROVE  BatchWritten(i, 0, "nack")
  <2>1. wire'[i] = wire[i] \o SettleAll("nack", Batch(i))
    BY <1>3 DEF FailAggregation, TypeOK
  <2>2. Extended(wire'[i], wire[i], Batch(i), 0, "nack")
    BY <1>1, <2>1, FailureFrames
  <2>. QED
    BY <1>3, <2>2 DEF FailAggregation, TypeOK, BatchWritten, broker
<1>. QED
  BY <1>2, <1>3

(* The batch's deliveries are the channel's, and its hashes are fresh. *)
LEMMA BatchIsFresh ==
  ASSUME WorkInv, NEW i \in Instance
  PROVE  /\ Batch(i) \in Seq(Delivery) /\ HashesOf(Batch(i)) \in SUBSET Hash
         /\ \A k \in 1..Len(Batch(i)) : Batch(i)[k] \in out[i]
         /\ \A h \in HashesOf(Batch(i)) : ~Spent(h) /\ ~PendingTree(h)
<1>1. TypeOK /\ ChannelInv(i)
  BY DEF WorkInv, AckInv
<1>2. Batch(i) \in Seq(Delivery)
  BY <1>1, BatchType
<1>3. \A k \in 1..Len(Batch(i)) : k \in 1..Len(HASHES[i]) /\ Batch(i)[k] = HASHES[i][k]
  BY <1>1, BatchType
<1>4. Batch(i) \in [1..Len(Batch(i)) -> Delivery] /\ DOMAIN Batch(i) = 1..Len(Batch(i))
  BY <1>2, LenProperties
<1>5. HashesOf(Batch(i)) \in SUBSET Hash
  BY <1>4 DEF HashesOf, Delivery
<1>6. \A k \in 1..Len(Batch(i)) : Batch(i)[k] \in out[i]
  BY <1>1, <1>3 DEF ChannelInv, Current
<1>7. \A h \in HashesOf(Batch(i)) : ~Spent(h) /\ ~PendingTree(h)
  BY <1>3, <1>4, WorkIsFresh DEF HashesOf
<1>. QED
  BY <1>2, <1>5, <1>6, <1>7

LEMMA BatchChannelInv ==
  ASSUME WorkInv, NEW i \in Instance, NEW p \in Trees, NEW kind \in {"ack", "nack"},
         TreeIsAcked(p, kind), BatchWritten(i, p, kind)
  PROVE  ChannelInv(i)'
<1>1. /\ TypeOK /\ ChannelInv(i)
      /\ HASHES[i] \in Seq(Delivery) /\ wire[i] \in Seq(Frame)
  BY DEF WorkInv, AckInv, TypeOK
<1>2. /\ out'[i] = out[i] /\ HASHES'[i] = Rest(i)
      /\ Extended(wire'[i], wire[i], Batch(i), p, kind)
  BY DEF BatchWritten
<1>3. Current(Rest(i), wire'[i], out[i])
  <2>1. Splits(HASHES[i], Batch(i), Rest(i))
    BY <1>1, SpliceSplits
  <2>. QED
    BY <1>1, <1>2, <2>1, CurrentBatch DEF ChannelInv
<1>4. PublishSound(wire'[i], out[i])
  <2>1. Fresh(wire[i], Batch(i))
    BY BatchIsFresh DEF PendingTree, Fresh
  <2>2. Batch(i) \in Seq(Delivery) /\ \A k \in 1..Len(Batch(i)) : Batch(i)[k] \in out[i]
    BY BatchIsFresh
  <2>. QED
    BY <1>1, <1>2, <2>1, <2>2, PublishBatch DEF ChannelInv
<1>. QED
  BY <1>2, <1>3, <1>4 DEF ChannelInv

(* A received frame: a tree, or a settlement of what it names. *)
LEMMA ReceiveSettlesHead ==
  ASSUME TypeOK, NEW i \in Instance, ReceivePublish(i) \/ ReceiveSettle(i)
  PROVE  /\ wire[i] \in Seq(Frame) /\ wire[i] # <<>> /\ wire'[i] = Tail(wire[i])
         /\ HASHES' = HASHES /\ SettlesHead(wire[i], out[i], out'[i])
BY DEF TypeOK, ReceivePublish, ReceiveSettle, SettlesHead, broker

LEMMA ReceiveChannelInv ==
  ASSUME WorkInv, NEW i \in Instance, ReceivePublish(i) \/ ReceiveSettle(i)
  PROVE  ChannelInv(i)'
<1>1. TypeOK /\ ChannelInv(i) /\ HASHES[i] \in Seq(Delivery)
  BY DEF WorkInv, AckInv, TypeOK
<1>2. /\ wire[i] \in Seq(Frame) /\ wire[i] # <<>> /\ wire'[i] = Tail(wire[i])
      /\ HASHES' = HASHES /\ SettlesHead(wire[i], out[i], out'[i])
  BY <1>1, ReceiveSettlesHead
<1>3. Current(HASHES[i], Tail(wire[i]), out'[i]) /\ PublishSound(Tail(wire[i]), out'[i])
  BY <1>1, <1>2, CurrentTail, PublishTail DEF ChannelInv
<1>. QED
  BY <1>2, <1>3 DEF ChannelInv

(* Every step keeps what is known of every channel. *)
LEMMA NextWork ==
  ASSUME WorkInv, [Next]_vars, NEW i \in Instance
  PROVE  ChannelInv(i)'
<1>0. TypeOK /\ ChannelInv(i)
  BY DEF WorkInv, AckInv
<1>1. CASE out'[i] = out[i] /\ HASHES'[i] = HASHES[i] /\ wire'[i] = wire[i]
  BY <1>0, <1>1 DEF ChannelInv
<1>2. CASE Elsewhere
  BY <1>1, <1>2 DEF Elsewhere, vars, broker, SubmitHash, OpenChannel, StoreAggStates
<1>3. CASE CloseChannel(i)
  <2>1. out'[i] = {} /\ HASHES'[i] = <<>> /\ wire'[i] = <<>> /\ Len(<<>>) = 0
    BY <1>0, <1>3 DEF CloseChannel, Requeue, TypeOK
  <2>. QED
    BY <2>1 DEF ChannelInv, Current, PublishSound
<1>4. CASE Aggregate(i) \/ FailAggregation(i)
  BY <1>0, <1>4, AggregateWrites, BatchChannelInv DEF Trees, TreeIsAcked
<1>. QED
  BY <1>0, <1>1, <1>2, <1>3, <1>4, StepsOfNext, OthersUntouched, ConsumeChannelInv,
     ReceiveChannelInv

(* A message is delivered only when no channel has it. *)
LEMMA NextOneDelivery ==
  ASSUME WorkInv, [Next]_vars
  PROVE  OneDelivery'
<1>0. /\ TypeOK /\ OneDelivery
      /\ message \in [Hash -> {"unsent", "ready", "delivered", "acked"}]
      /\ out \in [Instance -> SUBSET Delivery]
      /\ \A i \in Instance : \A d \in out[i] : d.hash \in Hash
  <2>1. /\ TypeOK /\ OneDelivery
        /\ message \in [Hash -> {"unsent", "ready", "delivered", "acked"}]
        /\ out \in [Instance -> SUBSET Delivery]
    BY DEF WorkInv, AckInv, TypeOK
  <2>2. \A d \in Delivery : d.hash \in Hash
    BY DEF Delivery
  <2>. QED
    BY <2>1, <2>2
<1>1. CASE out' = out /\ \A h \in Hash : message[h] = "delivered" => message'[h] = "delivered"
  BY <1>0, <1>1 DEF OneDelivery
<1>2. CASE Elsewhere
  BY <1>0, <1>1, <1>2 DEF Elsewhere, vars, broker, SubmitHash, OpenChannel, StoreAggStates
<1>3. ASSUME NEW i \in Instance, Aggregate(i) \/ FailAggregation(i) \/ ReceivePublish(i)
      PROVE  OneDelivery'
  BY <1>1, <1>3 DEF Aggregate, FailAggregation, ReceivePublish, broker
<1>4. ASSUME NEW i \in Instance, NEW h \in Hash, ConsumeHashMessage(i, h)
      PROVE  OneDelivery'
  <2>. DEFINE d == [tag |-> lastTag[i] + 1, hash |-> h]
  <2>1. /\ out' = [out EXCEPT ![i] = @ \cup {d}]
        /\ message' = [message EXCEPT ![h] = "delivered"] /\ message[h] = "ready"
        /\ d.hash = h
    BY <1>4 DEF ConsumeHashMessage
  <2>. HIDE DEF d
  <2>2. \A j \in Instance : \A e \in out'[j] :
            \/ e \in out[j] /\ e.hash # h /\ e.hash \in Hash
            \/ j = i /\ e = d
    BY <1>0, <2>1 DEF OneDelivery
  <2>3. \A j \in Instance : \A e \in out'[j] : message'[e.hash] = "delivered"
    BY <1>0, <2>1, <2>2 DEF OneDelivery
  <2>4. \A j, k \in Instance : \A e \in out'[j], f \in out'[k] :
            e.hash = f.hash => j = k /\ e = f
    BY <1>0, <2>1, <2>2 DEF OneDelivery
  <2>. QED
    BY <2>3, <2>4 DEF OneDelivery
<1>5. ASSUME NEW i \in Instance, CloseChannel(i)
      PROVE  OneDelivery'
  <2>1. /\ out' = [out EXCEPT ![i] = {}]
        /\ \A h \in Hash : message'[h] = message[h] \/ \E d \in out[i] : d.hash = h
    BY <1>5 DEF CloseChannel, Requeue
  <2>2. \A j \in Instance : \A e \in out'[j] : e \in out[j] /\ j # i
    BY <1>0, <2>1
  <2>3. \A j \in Instance : \A e \in out'[j] : message'[e.hash] = "delivered"
    BY <1>0, <2>1, <2>2 DEF OneDelivery
  <2>. QED
    BY <1>0, <2>2, <2>3 DEF OneDelivery
<1>6. ASSUME NEW i \in Instance, ReceiveSettle(i)
      PROVE  OneDelivery'
  <2>. DEFINE settled == {d \in out[i] : d.tag = Head(wire[i]).tag}
  <2>1. /\ out' = [out EXCEPT ![i] = @ \ settled]
        /\ \A h \in Hash : message'[h] = message[h] \/ \E d \in settled : d.hash = h
    BY <1>6 DEF ReceiveSettle
  <2>2. settled \subseteq out[i]
    OBVIOUS
  <2>. HIDE DEF settled
  <2>3. \A j \in Instance : \A e \in out'[j] : e \in out[j] /\ (j = i => e \notin settled)
    BY <1>0, <2>1
  <2>4. \A j \in Instance : \A e \in out'[j] : message'[e.hash] = "delivered"
    BY <1>0, <2>1, <2>2, <2>3 DEF OneDelivery
  <2>. QED
    BY <1>0, <2>3, <2>4 DEF OneDelivery
<1>. QED
  BY <1>2, <1>3, <1>4, <1>5, <1>6, StepsOfNext

-----------------------------------------------------------------------------
(* Counting the trees *)

LEMMA TreesFinite ==
  ASSUME TypeOK, NEW h
  PROVE  IsFiniteSet(TreesHolding(h)) /\ Cardinality(TreesHolding(h)) \in Nat /\ faults \in Nat
<1>1. DOMAIN trees = 1..Len(trees) /\ Len(trees) \in Nat
  BY LenProperties DEF TypeOK
<1>2. TreesHolding(h) \subseteq 1..Len(trees)
  BY <1>1 DEF TreesHolding
<1>3. IsFiniteSet(1..Len(trees))
  BY <1>1, FS_Interval
<1>4. IsFiniteSet(TreesHolding(h))
  BY <1>2, <1>3, FS_Subset
<1>. QED
  BY <1>4, FS_CardinalityType DEF TypeOK

(* A step may keep everything, or pay for what it changes with a fault. *)
LEMMA CountKept ==
  ASSUME WorkInv, NEW h \in Hash, trees' = trees, PendingTree(h)' => PendingTree(h),
         \/ faults' = faults /\ (Spent(h) => Spent(h)')
         \/ faults' = faults + 1
  PROVE  TreesCounted(h)'
<1>1. /\ TreesHolding(h)' = TreesHolding(h) /\ TreesCounted(h)
      /\ Cardinality(TreesHolding(h)) \in Nat /\ faults \in Nat
  BY TreesFinite DEF WorkInv, AckInv, TreesHolding
<1>. QED
  BY <1>1 DEF TreesCounted, Count

(* With the batch's tree h is pending and spent, where it was neither. *)
LEMMA CountBatch ==
  ASSUME WorkInv, NEW i \in Instance, Aggregate(i), NEW h \in Hash
  PROVE  TreesCounted(h)'
<1>. DEFINE b == Batch(i)
<1>1. /\ TypeOK /\ TreesCounted(h) /\ wire[i] \in Seq(Frame) /\ b \in Seq(Delivery)
      /\ Cardinality(TreesHolding(h)) \in Nat /\ faults \in Nat
  BY TreesFinite, BatchType DEF WorkInv, AckInv, TypeOK
<1>2. /\ out' = out /\ Extended(wire'[i], wire[i], b, 1, "ack")
      /\ \A j \in Instance : j # i => wire'[j] = wire[j]
      /\ trees' = trees /\ faults' = faults /\ message' = message
  BY <1>1, AggregateWrites DEF BatchWritten, Aggregate, broker
<1>3. Len(wire[i]) \in Nat /\ Len(b) \in Nat
      /\ Len(wire'[i]) = Len(wire[i]) + 1 + Len(b) /\ DOMAIN b = 1..Len(b)
      /\ \A n \in 1..Len(wire[i]) : wire'[i][n] = wire[i][n]
  BY <1>1, <1>2, LenProperties DEF Extended
<1>4. CASE h \in HashesOf(b)
  <2>1. ~Spent(h) /\ ~PendingTree(h)
    BY <1>4, BatchIsFresh
  <2>2. PICK k \in 1..Len(b) : b[k].hash = h
    BY <1>3, <1>4 DEF HashesOf
  <2>3. AckedLater(wire'[i], 0, out[i], h)
    <3>1. /\ Len(wire[i]) + 1 + k \in 1..Len(wire'[i]) /\ Len(wire[i]) + 1 + k > 0
          /\ b[k] \in out[i]
      BY <1>3, BatchIsFresh
    <3>2. wire'[i][Len(wire[i]) + 1 + k] = Settle("ack", b[k].tag)
      BY <1>2 DEF Extended
    <3>. QED
      BY <2>2, <3>1, <3>2 DEF AckedLater, Settle
  <2>4. Spent(h)'
    BY <1>2, <2>3 DEF Spent
  <2>5. TreesHolding(h)' = TreesHolding(h)
    BY <1>2 DEF TreesHolding
  <2>. QED
    BY <1>1, <1>2, <2>1, <2>4, <2>5 DEF TreesCounted, Count
<1>5. CASE h \notin HashesOf(b)
  <2>1. ASSUME NEW j \in Instance, NEW n \in 1..Len(wire'[j]),
               wire'[j][n].kind = "publish", h \in wire'[j][n].tree
        PROVE  PendingTree(h)
    <3>1. CASE j = i
      <4>1. Origin(wire'[i], wire[i], b, 1, "ack", n)
        <5>1. n \in 1..Len(wire'[i]) /\ 1 \in Trees
          BY <2>1, <3>1 DEF Trees
        <5>. QED
          BY <1>1, <1>2, <5>1, FrameOrigin
      <4>2. wire'[i][n].kind = "publish" /\ h \in wire'[i][n].tree
        BY <2>1, <3>1
      <4>3. wire'[i][n] # Publish(HashesOf(b))
        BY <1>5, <4>2 DEF Publish
      <4>4. \A t : wire'[i][n] # Settle("ack", t)
        BY <4>2 DEF Settle
      <4>5. n \in 1..Len(wire[i]) /\ wire'[i][n] = wire[i][n]
        BY <4>1, <4>3, <4>4 DEF Origin
      <4>. QED
        BY <3>1, <4>2, <4>5 DEF PendingTree
    <3>2. CASE j # i
      BY <1>2, <2>1, <3>2 DEF PendingTree
    <3>. QED
      BY <3>1, <3>2
  <2>2. PendingTree(h)' => PendingTree(h)
    BY <2>1 DEF PendingTree
  <2>3. AckedLater(wire[i], 0, out[i], h) => AckedLater(wire'[i], 0, out[i], h)
    BY <1>3 DEF AckedLater
  <2>4. Spent(h) => Spent(h)'
    BY <1>2, <2>3 DEF Spent
  <2>. QED
    BY <1>2, <2>2, <2>4, CountKept
<1>. QED
  BY <1>4, <1>5

(* A failed aggregation and a lost channel cost a fault. *)
LEMMA CountFault ==
  ASSUME WorkInv, NEW i \in Instance, FailAggregation(i) \/ CloseChannel(i), NEW h \in Hash
  PROVE  TreesCounted(h)'
<1>1. TypeOK /\ wire[i] \in Seq(Frame) /\ Batch(i) \in Seq(Delivery)
  BY BatchType DEF WorkInv, AckInv, TypeOK
<1>2. trees' = trees /\ faults' = faults + 1
  BY DEF FailAggregation, CloseChannel, Fault
<1>3. ASSUME NEW j \in Instance, NEW n \in 1..Len(wire'[j]), wire'[j][n].kind = "publish"
      PROVE  n \in 1..Len(wire[j]) /\ wire'[j][n] = wire[j][n]
  <2>1. CASE j # i
    BY <1>1, <1>3, <2>1, OthersUntouched
  <2>2. CASE j = i /\ FailAggregation(i)
    <3>0. /\ n \in 1..Len(wire'[i]) /\ 0 \in Trees
          /\ Extended(wire'[i], wire[i], Batch(i), 0, "nack")
      BY <1>1, <1>3, <2>2, AggregateWrites DEF BatchWritten, Trees
    <3>1. Origin(wire'[i], wire[i], Batch(i), 0, "nack", n)
      BY <1>1, <3>0, FrameOrigin
    <3>2. \A t : wire'[i][n] # Settle("nack", t)
      BY <1>3, <2>2 DEF Settle
    <3>3. n \in 1..Len(wire[i]) /\ wire'[i][n] = wire[i][n]
      BY <3>1, <3>2 DEF Origin
    <3>. QED
      BY <2>2, <3>3
  <2>3. CASE j = i /\ CloseChannel(i)
    <3>1. Len(wire'[i]) = 0
      BY <1>1, <2>3 DEF CloseChannel, TypeOK
    <3>. QED
      BY <1>3, <2>3, <3>1
  <2>. QED
    BY <2>1, <2>2, <2>3
<1>4. PendingTree(h)' => PendingTree(h)
  BY <1>3 DEF PendingTree
<1>. QED
  BY <1>2, <1>4, CountKept

(* A received frame leaves what is spent spent: an ack behind it is still  *)
(* on the wire, and an ack that is received makes RabbitMQ forget.         *)
LEMMA ReceiveKeepsSpent ==
  ASSUME WorkInv, NEW i \in Instance, ReceivePublish(i) \/ ReceiveSettle(i),
         NEW h \in Hash, Spent(h)
  PROVE  Spent(h)'
<1>0. /\ TypeOK /\ OneDelivery /\ ChannelInv(i)
      /\ wire[i] \in Seq(Frame) /\ wire[i] # <<>> /\ wire'[i] = Tail(wire[i])
      /\ SettlesHead(wire[i], out[i], out'[i])
  BY ReceiveSettlesHead DEF WorkInv, AckInv
<1>1. CASE message[h] = "acked"
  <2>1. \A d \in out[i] : d.hash # h
    BY <1>0, <1>1 DEF OneDelivery
  <2>2. message'[h] = "acked"
    BY <1>1, <2>1 DEF ReceivePublish, ReceiveSettle, broker
  <2>. QED
    BY <2>2 DEF Spent
<1>2. ASSUME NEW j \in Instance, j # i, AckedLater(wire[j], 0, out[j], h)
      PROVE  Spent(h)'
  <2>1. wire'[j] = wire[j] /\ out'[j] = out[j]
    BY <1>0, <1>2, OthersUntouched
  <2>. QED
    BY <1>2, <2>1 DEF Spent
<1>3. CASE AckedLater(wire[i], 0, out[i], h)
  <2>1. PICK m \in 1..Len(wire[i]), d \in out[i] :
            m > 0 /\ wire[i][m].kind = "ack" /\ wire[i][m].tag = d.tag /\ d.hash = h
    BY <1>3 DEF AckedLater
  <2>2. CASE m = 1
    <3>1. Head(wire[i]) = wire[i][1]
      BY <1>0
    <3>2. message'[h] = "acked"
      BY <2>1, <2>2, <3>1 DEF ReceivePublish, ReceiveSettle
    <3>. QED
      BY <3>2 DEF Spent
  <2>3. CASE m # 1
    <3>1. AckedLater(wire[i], 0 + 1, out[i], h)
      BY <2>1, <2>3 DEF AckedLater
    <3>2. AckedLater(Tail(wire[i]), 0, out'[i], h)
      BY <1>0, <3>1, AckedTail DEF ChannelInv
    <3>. QED
      BY <1>0, <3>2 DEF Spent
  <2>. QED
    BY <2>2, <2>3
<1>. QED
  BY <1>1, <1>2, <1>3 DEF Spent

(* A tree on a wire after a frame was received was there before. *)
LEMMA ReceiveTail ==
  ASSUME TypeOK, NEW i \in Instance, ReceivePublish(i) \/ ReceiveSettle(i)
  PROVE  \A j \in Instance : \A n \in 1..Len(wire'[j]) :
            \/ j = i /\ n + 1 \in 1..Len(wire[j]) /\ wire'[j][n] = wire[j][n + 1]
            \/ j # i /\ n \in 1..Len(wire[j]) /\ wire'[j][n] = wire[j][n]
<1>1. wire[i] \in Seq(Frame) /\ wire[i] # <<>> /\ wire'[i] = Tail(wire[i])
  BY ReceiveSettlesHead
<1>2. \A n \in 1..Len(wire'[i]) : n + 1 \in 1..Len(wire[i]) /\ wire'[i][n] = wire[i][n + 1]
  BY <1>1
<1>. QED
  BY <1>2, OthersUntouched

LEMMA CountReceive ==
  ASSUME WorkInv, NEW i \in Instance, ReceivePublish(i) \/ ReceiveSettle(i), NEW h \in Hash
  PROVE  TreesCounted(h)'
<1>0. TypeOK /\ ChannelInv(i) /\ TreesCounted(h) /\ OneDelivery
      /\ Cardinality(TreesHolding(h)) \in Nat /\ faults \in Nat
      /\ IsFiniteSet(TreesHolding(h)) /\ trees \in Seq(SUBSET Hash)
      /\ wire[i] \in Seq(Frame) /\ wire[i] # <<>>
  BY TreesFinite, ReceiveSettlesHead DEF WorkInv, AckInv, TypeOK
<1>1. PendingTree(h)' => PendingTree(h)
  BY <1>0, ReceiveTail DEF PendingTree
<1>2. Spent(h) => Spent(h)'
  BY ReceiveKeepsSpent
<1>3. faults' = faults
  BY DEF ReceivePublish, ReceiveSettle
<1>4. CASE ReceiveSettle(i)
  BY <1>1, <1>2, <1>3, <1>4, CountKept DEF ReceiveSettle
<1>5. CASE ReceivePublish(i)
  <2>. DEFINE t == Head(wire[i]).tree
              N == Len(trees)
  <2>1. trees' = Append(trees, t) /\ Head(wire[i]).kind = "publish"
        /\ Head(wire[i]) = wire[i][1] /\ 1 \in 1..Len(wire[i])
    BY <1>0, <1>5 DEF ReceivePublish
  <2>2. t \in SUBSET Hash
    <3>1. Head(wire[i]) \in Frame
      BY <1>0
    <3>. QED
      BY <3>1 DEF Frame
  <2>3. /\ DOMAIN trees' = 1..(N + 1) /\ N \in Nat /\ DOMAIN trees = 1..N
        /\ trees'[N + 1] = t /\ \A k \in 1..N : trees'[k] = trees[k]
    <3>. HIDE DEF t
    <3>. QED
      BY <1>0, <2>1, <2>2
  <2>4. CASE h \notin t
    <3>1. TreesHolding(h)' = TreesHolding(h)
      <4>. HIDE DEF t, N
      <4>. QED
        BY <2>3, <2>4 DEF TreesHolding
    <3>. QED
      BY <1>0, <1>1, <1>2, <1>3, <3>1 DEF TreesCounted, Count
  <2>5. CASE h \in t
    <3>1. TreesHolding(h)' = TreesHolding(h) \cup {N + 1} /\ N + 1 \notin TreesHolding(h)
      <4>. HIDE DEF t, N
      <4>. QED
        BY <2>3, <2>5 DEF TreesHolding
    <3>2. Cardinality(TreesHolding(h)') = Cardinality(TreesHolding(h)) + 1
      BY <1>0, <3>1, FS_AddElement
    <3>3. PendingTree(h)
      BY <2>1, <2>5 DEF PendingTree
    <3>4. ~PendingTree(h)'
      <4>. SUFFICES ASSUME NEW j \in Instance, NEW n \in 1..Len(wire'[j]),
                           wire'[j][n].kind = "publish", h \in wire'[j][n].tree
                    PROVE  FALSE
        BY DEF PendingTree
      <4>1. CASE j = i
        <5>1. /\ n + 1 \in 1..Len(wire[i]) /\ wire[i][n + 1].kind = "publish"
              /\ h \in wire[i][n + 1].tree /\ n + 1 # 1
          BY <1>0, <4>1, ReceiveTail
        <5>. QED
          BY <1>0, <2>1, <2>5, <5>1 DEF ChannelInv, PublishSound
      <4>2. CASE j # i
        <5>1. /\ n \in 1..Len(wire[j]) /\ wire[j][n].kind = "publish" /\ h \in wire[j][n].tree
          BY <1>0, <4>2, ReceiveTail
        <5>2. AckedLater(wire[j], n, out[j], h) /\ AckedLater(wire[i], 1, out[i], h)
          BY <2>1, <2>5, <5>1 DEF WorkInv, ChannelInv, PublishSound
        <5>3. (\E d \in out[j] : d.hash = h) /\ (\E d \in out[i] : d.hash = h)
          BY <5>2 DEF AckedLater
        <5>. QED
          BY <1>0, <4>2, <5>3 DEF OneDelivery
      <4>. QED
        BY <4>1, <4>2
    <3>. QED
      BY <1>0, <1>2, <1>3, <3>2, <3>3, <3>4 DEF TreesCounted, Count
  <2>. QED
    BY <2>4, <2>5
<1>. QED
  BY <1>4, <1>5

(* Every step keeps the count. *)
LEMMA NextCount ==
  ASSUME WorkInv, [Next]_vars, NEW h \in Hash
  PROVE  TreesCounted(h)'
<1>0. TypeOK /\ message \in [Hash -> {"unsent", "ready", "delivered", "acked"}]
  BY DEF WorkInv, AckInv, TypeOK
<1>1. CASE Elsewhere
  <2>1. trees' = trees /\ faults' = faults /\ wire' = wire /\ out' = out
    BY <1>1 DEF Elsewhere, vars, broker, SubmitHash, OpenChannel, StoreAggStates
  <2>2. message[h] = "acked" => message'[h] = "acked"
    BY <1>0, <1>1 DEF Elsewhere, vars, broker, SubmitHash, OpenChannel, StoreAggStates
  <2>3. (PendingTree(h)' => PendingTree(h)) /\ (Spent(h) => Spent(h)')
    BY <2>1, <2>2 DEF PendingTree, Spent
  <2>. QED
    BY <2>1, <2>3, CountKept
<1>2. ASSUME NEW i \in Instance, NEW g \in Hash, ConsumeHashMessage(i, g)
      PROVE  TreesCounted(h)'
  <2>1. /\ trees' = trees /\ faults' = faults /\ wire' = wire
        /\ \A j \in Instance : out[j] \subseteq out'[j]
        /\ message[h] = "acked" => message'[h] = "acked"
    BY <1>0, <1>2 DEF ConsumeHashMessage, TypeOK
  <2>2. \A j \in Instance : AckedLater(wire[j], 0, out[j], h) => AckedLater(wire[j], 0, out'[j], h)
    BY <2>1 DEF AckedLater
  <2>3. (PendingTree(h)' => PendingTree(h)) /\ (Spent(h) => Spent(h)')
    BY <2>1, <2>2 DEF PendingTree, Spent
  <2>. QED
    BY <2>1, <2>3, CountKept
<1>. QED
  BY <1>1, <1>2, StepsOfNext, CountBatch, CountFault, CountReceive

(* The inductive invariant holds throughout. *)
LEMMA WorkInvariant == Spec => []WorkInv
<1>1. Init => WorkInv
  <2>. SUFFICES ASSUME Init PROVE WorkInv
    OBVIOUS
  <2>1. AckInv
    BY InitAckInv
  <2>2. \A i \in Instance : out[i] = {} /\ Len(HASHES[i]) = 0 /\ Len(wire[i]) = 0
    BY DEF Init
  <2>3. (\A i \in Instance : ChannelInv(i)) /\ OneDelivery
    BY <2>2 DEF ChannelInv, Current, PublishSound, OneDelivery
  <2>4. \A h \in Hash : TreesHolding(h) = {} /\ ~PendingTree(h) /\ faults = 0
    BY <2>2 DEF Init, TreesHolding, PendingTree
  <2>5. \A h \in Hash : TreesCounted(h)
    BY <2>4, FS_EmptySet DEF TreesCounted, Count
  <2>. QED
    BY <2>1, <2>3, <2>5 DEF WorkInv
<1>2. WorkInv /\ [Next]_vars => WorkInv'
  BY NextAckInv, NextWork, NextOneDelivery, NextCount DEF WorkInv
<1>. QED
  BY <1>1, <1>2, PTL DEF Spec

(* What is in HASHES or being settled belongs to the current channel, and  *)
(* is settled once, whatever channels are lost (consumeHashMessage, the    *)
(* close event and aggregateAsync).                                        *)
THEOREM WorkStaysCurrent == Spec => []WorkIsCurrent
<1>1. WorkInv => WorkIsCurrent
  <2>. SUFFICES ASSUME WorkInv, NEW i \in Instance
                PROVE  /\ \A k \in DOMAIN HASHES[i] : HASHES[i][k] \in out[i]
                       /\ \A n \in Settling(i) :
                             /\ \E d \in out[i] : d.tag = wire[i][n].tag
                             /\ \A k \in DOMAIN HASHES[i] : HASHES[i][k].tag # wire[i][n].tag
                             /\ \A m \in Settling(i) : wire[i][m].tag = wire[i][n].tag => m = n
    BY DEF WorkIsCurrent
  <2>1. HASHES[i] \in Seq(Delivery) /\ wire[i] \in Seq(Frame)
    BY DEF WorkInv, AckInv, TypeOK
  <2>2. DOMAIN HASHES[i] = 1..Len(HASHES[i]) /\ DOMAIN wire[i] = 1..Len(wire[i])
    BY <2>1, LenProperties
  <2>. QED
    BY <2>2 DEF WorkInv, ChannelInv, Current, Settling
<1>. QED
  BY <1>1, WorkInvariant, PTL

(* Every tree a hash gets into beyond the first has cost a lost channel or *)
(* a failed aggregation (aggregateAsync).                                  *)
THEOREM ExtraTreesCostFaults == Spec => []ExtraTreesNeedFaults
<1>1. WorkInv => ExtraTreesNeedFaults
  <2>. SUFFICES ASSUME WorkInv, NEW h \in Hash
                PROVE  Cardinality(TreesHolding(h)) <= 1 + faults
    BY DEF ExtraTreesNeedFaults
  <2>1. TreesCounted(h) /\ Cardinality(TreesHolding(h)) \in Nat /\ faults \in Nat
    BY TreesFinite DEF WorkInv, AckInv
  <2>. QED
    BY <2>1 DEF TreesCounted, Count
<1>. QED
  BY <1>1, WorkInvariant, PTL
=============================================================================
