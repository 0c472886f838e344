----------------------- MODULE TaskAccumulatorProofs -----------------------
(***************************************************************************)
(* Proofs about TaskAccumulator, for any number of messages and kinds, any *)
(* size of a batch, and any number of failures.                            *)
(***************************************************************************)
EXTENDS TaskAccumulator, SequenceTheorems, FiniteSetTheorems, TLAPS

(* What a drain splices off a pool, and what stays in it. *)
LEMMA BatchType ==
  ASSUME NEW items \in Seq(Delivery)
  PROVE  /\ Batch(items) \in Seq(Delivery) /\ Rest(items) \in Seq(Delivery)
         /\ \A n \in DOMAIN Rest(items) : \E j \in DOMAIN items : Rest(items)[n] = items[j]
<1>. DEFINE top == Smaller(BatchSize, Len(items))
<1>1. /\ Len(items) \in Nat /\ DOMAIN items = 1..Len(items)
      /\ \A n \in 1..Len(items) : items[n] \in Delivery
  BY LenProperties
<1>2. top \in Nat /\ top <= Len(items)
  BY <1>1, BoundsAssumption DEF Smaller
<1>. HIDE DEF top
<1>3. SubSeq(items, 1, top) \in Seq(Delivery)
  BY <1>1, <1>2, SubSeqProperties
<1>4. /\ SubSeq(items, top + 1, Len(items)) \in Seq(Delivery)
      /\ Len(SubSeq(items, top + 1, Len(items))) = Len(items) - top
      /\ \A n \in 1..(Len(items) - top) :
            SubSeq(items, top + 1, Len(items))[n] = items[n + top]
  <2>. DEFINE t == SubSeq(items, top + 1, Len(items))
  <2>1. /\ t \in Seq(Delivery)
        /\ Len(t) = IF top + 1 <= Len(items) THEN Len(items) - (top + 1) + 1 ELSE 0
        /\ \A n \in 1..Len(items) - (top + 1) + 1 : t[n] = items[(top + 1) + n - 1]
    BY <1>1, <1>2, SubSeqProperties
  <2>. HIDE DEF t
  <2>2. \A a, b \in Nat : b <= a =>
           /\ (IF b + 1 <= a THEN a - (b + 1) + 1 ELSE 0) = a - b
           /\ a - (b + 1) + 1 = a - b
           /\ \A n \in 1..(a - b) : (b + 1) + n - 1 = n + b
    OBVIOUS
  <2>3. Len(t) = Len(items) - top
    BY <1>1, <1>2, <2>1, <2>2
  <2>4. \A n \in 1..(Len(items) - top) : t[n] = items[n + top]
    BY <1>1, <1>2, <2>1, <2>2
  <2>. QED
    BY <2>1, <2>3, <2>4 DEF t
<1>5. Batch(items) \in Seq(Delivery) /\ Rest(items) = SubSeq(items, top + 1, Len(items))
  BY <1>3 DEF Batch, Rest, top
<1>6. ASSUME NEW n \in DOMAIN Rest(items)
      PROVE  \E j \in DOMAIN items : Rest(items)[n] = items[j]
  <2>1. n \in 1..(Len(items) - top)
    BY <1>4, <1>5, LenProperties
  <2>2. n + top \in DOMAIN items
    BY <1>1, <1>2, <2>1
  <2>. QED
    BY <1>4, <1>5, <2>1, <2>2
<1>. QED
  BY <1>4, <1>5, <1>6

(* Math.ceil: a pool that is not empty needs a batch at least. *)
LEMMA BatchesNeededType ==
  ASSUME NEW items \in Seq(Delivery), items # <<>>
  PROVE  BatchesNeeded(items) \in Nat /\ BatchesNeeded(items) >= 1
<1>1. Len(items) \in Nat /\ Len(items) >= 1
  BY EmptySeq
<1>2. ASSUME NEW n \in Nat, n >= 1, NEW b \in Nat, b >= 1
      PROVE  (n + b - 1) \div b \in Nat /\ (n + b - 1) \div b >= 1
  <2>. DEFINE x == n + b - 1
              q == x \div b
              r == x % b
  <2>1. x \in Nat /\ x >= b /\ q \in Int /\ r \in Int /\ x = b * q + r /\ r <= b - 1
    BY <1>2
  <2>. HIDE DEF x, q, r
  <2>2. ASSUME q <= 0
        PROVE  b * q <= 0
    BY <1>2, <2>1, <2>2
  <2>3. b * q \in Int
    BY <2>1
  <2>4. q >= 1
    BY <1>2, <2>1, <2>2, <2>3
  <2>. QED
    BY <2>1, <2>4 DEF x, q
<1>3. BatchSize \in Nat /\ BatchSize >= 1
  BY BoundsAssumption
<1>. QED
  BY <1>1, <1>2, <1>3 DEF BatchesNeeded

(* The job of a drain holds the messages of its batch, in their order. *)
LEMMA JobType ==
  ASSUME NEW d \in Drain
  PROVE  /\ JobFor(d) \in Job
         /\ DOMAIN JobFor(d).batch = DOMAIN d.batch
         /\ \A n \in DOMAIN d.batch : JobFor(d).batch[n] = d.batch[n].msg
<1>1. d.batch \in Seq(Delivery)
  BY DEF Drain
<1>2. /\ Len(d.batch) \in Nat /\ DOMAIN d.batch = 1..Len(d.batch)
      /\ \A n \in 1..Len(d.batch) : d.batch[n] \in Delivery
  BY <1>1, LenProperties
<1>3. \A n \in 1..Len(d.batch) : d.batch[n].msg \in Message
  BY <1>2 DEF Delivery
<1>4. [n \in DOMAIN d.batch |-> d.batch[n].msg] \in Seq(Message)
  BY <1>2, <1>3, IsASeq
<1>. QED
  BY <1>4 DEF JobFor, Job

(* How often a message occurs in a job is a number. *)
LEMMA TimesType ==
  ASSUME NEW job \in Job, NEW m \in Message
  PROVE  Times(job, m) \in Nat
<1>1. job.batch \in Seq(Message)
  BY DEF Job
<1>2. Len(job.batch) \in Nat /\ DOMAIN job.batch = 1..Len(job.batch)
  BY <1>1, LenProperties
<1>3. IsFiniteSet(1..Len(job.batch))
  BY <1>2, FS_Interval
<1>4. {n \in DOMAIN job.batch : job.batch[n] = m} \subseteq 1..Len(job.batch)
  BY <1>2
<1>. QED
  BY <1>3, <1>4, FS_Subset, FS_CardinalityType DEF Times

(* The initial state has its type. *)
LEMMA InitTypeOK == Init => TypeOK
BY BoundsAssumption, EmptySeq DEF Init, TypeOK

(* Settling a batch keeps the types of what RabbitMQ knows. *)
LEMMA SettleType ==
  ASSUME TypeOK, NEW b, NEW outcome \in {"ready", "acked"}, Settle(b, outcome)
  PROVE  /\ message' \in [Message -> {"ready", "delivered", "acked"}]
         /\ \A d \in out' : d \in Delivery
         /\ lastTag' \in Nat /\ conn' \in Nat
         /\ channel' \in {"open", "lost", "closed"}
         /\ mistaken' \subseteq Message
<1>1. CASE channel = "lost" /\ UNCHANGED broker
  BY <1>1 DEF TypeOK, broker
<1>2. CASE SettleAs(b, outcome)
  <2>1. Settled(b) \subseteq out
    BY DEF Settled
  <2>2. MessagesOf(Settled(b)) \subseteq Message
    BY <2>1 DEF TypeOK, MessagesOf, Delivery
  <2>3. message' \in [Message -> {"ready", "delivered", "acked"}]
    BY <1>2 DEF TypeOK, SettleAs
  <2>4. \A d \in out' : d \in Delivery
    BY <1>2 DEF TypeOK, SettleAs
  <2>5. mistaken' \subseteq Message
    BY <1>2, <2>2 DEF TypeOK, SettleAs
  <2>. QED
    BY <1>2, <2>3, <2>4, <2>5 DEF TypeOK, SettleAs
<1>. QED
  BY <1>1, <1>2 DEF Settle

(* Going on with the next batch keeps the types of the drains and pools. *)
LEMMA NextBatchType ==
  ASSUME TypeOK, NEW d \in drains, NextBatch(d)
  PROVE  /\ pool' \in [Kind -> Seq(Delivery)]
         /\ DRAINING' \in [Kind -> BOOLEAN]
         /\ drains' \subseteq Drain
<1>1. d \in Drain /\ d.kind \in Kind /\ pool[d.kind] \in Seq(Delivery) /\ d.left \in Nat
  BY DEF TypeOK, Drain
<1>2. CASE d.left = 0 \/ pool[d.kind] = <<>>
  BY <1>2, <1>1 DEF NextBatch, TypeOK
<1>3. CASE d.left # 0 /\ pool[d.kind] # <<>>
  <2>1. Batch(pool[d.kind]) \in Seq(Delivery) /\ Rest(pool[d.kind]) \in Seq(Delivery)
    BY <1>1, BatchType
  <2>2. [kind |-> d.kind, batch |-> Batch(pool[d.kind]), left |-> d.left - 1] \in Drain
    <3>1. d.left - 1 \in Nat
      BY <1>1, <1>3
    <3>. QED
      BY <1>1, <2>1, <3>1 DEF Drain
  <2>3. drains' = (drains \ {d}) \cup
                     {[kind |-> d.kind, batch |-> Batch(pool[d.kind]), left |-> d.left - 1]}
    BY <1>3 DEF NextBatch
  <2>4. drains' \subseteq Drain
    BY <2>2, <2>3 DEF TypeOK
  <2>5. pool' = [pool EXCEPT ![d.kind] = Rest(pool[d.kind])] /\ DRAINING' = DRAINING
    BY <1>3 DEF NextBatch
  <2>. QED
    BY <2>1, <2>4, <2>5 DEF TypeOK
<1>. QED
  BY <1>2, <1>3

(* A job of a drain is appended. *)
LEMMA AppendJobType ==
  ASSUME TypeOK, NEW d \in drains, jobs' = Append(jobs, JobFor(d))
  PROVE  jobs' \in Seq(Job)
BY JobType, AppendProperties DEF TypeOK

(* Every step keeps the types. *)
LEMMA NextTypeOK == TypeOK /\ [Next]_vars => TypeOK'
<1>. SUFFICES ASSUME TypeOK, [Next]_vars PROVE TypeOK'
  OBVIOUS
<1>1. CASE UNCHANGED vars
  BY <1>1 DEF TypeOK, vars, broker, service, handler
<1>2. ASSUME NEW m \in Message, ConsumeMessage(m)
      PROVE  TypeOK'
  <2>1. [conn |-> conn, tag |-> lastTag + 1, msg |-> m] \in Delivery
    BY DEF TypeOK, Delivery
  <2>2. KindOf[m] \in Kind /\ pool[KindOf[m]] \in Seq(Delivery)
    BY KindAssumption DEF TypeOK
  <2>3. Append(pool[KindOf[m]], [conn |-> conn, tag |-> lastTag + 1, msg |-> m])
          \in Seq(Delivery)
    BY <2>1, <2>2, AppendProperties
  <2>4. pool' \in [Kind -> Seq(Delivery)]
    BY <1>2, <2>2, <2>3 DEF ConsumeMessage, TypeOK
  <2>. QED
    BY <1>2, <2>1, <2>4 DEF ConsumeMessage, TypeOK, handler
<1>3. ASSUME NEW k \in Kind, DrainPool(k)
      PROVE  TypeOK'
  <2>1. pool[k] \in Seq(Delivery) /\ pool[k] # <<>>
    BY <1>3 DEF DrainPool, TypeOK
  <2>2. /\ Batch(pool[k]) \in Seq(Delivery) /\ Rest(pool[k]) \in Seq(Delivery)
        /\ BatchesNeeded(pool[k]) - 1 \in Nat
    BY <2>1, BatchType, BatchesNeededType
  <2>3. [kind |-> k, batch |-> Batch(pool[k]), left |-> BatchesNeeded(pool[k]) - 1] \in Drain
    BY <2>2 DEF Drain
  <2>. QED
    BY <1>3, <2>2, <2>3 DEF DrainPool, TypeOK, broker, handler
<1>4. ASSUME NEW d \in drains, EnqueueBatch(d) \/ EnqueueFails(d)
      PROVE  TypeOK'
  <2>1. jobs' \in Seq(Job) /\ taskQueue' = taskQueue /\ applied' = applied
    BY <1>4, AppendJobType DEF EnqueueBatch, EnqueueFails, TypeOK
  <2>2. faults' \in 0..MaxFaults
    BY <1>4, BoundsAssumption DEF EnqueueBatch, EnqueueFails, Fault, TypeOK
  <2>3. CASE \E outcome \in {"ready", "acked"} : Settle(d.batch, outcome) /\ NextBatch(d)
    BY <2>1, <2>2, <2>3, SettleType, NextBatchType DEF TypeOK
  <2>4. CASE Reject(d)
    BY <2>1, <2>2, <2>4 DEF Reject, TypeOK, broker
  <2>. QED
    BY <1>4, <2>3, <2>4 DEF EnqueueBatch, EnqueueFails
<1>5. ASSUME NEW j \in DOMAIN jobs,
             \/ PerformJob(j) \/ PerformJobUnnoticed(j)
             \/ JobFails(j) \/ RequeueFailedJob(j)
      PROVE  TypeOK'
  <2>1. jobs \in Seq(Job) /\ j \in 1..Len(jobs) /\ jobs[j] \in Job
    BY LenProperties DEF TypeOK
  <2>2. ASSUME NEW at \in {"queued", "failed", "done"}
        PROVE  [jobs EXCEPT ![j].at = at] \in Seq(Job)
    <3>1. [jobs[j] EXCEPT !.at = at] \in Job
      BY <2>1 DEF Job
    <3>2. [jobs EXCEPT ![j] = [jobs[j] EXCEPT !.at = at]] \in Seq(Job)
      BY <2>1, <3>1, ExceptSeq
    <3>. QED
      BY <3>2
  <2>3. jobs' \in Seq(Job)
    BY <1>5, <2>2 DEF PerformJob, PerformJobUnnoticed, JobFails, RequeueFailedJob, Write
  <2>4. applied' \in [Message -> Nat]
    <3>1. [m \in Message |-> applied[m] + Times(jobs[j], m)] \in [Message -> Nat]
      BY <2>1, TimesType DEF TypeOK
    <3>. QED
      BY <1>5, <3>1
      DEF PerformJob, PerformJobUnnoticed, JobFails, RequeueFailedJob, Write, TypeOK
  <2>5. faults' \in 0..MaxFaults /\ UNCHANGED <<broker, service>>
    BY <1>5, BoundsAssumption
    DEF PerformJob, PerformJobUnnoticed, JobFails, RequeueFailedJob, Fault, TypeOK
  <2>. QED
    BY <2>3, <2>4, <2>5 DEF TypeOK, broker, service
<1>6. CASE CloseChannel
  BY <1>6, EmptySeq DEF CloseChannel, Restart, TypeOK, handler
<1>7. CASE OpenChannel \/ OpenRedis
  BY <1>7 DEF OpenChannel, OpenRedis, TypeOK, service, handler, broker
<1>8. CASE LoseConnection
  BY <1>8, BoundsAssumption DEF LoseConnection, Requeue, Fault, TypeOK, service, handler
<1>9. CASE Crash
  BY <1>9, BoundsAssumption, EmptySeq DEF Crash, Requeue, Restart, Fault, TypeOK, handler
<1>10. CASE LoseRedis
  <2>1. DRAINING' \in [Kind -> BOOLEAN]
    BY <1>10 DEF LoseRedis, TypeOK
  <2>2. faults' \in 0..MaxFaults
    BY <1>10, BoundsAssumption DEF LoseRedis, Fault, TypeOK
  <2>. QED
    BY <1>10, <2>1, <2>2 DEF LoseRedis, TypeOK, broker, handler
<1>. QED
  BY <1>1, <1>2, <1>3, <1>4, <1>5, <1>6, <1>7, <1>8, <1>9, <1>10 DEF Next, Consume, Connect

(* A pool holds deliveries, a drain has a batch and the number of those to *)
(* come, and a job's messages are messages of the queue.                   *)
THEOREM TypeCorrect == Spec => []TypeOK
BY InitTypeOK, NextTypeOK, PTL DEF Spec

-----------------------------------------------------------------------------

(* What an appended job adds: its own messages, and nothing else changes.  *)
LEMMA AppendJob ==
  ASSUME TypeOK, NEW d \in drains, jobs' = Append(jobs, JobFor(d))
  PROVE  /\ \A m \in Message : InJob(m) => InJob(m)'
         /\ \A m \in BatchMessages(d.batch) : InJob(m)'
<1>1. jobs \in Seq(Job) /\ d \in Drain /\ JobFor(d) \in Job
  BY JobType DEF TypeOK
<1>2. /\ Len(jobs) \in Nat /\ DOMAIN jobs = 1..Len(jobs)
      /\ jobs' \in Seq(Job) /\ Len(jobs') = Len(jobs) + 1
      /\ \A j \in 1..Len(jobs) : jobs'[j] = jobs[j]
      /\ jobs'[Len(jobs) + 1] = JobFor(d)
  BY <1>1, AppendProperties, LenProperties
<1>3. /\ DOMAIN jobs' = 1..(Len(jobs) + 1)
      /\ \A j \in DOMAIN jobs : j \in DOMAIN jobs' /\ jobs'[j] = jobs[j]
      /\ Len(jobs) + 1 \in DOMAIN jobs'
  <2>1. DOMAIN jobs' = 1..(Len(jobs) + 1)
    BY <1>2, LenProperties
  <2>. QED
    BY <1>2, <2>1
<1>4. ASSUME NEW m \in Message, InJob(m)
      PROVE  InJob(m)'
  BY <1>3, <1>4 DEF InJob
<1>5. ASSUME NEW m \in BatchMessages(d.batch)
      PROVE  InJob(m)'
  <2>1. PICK n \in DOMAIN d.batch : m = d.batch[n].msg
    BY DEF BatchMessages
  <2>2. /\ n \in DOMAIN jobs'[Len(jobs) + 1].batch
        /\ jobs'[Len(jobs) + 1].batch[n] = m
    BY <1>1, <1>2, <2>1, JobType
  <2>. QED
    BY <1>3, <2>2 DEF InJob
<1>. QED
  BY <1>4, <1>5

(* Settling acknowledges the batch, and the messages noted as mistaken.    *)
LEMMA SettleAcks ==
  ASSUME TypeOK, NEW b, NEW outcome \in {"ready", "acked"}, Settle(b, outcome),
         NEW m \in Message, message'[m] = "acked", message[m] # "acked"
  PROVE  outcome = "acked" /\ (m \in BatchMessages(b) \/ m \in mistaken')
<1>1. SettleAs(b, outcome)
  BY DEF Settle, broker
<1>2. outcome = "acked" /\ m \in MessagesOf(Settled(b))
  BY <1>1 DEF SettleAs, TypeOK
<1>3. mistaken' = mistaken \cup (MessagesOf(Settled(b)) \ BatchMessages(b))
  BY <1>1, <1>2 DEF SettleAs
<1>. QED
  BY <1>2, <1>3

(* A message noted as mistaken stays noted. *)
LEMMA MistakenGrows ==
  ASSUME NEW b, NEW outcome, Settle(b, outcome)
  PROVE  mistaken \subseteq mistaken'
BY DEF Settle, SettleAs, broker

(* Every step acknowledges only what a job holds. *)
LEMMA NextAcked == TypeOK /\ AckedIsEnqueued /\ [Next]_vars => AckedIsEnqueued'
<1>. SUFFICES ASSUME TypeOK, AckedIsEnqueued, [Next]_vars,
                     NEW m \in Message, message'[m] = "acked"
              PROVE  InJob(m)' \/ m \in mistaken'
  BY DEF AckedIsEnqueued
<1>. USE DEF AckedIsEnqueued
<1>0. ASSUME message'[m] = message[m], jobs' = jobs, mistaken' = mistaken
      PROVE  InJob(m)' \/ m \in mistaken'
  BY <1>0 DEF InJob
<1>1. CASE UNCHANGED vars
  BY <1>0, <1>1 DEF vars, broker, handler
<1>2. ASSUME NEW x \in Message, ConsumeMessage(x)
      PROVE  InJob(m)' \/ m \in mistaken'
  <2>1. message'[m] = message[m]
    BY <1>2 DEF ConsumeMessage, TypeOK
  <2>. QED
    BY <1>0, <1>2, <2>1 DEF ConsumeMessage, handler
<1>3. ASSUME NEW k \in Kind, DrainPool(k)
      PROVE  InJob(m)' \/ m \in mistaken'
  BY <1>0, <1>3 DEF DrainPool, broker, handler
<1>4. ASSUME NEW d \in drains, EnqueueBatch(d)
      PROVE  InJob(m)' \/ m \in mistaken'
  <2>1. jobs' = Append(jobs, JobFor(d))
    BY <1>4 DEF EnqueueBatch
  <2>2. CASE Settle(d.batch, "acked")
    BY <2>1, <2>2, AppendJob, SettleAcks, MistakenGrows
  <2>3. CASE Reject(d)
    BY <2>1, <2>3, AppendJob DEF Reject, broker
  <2>. QED
    BY <1>4, <2>2, <2>3 DEF EnqueueBatch
<1>5. ASSUME NEW d \in drains, EnqueueFails(d)
      PROVE  InJob(m)' \/ m \in mistaken'
  <2>1. jobs' = jobs \/ jobs' = Append(jobs, JobFor(d))
    BY <1>5 DEF EnqueueFails
  <2>2. InJob(m) => InJob(m)'
    BY <2>1, AppendJob DEF InJob
  <2>3. CASE Settle(d.batch, "ready")
    BY <2>2, <2>3, SettleAcks, MistakenGrows
  <2>4. CASE Reject(d)
    BY <2>2, <2>4 DEF Reject, broker
  <2>. QED
    BY <1>5, <2>3, <2>4 DEF EnqueueFails
<1>6. ASSUME NEW j \in DOMAIN jobs,
             \/ PerformJob(j) \/ PerformJobUnnoticed(j)
             \/ JobFails(j) \/ RequeueFailedJob(j)
      PROVE  InJob(m)' \/ m \in mistaken'
  <2>1. PICK at : jobs' = [jobs EXCEPT ![j].at = at]
    BY <1>6 DEF PerformJob, PerformJobUnnoticed, JobFails, RequeueFailedJob, Write
  <2>2. /\ jobs \in Seq(Job) /\ DOMAIN jobs = 1..Len(jobs)
        /\ \A i \in DOMAIN jobs : jobs[i] \in Job
    BY LenProperties, ElementOfSeq DEF TypeOK
  <2>3. DOMAIN jobs' = DOMAIN jobs /\ \A i \in DOMAIN jobs : jobs'[i].batch = jobs[i].batch
    BY <2>1, <2>2 DEF Job
  <2>4. UNCHANGED broker
    BY <1>6 DEF PerformJob, PerformJobUnnoticed, JobFails, RequeueFailedJob
  <2>. QED
    BY <2>3, <2>4 DEF InJob, broker
<1>7. CASE Connect \/ LoseRedis
  BY <1>0, <1>7 DEF Connect, CloseChannel, OpenChannel, OpenRedis, LoseRedis, handler, broker
<1>8. CASE LoseConnection \/ Crash
  <2>1. message'[m] = message[m]
    BY <1>8 DEF LoseConnection, Crash, Requeue, TypeOK
  <2>. QED
    BY <1>0, <1>8, <2>1 DEF LoseConnection, Crash, handler
<1>. QED
  BY <1>1, <1>2, <1>3, <1>4, <1>5, <1>6, <1>7, <1>8 DEF Next, Consume

(* Whatever is lost and whenever, RabbitMQ forgets a message only once a   *)
(* job holds it, but for those a stale tag acknowledged.                   *)
THEOREM NothingForgotten == Spec => []AckedIsEnqueued
<1>1. Init => AckedIsEnqueued
  BY DEF Init, AckedIsEnqueued
<1>. QED
  BY <1>1, NextAcked, TypeCorrect, PTL DEF Spec

-----------------------------------------------------------------------------

(* While the channel is gone AUDIT_LOG_WRITE_POOL is empty. *)
WorkInv ==
    /\ TypeOK
    /\ WorkInProgressIsSound
    /\ channel = "closed" => pool[LogKind] = <<>>

(* What a drain leaves in the log pool is as current as it was. *)
LEMMA RestIsCurrent ==
  ASSUME TypeOK, CurrentWork(LogKind)
  PROVE  /\ \A n \in DOMAIN Rest(pool[LogKind]) : Rest(pool[LogKind])[n].conn = conn
         /\ pool[LogKind] = <<>> => Rest(pool[LogKind]) = <<>>
<1>1. pool[LogKind] \in Seq(Delivery)
  BY KindAssumption DEF TypeOK
<1>2. \A n \in DOMAIN Rest(pool[LogKind]) : Rest(pool[LogKind])[n].conn = conn
  BY <1>1, BatchType DEF CurrentWork
<1>3. ASSUME pool[LogKind] = <<>>
      PROVE  Rest(pool[LogKind]) = <<>>
  <2>1. \A j \in DOMAIN pool[LogKind] : FALSE
    BY <1>3
  <2>2. /\ Rest(pool[LogKind]) \in Seq(Delivery)
        /\ \A n \in DOMAIN Rest(pool[LogKind]) : \E j \in DOMAIN pool[LogKind] : TRUE
    BY <1>1, BatchType
  <2>. QED
    <3>1. DOMAIN Rest(pool[LogKind]) = 1..Len(Rest(pool[LogKind]))
      BY <2>2, LenProperties
    <3>2. 1 \notin DOMAIN Rest(pool[LogKind])
      BY <2>1, <2>2
    <3>3. Rest(pool[LogKind]) # <<>> => Len(Rest(pool[LogKind])) \in Nat \ {0}
      BY <2>2, EmptySeq
    <3>. QED
      BY <3>1, <3>2, <3>3
<1>. QED
  BY <1>2, <1>3

(* Settling opens no channel and moves no counter. *)
LEMMA SettleChannel ==
  ASSUME NEW b, NEW outcome, Settle(b, outcome)
  PROVE  conn' = conn /\ channel # "closed" /\ channel' # "closed"
BY DEF Settle, SettleAs, broker

(* Going on with the next batch keeps the log pool current and the flags.  *)
LEMMA NextBatchWork ==
  ASSUME WorkInv, NEW d \in drains, NextBatch(d), conn' = conn
  PROVE  WorkInProgressIsSound'
<1>1. TypeOK /\ CurrentWork(LogKind) /\ d.kind \in Kind /\ LogKind \in Kind
  BY KindAssumption DEF WorkInv, WorkInProgressIsSound, TypeOK, Drain
<1>2. CurrentWork(LogKind)'
  <2>1. pool' = pool \/ pool' = [pool EXCEPT ![d.kind] = Rest(pool[d.kind])]
    BY DEF NextBatch
  <2>2. pool'[LogKind] = pool[LogKind] \/ pool'[LogKind] = Rest(pool[LogKind])
    BY <1>1, <2>1 DEF TypeOK
  <2>. QED
    BY <1>1, <2>2, RestIsCurrent DEF CurrentWork
<1>3. ASSUME NEW e \in drains', e.kind # LogKind
      PROVE  DRAINING'[e.kind] /\ \A f \in drains' : f.kind = e.kind => f = e
  <2>. DEFINE next == [kind |-> d.kind, batch |-> Batch(pool[d.kind]), left |-> d.left - 1]
  <2>1. \A f \in drains : f.kind # LogKind =>
           DRAINING[f.kind] /\ \A g \in drains : g.kind = f.kind => g = f
    BY DEF WorkInv, WorkInProgressIsSound
  <2>2. next.kind = d.kind
    OBVIOUS
  <2>. HIDE DEF next
  <2>3. CASE drains' = drains \ {d} /\ DRAINING' = [DRAINING EXCEPT ![d.kind] = FALSE]
    <3>1. e \in drains /\ e.kind # d.kind
      BY <1>3, <2>1, <2>3
    <3>2. DRAINING'[e.kind] = DRAINING[e.kind]
      BY <1>1, <2>3, <3>1 DEF TypeOK, Drain
    <3>. QED
      BY <1>3, <2>1, <2>3, <3>1, <3>2
  <2>4. CASE drains' = (drains \ {d}) \cup {next} /\ DRAINING' = DRAINING
    BY <1>3, <2>1, <2>2, <2>4
  <2>. QED
    BY <2>3, <2>4 DEF NextBatch, next
<1>. QED
  BY <1>2, <1>3 DEF WorkInProgressIsSound

(* Every step keeps the log pool current and the running drains flagged. *)
LEMMA NextWorkInv == WorkInv /\ [Next]_vars => WorkInv'
<1>. SUFFICES ASSUME WorkInv, [Next]_vars
              PROVE  WorkInProgressIsSound' /\ (channel = "closed" => pool[LogKind] = <<>>)'
  BY NextTypeOK DEF WorkInv
<1>. DEFINE Goal == WorkInProgressIsSound /\ (channel = "closed" => pool[LogKind] = <<>>)
<1>0. /\ TypeOK /\ WorkInProgressIsSound /\ LogKind \in Kind
      /\ channel = "closed" => pool[LogKind] = <<>>
  BY KindAssumption DEF WorkInv
<1>1. ASSUME conn' = conn, pool' = pool, drains' = drains, DRAINING' = DRAINING,
             channel' = "closed" => channel = "closed"
      PROVE  Goal'
  BY <1>0, <1>1 DEF WorkInProgressIsSound, CurrentWork
<1>2. CASE UNCHANGED vars
  BY <1>1, <1>2 DEF vars, broker, service
<1>3. ASSUME NEW m \in Message, ConsumeMessage(m)
      PROVE  Goal'
  <2>. DEFINE item == [conn |-> conn, tag |-> lastTag + 1, msg |-> m]
  <2>1. item \in Delivery /\ item.conn = conn
    BY <1>0 DEF TypeOK, Delivery
  <2>2. pool' = [pool EXCEPT ![KindOf[m]] = Append(@, item)] /\ conn' = conn
    BY <1>3 DEF ConsumeMessage
  <2>. HIDE DEF item
  <2>3. pool'[LogKind] = pool[LogKind] \/ pool'[LogKind] = Append(pool[LogKind], item)
    BY <1>0, <2>2 DEF TypeOK
  <2>4. pool[LogKind] \in Seq(Delivery) /\ \A n \in DOMAIN pool[LogKind] : pool[LogKind][n].conn = conn
    BY <1>0 DEF TypeOK, WorkInProgressIsSound, CurrentWork
  <2>5. CurrentWork(LogKind)'
    <3>1. CASE pool'[LogKind] = pool[LogKind]
      BY <2>2, <2>4, <3>1 DEF CurrentWork
    <3>2. CASE pool'[LogKind] = Append(pool[LogKind], item)
      <4>1. /\ pool'[LogKind] \in Seq(Delivery)
            /\ Len(pool'[LogKind]) = Len(pool[LogKind]) + 1
            /\ \A n \in 1..Len(pool[LogKind]) : pool'[LogKind][n] = pool[LogKind][n]
            /\ pool'[LogKind][Len(pool[LogKind]) + 1] = item
        BY <2>1, <2>4, <3>2, AppendProperties
      <4>2. /\ DOMAIN pool[LogKind] = 1..Len(pool[LogKind]) /\ Len(pool[LogKind]) \in Nat
            /\ DOMAIN pool'[LogKind] = 1..(Len(pool[LogKind]) + 1)
        BY <2>4, <4>1, LenProperties
      <4>. QED
        BY <2>1, <2>2, <2>4, <4>1, <4>2 DEF CurrentWork
    <3>. QED
      BY <2>3, <3>1, <3>2
  <2>6. drains' = drains /\ DRAINING' = DRAINING /\ channel' = "open"
    BY <1>3 DEF ConsumeMessage
  <2>. QED
    BY <1>0, <2>5, <2>6 DEF WorkInProgressIsSound
<1>4. ASSUME NEW k \in Kind, DrainPool(k)
      PROVE  Goal'
  <2>. DEFINE first == [kind |-> k, batch |-> Batch(pool[k]),
                        left |-> BatchesNeeded(pool[k]) - 1]
  <2>1. first.kind = k
    OBVIOUS
  <2>2. /\ drains' = drains \cup {first} /\ ~DRAINING[k]
        /\ DRAINING' = [DRAINING EXCEPT ![k] = TRUE]
        /\ pool' = [pool EXCEPT ![k] = Rest(@)]
        /\ conn' = conn /\ channel' = channel /\ channel # "closed"
    BY <1>4 DEF DrainPool, broker
  <2>. HIDE DEF first
  <2>3. pool'[LogKind] = pool[LogKind] \/ pool'[LogKind] = Rest(pool[LogKind])
    BY <1>0, <2>2 DEF TypeOK
  <2>4. CurrentWork(LogKind)'
    BY <1>0, <2>2, <2>3, RestIsCurrent DEF WorkInProgressIsSound, CurrentWork
  <2>5. ASSUME NEW e \in drains', e.kind # LogKind
        PROVE  DRAINING'[e.kind] /\ \A f \in drains' : f.kind = e.kind => f = e
    <3>1. \A f \in drains : f.kind # LogKind =>
             /\ f.kind \in Kind /\ DRAINING[f.kind] /\ f.kind # k
             /\ \A g \in drains : g.kind = f.kind => g = f
      BY <1>0, <2>2 DEF WorkInProgressIsSound, TypeOK, Drain
    <3>2. CASE e = first
      <4>1. DRAINING'[k]
        BY <1>0, <2>2 DEF TypeOK
      <4>. QED
        BY <2>1, <2>2, <2>5, <3>1, <3>2, <4>1
    <3>3. CASE e \in drains
      <4>1. DRAINING'[e.kind] = DRAINING[e.kind]
        BY <1>0, <2>2, <2>5, <3>1, <3>3 DEF TypeOK
      <4>. QED
        BY <2>1, <2>2, <2>5, <3>1, <3>3, <4>1
    <3>. QED
      BY <2>2, <2>5, <3>2, <3>3
  <2>. QED
    BY <2>2, <2>4, <2>5 DEF WorkInProgressIsSound
<1>5. ASSUME NEW d \in drains, EnqueueBatch(d) \/ EnqueueFails(d)
      PROVE  Goal'
  <2>1. CASE \E outcome \in {"ready", "acked"} : Settle(d.batch, outcome) /\ NextBatch(d)
    BY <2>1, SettleChannel, NextBatchWork
  <2>2. CASE Reject(d)
    <3>1. /\ drains' = drains \ {d} /\ DRAINING' = DRAINING /\ pool' = pool
          /\ conn' = conn /\ channel' = channel
      BY <2>2 DEF Reject, broker
    <3>. QED
      BY <1>0, <3>1 DEF WorkInProgressIsSound, CurrentWork
  <2>. QED
    BY <1>5, <2>1, <2>2 DEF EnqueueBatch, EnqueueFails
<1>6. ASSUME NEW j \in DOMAIN jobs,
             \/ PerformJob(j) \/ PerformJobUnnoticed(j)
             \/ JobFails(j) \/ RequeueFailedJob(j)
      PROVE  Goal'
  BY <1>1, <1>6
  DEF PerformJob, PerformJobUnnoticed, JobFails, RequeueFailedJob, broker, service
<1>7. CASE Restart /\ conn' = conn
  <2>1. drains' = {} /\ pool'[LogKind] = <<>>
    BY <1>0, <1>7 DEF Restart
  <2>2. CurrentWork(LogKind)'
    BY <2>1 DEF CurrentWork
  <2>. QED
    BY <2>1, <2>2 DEF WorkInProgressIsSound
<1>8. CASE CloseChannel
  <2>1. CASE pool' = [pool EXCEPT ![LogKind] = <<>>] /\ UNCHANGED <<DRAINING, drains, taskQueue>>
    <3>1. pool'[LogKind] = <<>>
      BY <1>0, <2>1 DEF TypeOK
    <3>. QED
      BY <1>0, <2>1, <3>1 DEF WorkInProgressIsSound, CurrentWork
  <2>. QED
    BY <1>7, <1>8, <2>1 DEF CloseChannel
<1>9. CASE OpenChannel
  <2>1. pool[LogKind] = <<>> /\ UNCHANGED service /\ channel' = "open"
    BY <1>0, <1>9 DEF OpenChannel
  <2>2. CurrentWork(LogKind)'
    BY <2>1 DEF CurrentWork, service
  <2>. QED
    BY <1>0, <2>1, <2>2 DEF WorkInProgressIsSound, service
<1>10. CASE OpenRedis \/ LoseConnection
  BY <1>1, <1>10 DEF OpenRedis, LoseConnection, broker, service
<1>11. CASE Crash
  BY <1>7, <1>11 DEF Crash
<1>12. CASE LoseRedis
  <2>1. /\ DRAINING' = [DRAINING EXCEPT ![LogKind] = FALSE]
        /\ UNCHANGED <<broker, pool, drains>>
    BY <1>12 DEF LoseRedis
  <2>2. \A k \in Kind : k # LogKind => DRAINING'[k] = DRAINING[k]
    BY <1>0, <2>1 DEF TypeOK
  <2>3. \A d \in drains : d.kind \in Kind
    BY <1>0 DEF TypeOK, Drain
  <2>. QED
    BY <1>0, <2>1, <2>2, <2>3 DEF WorkInProgressIsSound, CurrentWork, broker
<1>. QED
  BY <1>2, <1>3, <1>4, <1>5, <1>6, <1>8, <1>9, <1>10, <1>11, <1>12 DEF Next, Consume, Connect

(* AUDIT_LOG_WRITE_POOL never holds a delivery of an earlier channel, and, *)
(* but for its own, a drain is flagged and alone while it runs.            *)
THEOREM WorkIsSound == Spec => []WorkInProgressIsSound
<1>1. Init => WorkInv
  <2>1. Init => CurrentWork(LogKind) /\ (channel = "closed" => pool[LogKind] = <<>>)
    BY KindAssumption DEF Init, CurrentWork
  <2>. QED
    BY <2>1, InitTypeOK DEF Init, WorkInv, WorkInProgressIsSound
<1>2. WorkInv => WorkInProgressIsSound
  BY DEF WorkInv
<1>. QED
  BY <1>1, <1>2, NextWorkInv, PTL DEF Spec

=============================================================================
