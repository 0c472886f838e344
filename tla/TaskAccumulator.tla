--------------------------- MODULE TaskAccumulator ---------------------------
(***************************************************************************)
(* The task accumulator (node-task-accumulator-service/server.js) and the  *)
(* jobs of the task handler that its batches become: audit log rows and    *)
(* audit score updates, for the ordinary and for the end to end audits.    *)
(*                                                                         *)
(* Each kind of message has its pool.  Once a second a pool is drained in  *)
(* batches: a batch is enqueued for the task handler (resque, in Redis)    *)
(* and then its messages are acknowledged, or handed back.  While a drain  *)
(* awaits Redis the RabbitMQ channel may be lost and replaced; a delivery  *)
(* tag then means another message, or none.                                *)
(***************************************************************************)
EXTENDS Naturals, Sequences, FiniteSets

CONSTANTS
    Message,        \* what the task handler has published, one message each
    Kind,           \* the kinds of messages, one pool each
    KindOf,         \* the kind of each message
    LogKind,        \* the kind that goes to AUDIT_LOG_WRITE_POOL
    BatchSize,      \* auditLogWriteBatchSize, auditScoreUpdateBatchSize
    MaxFaults,      \* model bound: lost connections, crashes, failed commands
    MaxTag,         \* model bound: deliveries on one channel
    MaxJobs         \* model bound: jobs enqueued

ASSUME KindAssumption == KindOf \in [Message -> Kind] /\ LogKind \in Kind
ASSUME BoundsAssumption ==
    BatchSize \in Nat \ {0} /\ MaxFaults \in Nat /\ MaxTag \in Nat /\ MaxJobs \in Nat

VARIABLES
    message,    \* each message in RabbitMQ
    out,        \* unsettled deliveries of the channel
    lastTag,    \* delivery tags are counted per channel
    conn,       \* the number of the channel
    channel,    \* "lost": the socket is dead and the close event is to come;
                \* "closed": amqpChannel is null
    mistaken,   \* messages acknowledged in the name of another one
    pool,       \* AUDIT_LOG_WRITE_POOL and the three others
    DRAINING,   \* AUDIT_LOG_WRITE_POOL_DRAINING and the three others
    drains,     \* the running drain functions, each awaiting enqueue
    taskQueue,  \* "null" while Redis is away
    jobs,       \* batches enqueued for the task handler
    applied,    \* how often each message has been written to the database
    faults

broker == <<message, out, lastTag, conn, channel, mistaken>>
service == <<pool, DRAINING, drains, taskQueue>>
handler == <<jobs, applied>>
vars == <<broker, service, handler, faults>>

Delivery == [conn : Nat, tag : Nat, msg : Message]
Drain == [kind : Kind, batch : Seq(Delivery), left : Nat]
Job == [batch : Seq(Message), at : {"queued", "failed", "done"}]

-----------------------------------------------------------------------------

Init ==
    /\ message = [m \in Message |-> "ready"]
    /\ out = {}
    /\ lastTag = 0
    /\ conn = 0
    /\ channel = "open"
    /\ mistaken = {}
    /\ pool = [k \in Kind |-> <<>>]
    /\ DRAINING = [k \in Kind |-> FALSE]
    /\ drains = {}
    /\ taskQueue = "up"
    /\ jobs = <<>>
    /\ applied = [m \in Message |-> 0]
    /\ faults = 0

Fault == faults < MaxFaults /\ faults' = faults + 1

(* A delivery: consumeWriteAuditLogMessageAsync and the three others push  *)
(* it on their pool.                                                       *)
ConsumeMessage(m) ==
    LET item == [conn |-> conn, tag |-> lastTag + 1, msg |-> m] IN
    /\ channel = "open"
    /\ message[m] = "ready"
    /\ lastTag < MaxTag
    /\ message' = [message EXCEPT ![m] = "delivered"]
    /\ lastTag' = lastTag + 1
    /\ out' = out \cup {item}
    /\ pool' = [pool EXCEPT ![KindOf[m]] = Append(@, item)]
    /\ UNCHANGED <<conn, channel, mistaken, DRAINING, drains, taskQueue, handler, faults>>

-----------------------------------------------------------------------------
(* Settling a batch: one ack or nack per message.  A tag that the channel  *)
(* does not know, or no longer, is a channel error: the broker settles     *)
(* what came before it, closes the channel and requeues the rest.          *)

Known(batch, n) ==
    /\ \E d \in out : d.tag = batch[n].tag
    /\ \A j \in 1..(n - 1) : batch[j].tag # batch[n].tag
Reached(batch, n) == \A j \in 1..n : Known(batch, j)
Settled(batch) ==
    {d \in out : \E n \in DOMAIN batch : Reached(batch, n) /\ d.tag = batch[n].tag}
Broken(batch) == \E n \in DOMAIN batch : ~Known(batch, n)

MessagesOf(deliveries) == {d.msg : d \in deliveries}
BatchMessages(batch) == {batch[n].msg : n \in DOMAIN batch}

SettleAs(batch, outcome) ==
    LET settled == Settled(batch) IN
    /\ channel = "open"
    /\ message' = [m \in Message |->
                     IF m \in MessagesOf(settled) THEN outcome
                     ELSE IF Broken(batch) /\ m \in MessagesOf(out) THEN "ready"
                     ELSE message[m]]
    /\ out' = IF Broken(batch) THEN {} ELSE out \ settled
    /\ channel' = IF Broken(batch) THEN "lost" ELSE "open"
    /\ mistaken' = IF outcome = "acked"
                   THEN mistaken \cup (MessagesOf(settled) \ BatchMessages(batch))
                   ELSE mistaken
    /\ UNCHANGED <<lastTag, conn>>

(* On a channel whose socket is dead the frames go nowhere.                *)
Settle(batch, outcome) ==
    \/ SettleAs(batch, outcome)
    \/ channel = "lost" /\ UNCHANGED broker

-----------------------------------------------------------------------------
(* The drain functions *)

Smaller(a, b) == IF a < b THEN a ELSE b
Batch(items) == SubSeq(items, 1, Smaller(BatchSize, Len(items)))
Rest(items) == SubSeq(items, Smaller(BatchSize, Len(items)) + 1, Len(items))
(* Mutant: Math.floor in place of Math.ceil. *)
FullBatches(items) == Len(items) \div BatchSize
BatchesNeeded(items) == (Len(items) + BatchSize - 1) \div BatchSize

(* The interval starts a drain, up to the first await. *)
DrainPool(k) ==
    /\ ~DRAINING[k]
    /\ channel # "closed"
    /\ pool[k] # <<>>
    /\ DRAINING' = [DRAINING EXCEPT ![k] = TRUE]
    /\ drains' = drains \cup {[kind |-> k, batch |-> Batch(pool[k]),
                               left |-> BatchesNeeded(pool[k]) - 1]}
    /\ pool' = [pool EXCEPT ![k] = Rest(@)]
    /\ UNCHANGED <<broker, taskQueue, handler, faults>>

(* The loop goes on with the next batch, or ends.  (The batches of a pool  *)
(* that has been emptied meanwhile are empty: the loop then has no effect.)*)
NextBatch(d) ==
    IF d.left = 0 \/ pool[d.kind] = <<>>
    THEN /\ drains' = drains \ {d}
         /\ DRAINING' = [DRAINING EXCEPT ![d.kind] = FALSE]
         /\ UNCHANGED pool
    ELSE /\ drains' = (drains \ {d}) \cup
                         {[kind |-> d.kind, batch |-> Batch(pool[d.kind]), left |-> d.left - 1]}
         /\ pool' = [pool EXCEPT ![d.kind] = Rest(@)]
         /\ UNCHANGED DRAINING

(* amqpChannel is null: ack throws, nack throws in the catch block, and    *)
(* the function rejects with its flag set.                                 *)
Reject(d) ==
    /\ channel = "closed"
    /\ drains' = drains \ {d}
    /\ UNCHANGED <<broker, pool, DRAINING>>

JobFor(d) == [batch |-> [n \in DOMAIN d.batch |-> d.batch[n].msg], at |-> "queued"]

(* enqueue has resolved. *)
EnqueueBatch(d) ==
    /\ taskQueue = "up"
    /\ Len(jobs) < MaxJobs
    /\ jobs' = Append(jobs, JobFor(d))
    /\ (Settle(d.batch, "acked") /\ NextBatch(d)) \/ Reject(d)
    /\ UNCHANGED <<taskQueue, applied, faults>>

(* Mutants of EnqueueFails: the messages are acknowledged; they are not    *)
(* settled.                                                                *)
EnqueueFailsAck(d) ==
    /\ (taskQueue = "null" /\ UNCHANGED faults) \/ Fault
    /\ UNCHANGED jobs
    /\ (Settle(d.batch, "acked") /\ NextBatch(d)) \/ Reject(d)
    /\ UNCHANGED <<taskQueue, applied>>

EnqueueFailsUnsettled(d) ==
    /\ (taskQueue = "null" /\ UNCHANGED faults) \/ Fault
    /\ NextBatch(d)
    /\ UNCHANGED <<broker, taskQueue, handler>>

(* enqueue rejects, after Redis has got the job or before, or there is no  *)
(* taskQueue to call.                                                      *)
EnqueueFails(d) ==
    /\ \/ taskQueue = "null" /\ UNCHANGED <<jobs, faults>>
       \/ Fault /\ UNCHANGED jobs
       \/ Fault /\ Len(jobs) < MaxJobs /\ jobs' = Append(jobs, JobFor(d))
    /\ (Settle(d.batch, "ready") /\ NextBatch(d)) \/ Reject(d)
    /\ UNCHANGED <<taskQueue, applied>>

-----------------------------------------------------------------------------
(* The task handler's jobs *)

Times(job, m) == Cardinality({n \in DOMAIN job.batch : job.batch[n] = m})

(* writeAuditLogItemsAsync, updateAuditScoreItemsAsync and the end to end  *)
(* ones: a bulk insert or update in one statement.                         *)
Write(j, at) ==
    /\ jobs[j].at = "queued"
    /\ jobs' = [jobs EXCEPT ![j].at = at]
    /\ applied' = [m \in Message |-> applied[m] + Times(jobs[j], m)]

PerformJob(j) == Write(j, "done") /\ UNCHANGED <<broker, service, faults>>

(* The statement is committed but its answer is lost, or the worker stops: *)
(* it is tried again, or the job is taken for stuck and queued again.      *)
PerformJobUnnoticed(j) == Fault /\ Write(j, "queued") /\ UNCHANGED <<broker, service>>

(* All retries fail. *)
JobFails(j) ==
    /\ jobs[j].at = "queued"
    /\ Fault
    /\ jobs' = [jobs EXCEPT ![j].at = "failed"]
    /\ UNCHANGED <<broker, service, applied>>

(* cleanUpWorkersAndRequequeJobsAsync, when a task handler starts. *)
RequeueFailedJob(j) ==
    /\ jobs[j].at = "failed"
    /\ jobs' = [jobs EXCEPT ![j].at = "queued"]
    /\ UNCHANGED <<broker, service, applied, faults>>

-----------------------------------------------------------------------------
(* Connections and the process *)

Requeue ==
    /\ message' = [m \in Message |-> IF m \in MessagesOf(out) THEN "ready" ELSE message[m]]
    /\ out' = {}

LoseConnection ==
    /\ channel = "open"
    /\ Fault
    /\ Requeue
    /\ channel' = "lost"
    /\ UNCHANGED <<lastTag, conn, mistaken, service, handler>>

Restart ==
    /\ pool' = [k \in Kind |-> <<>>]
    /\ DRAINING' = [k \in Kind |-> FALSE]
    /\ drains' = {}
    /\ taskQueue' = "null"

(* Mutant: the close event leaves all the pools as they are. *)
CloseChannelKeepingWork ==
    /\ channel = "lost"
    /\ channel' = "closed"
    /\ UNCHANGED <<message, out, lastTag, conn, mistaken, service, handler, faults>>

(* The close event: amqpChannel = null; AUDIT_LOG_WRITE_POOL = [].  If the *)
(* broker closed the channel for a wrong tag, the channel's error event,   *)
(* which nothing listens to, may end the process instead.                  *)
CloseChannel ==
    /\ channel = "lost"
    /\ channel' = "closed"
    /\ \/ pool' = [pool EXCEPT ![LogKind] = <<>>] /\ UNCHANGED <<DRAINING, drains, taskQueue>>
       \/ Restart
    /\ UNCHANGED <<message, out, lastTag, conn, mistaken, handler, faults>>

OpenChannel ==
    /\ channel = "closed"
    /\ channel' = "open"
    /\ conn' = conn + 1
    /\ lastTag' = 0
    /\ UNCHANGED <<message, out, mistaken, service, handler, faults>>

Crash ==
    /\ Fault
    /\ Requeue
    /\ Restart
    /\ channel' = "closed"
    /\ UNCHANGED <<lastTag, conn, mistaken, handler>>

(* The Redis error event. *)
LoseRedis ==
    /\ taskQueue = "up"
    /\ Fault
    /\ taskQueue' = "null"
    /\ DRAINING' = [DRAINING EXCEPT ![LogKind] = FALSE]
    /\ UNCHANGED <<broker, pool, drains, handler>>

(* initResqueQueueAsync *)
OpenRedis ==
    /\ taskQueue = "null"
    /\ taskQueue' = "up"
    /\ UNCHANGED <<broker, pool, DRAINING, drains, handler, faults>>

-----------------------------------------------------------------------------

Connect == CloseChannel \/ OpenChannel \/ OpenRedis
Consume == \E m \in Message : ConsumeMessage(m)

(* enqueue settles one way or the other. *)
EnqueueSettles(d) == EnqueueBatch(d) \/ (taskQueue = "null" /\ EnqueueFails(d))

Next ==
    \/ Consume
    \/ \E k \in Kind : DrainPool(k)
    \/ \E d \in drains : EnqueueBatch(d) \/ EnqueueFails(d)
    \/ \E j \in DOMAIN jobs :
          PerformJob(j) \/ PerformJobUnnoticed(j) \/ JobFails(j) \/ RequeueFailedJob(j)
    \/ Connect
    \/ LoseConnection \/ Crash \/ LoseRedis

(* Timers fire, RabbitMQ delivers, enqueue settles, workers take jobs and  *)
(* connections are opened again.                                           *)
Fairness ==
    /\ WF_vars(Consume)
    /\ \A k \in Kind : WF_vars(DrainPool(k))
    /\ WF_vars(\E d \in drains : EnqueueSettles(d))
    /\ WF_vars(\E j \in DOMAIN jobs : PerformJob(j))
    /\ WF_vars(CloseChannel \/ OpenChannel) /\ WF_vars(OpenRedis)

Spec == Init /\ [][Next]_vars
FairSpec == Spec /\ Fairness

-----------------------------------------------------------------------------

(* Types of the variables: a pool holds messages of its kind, a drain has  *)
(* a batch.                                                                *)
TypeOK ==
    /\ message \in [Message -> {"ready", "delivered", "acked"}]
    /\ \A d \in out : d \in Delivery
    /\ lastTag \in Nat /\ conn \in Nat
    /\ channel \in {"open", "lost", "closed"}
    /\ mistaken \subseteq Message
    /\ pool \in [Kind -> Seq(Delivery)]
    /\ DRAINING \in [Kind -> BOOLEAN]
    /\ drains \subseteq Drain
    /\ taskQueue \in {"up", "null"}
    /\ jobs \in Seq(Job)
    /\ applied \in [Message -> Nat]
    /\ faults \in 0..MaxFaults

InJob(m) == \E j \in DOMAIN jobs : \E n \in DOMAIN jobs[j].batch : jobs[j].batch[n] = m

(* A message is acknowledged once its batch is a job; the exception is a   *)
(* message acknowledged in the name of another one.                        *)
AckedIsEnqueued ==
    \A m \in Message : message[m] = "acked" => InJob(m) \/ m \in mistaken

(* "un-acked messaged will be requeued, so clear all work in progress":    *)
(* AUDIT_LOG_WRITE_POOL never holds a delivery of an earlier channel.      *)
(* "Variable indicating if ... accumulation pool is currently being        *)
(* drained": it is set during a drain, and no pool has two drains, but for *)
(* the one whose flag a lost Redis connection resets.                      *)
CurrentWork(k) == \A n \in DOMAIN pool[k] : pool[k][n].conn = conn

WorkInProgressIsSound ==
    /\ CurrentWork(LogKind)
    /\ \A d \in drains :
          d.kind # LogKind => /\ DRAINING[d.kind]
                              /\ \A e \in drains : e.kind = d.kind => e = d

(* Every message is written, unless its pool's flag is stuck, its job has  *)
(* failed, another message's settlement took its place, or a bound of the  *)
(* model is reached.                                                       *)
Stuck(k) == DRAINING[k] /\ \A d \in drains : d.kind # k

EveryMessageWritten ==
    \A m \in Message :
        message[m] = "ready" ~> \/ applied[m] > 0
                                \/ Stuck(KindOf[m])
                                \/ m \in mistaken
                                \/ \E j \in DOMAIN jobs : jobs[j].at = "failed"
                                \/ lastTag = MaxTag \/ Len(jobs) = MaxJobs

(* "un-acked messaged will be requeued, so clear all work in progress", of *)
(* every pool.                                                             *)
AllPoolsAreCurrent == \A k \in Kind : CurrentWork(k)

=============================================================================
