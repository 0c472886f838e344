------------------------------ MODULE E2EAudit ------------------------------
(***************************************************************************)
(* The daily end-to-end audit of public Nodes.                             *)
(*                                                                         *)
(* Once a day the leading instance of node-audit-producer-service queues a *)
(* task for every public Node.  node-task-handler-service works the chain  *)
(* of tasks that follows: a hash is submitted to the Node, three hours     *)
(* later its proof is retrieved, and at once verified.  An attempt that    *)
(* fails is tried again three hours later, and the third failure in a      *)
(* stage fails the Node.  Every attempt leaves a row in the E2E audit log, *)
(* every chain is meant to leave one verdict, which moves the Node's       *)
(* score.  On the next day the producer reads the log, and what it finds   *)
(* is sent to the Node.                                                    *)
(*                                                                         *)
(* Log rows and verdicts go through RabbitMQ to the task accumulator,      *)
(* which module TaskAccumulator models: here they arrive when they are     *)
(* published, or, as a fault, are lost with the connection.  Time is in    *)
(* slots of three hours, the delay of every task that is not immediate.    *)
(***************************************************************************)
EXTENDS Integers, Bags, FiniteSets

CONSTANTS
    Producer,     \* instances of the audit producer
    Node,         \* public registered Nodes
    NoProducer,   \* nobody holds the leader's key
    SlotsPerDay,  \* slots of three hours in a day: 8
    MaxClock,     \* bound on the time
    MaxFaults     \* bound on faults

ASSUME NoProducerAssumption == NoProducer \notin Producer
ASSUME BoundsAssumption ==
    /\ SlotsPerDay \in Nat \ {0} /\ MaxClock \in Nat /\ MaxFaults \in Nat
    /\ SlotsPerDay <= MaxClock + 1
(* A day is long enough for all attempts of an audit, 23 hours. *)
ASSUME DayAssumption == SlotsPerDay >= 8

VARIABLES
    clock,       \* the slot it is
    holder,      \* the instance that holds the leader's key in Consul
    IS_LEADER,   \* per instance: it believes that it leads
    currentDay,  \* per instance: the day of its last round or of its start
    jobs,        \* tasks in Redis: delayed, queued, or on the failed list
    amqpChannel, \* the task handler's channel: "open" or "null"
    log,         \* bag of rows of chainpoint_node_e2e_audit_log
    verdicts,    \* bag of updates of the Nodes' scores
    rounds,      \* history: rounds per day
    started,     \* history: Nodes queued, with the day
    lost,        \* history: Nodes of which a task or a verdict was lost
    late,        \* history: Nodes with a task of the day before, not yet
                 \* begun, when a day began, with that day
    faults

producer == <<holder, IS_LEADER, currentDay, rounds, started>>
records == <<log, verdicts>>
vars == <<clock, producer, jobs, amqpChannel, records, lost, late, faults>>

Stage == {"hash_submission", "proof_retrieval", "proof_verification"}
DayOf(slot) == slot \div SlotsPerDay
Today == DayOf(clock)
Day == 0..DayOf(MaxClock)
NoDate == -1

\* The number of retries of an attempt; the third failure is final.
Retries == 2

Job == [node : Node, stage : Stage, retryCount : 0..Retries,
        auditDate : Day \union {NoDate}, due : 0..(MaxClock + 1),
        at : {"queued", "failed"}]
Row == [node : Node, auditDate : Day, stage : Stage, passed : BOOLEAN]
Verdict == [node : Node, auditDate : Day, auditPass : BOOLEAN]

Fault == faults < MaxFaults /\ faults' = faults + 1
One(x) == SetToBag({x})

Init ==
    /\ clock = SlotsPerDay - 1
    /\ holder = NoProducer
    /\ IS_LEADER = [p \in Producer |-> FALSE]
    /\ currentDay = [p \in Producer |-> Today]
    /\ jobs = EmptyBag
    /\ amqpChannel = "open"
    /\ log = EmptyBag /\ verdicts = EmptyBag
    /\ rounds = [d \in Day |-> 0]
    /\ started = {} /\ lost = {} /\ late = {}
    /\ faults = 0

-----------------------------------------------------------------------------
(* The audit producers.                                                    *)

(* The elector obtains the key and calls onElect. *)
GainLeadership(p) ==
    /\ holder = NoProducer
    /\ ~IS_LEADER[p]
    /\ holder' = p
    /\ IS_LEADER' = [IS_LEADER EXCEPT ![p] = TRUE]
    /\ UNCHANGED <<clock, currentDay, rounds, started, jobs, amqpChannel,
                   records, lost, late, faults>>

(* Consul ends the session; the instance has not heard of it yet. *)
SessionExpires ==
    /\ holder # NoProducer
    /\ Fault
    /\ holder' = NoProducer
    /\ UNCHANGED <<clock, IS_LEADER, currentDay, rounds, started, jobs,
                   amqpChannel, records, lost, late>>

(* The elector's error event. *)
LeadershipError(p) ==
    /\ IS_LEADER[p] /\ holder # p
    /\ IS_LEADER' = [IS_LEADER EXCEPT ![p] = FALSE]
    /\ UNCHANGED <<clock, holder, currentDay, rounds, started, jobs,
                   amqpChannel, records, lost, late, faults>>

(* An instance stops and starts: currentDay is the day of the start. *)
RestartProducer(p) ==
    /\ Fault
    /\ holder' = IF holder = p THEN NoProducer ELSE holder
    /\ IS_LEADER' = [IS_LEADER EXCEPT ![p] = FALSE]
    /\ currentDay' = [currentDay EXCEPT ![p] = Today]
    /\ UNCHANGED <<clock, rounds, started, jobs, amqpChannel, records,
                   lost, late>>

(* Mutant: the day is not remembered. *)
RememberNoDay(p) == UNCHANGED currentDay

RememberDay(p) == currentDay' = [currentDay EXCEPT ![p] = Today]

FirstTask(n) ==
    [node |-> n, stage |-> "hash_submission", retryCount |-> 0,
     auditDate |-> NoDate, due |-> clock, at |-> "queued"]

(* setPerformE2ENodeAuditTrigger fires and auditNodesAsync({ e2eAudit })   *)
(* queues a task, due within two hours, for some public Nodes: those with  *)
(* a positive score whose enqueueIn does not fail.                         *)
PerformE2ENodeAudit(p) ==
    /\ IS_LEADER[p] /\ currentDay[p] # Today
    /\ RememberDay(p)
    /\ rounds' = [rounds EXCEPT ![Today] = @ + 1]
    /\ \E N \in SUBSET Node :
          /\ jobs' = jobs (+) SetToBag({FirstTask(n) : n \in N})
          /\ started' = started \union (N \X {Today})
    /\ UNCHANGED <<clock, holder, IS_LEADER, amqpChannel, records, lost, late, faults>>

(* Mutant: the stages that were reached are enough to pass, whichever      *)
(* attempt was the last.                                                   *)
LastE2EAuditStatusAnyRow(n, d) ==
    LET rows == {r \in BagToSet(log) : r.node = n /\ r.auditDate = d}
    IN  IF rows = {} THEN "null"
        ELSE IF \E r \in rows : r.passed THEN "passed" ELSE "failure"

(* What auditNodesAsync reads from a day's rows of a Node: a stage passed  *)
(* if one of its rows did, the audit passed if all stages that have rows   *)
(* did.                                                                    *)
LastE2EAuditStatus(n, d) ==
    LET rows == {r \in BagToSet(log) : r.node = n /\ r.auditDate = d}
        Passed(s) == \E r \in rows : r.stage = s /\ r.passed
    IN  IF rows = {} THEN "null"
        ELSE IF \A r \in rows : Passed(r.stage) THEN "passed" ELSE "failure"

-----------------------------------------------------------------------------
(* The task handler.                                                       *)

(* A task of the queue that a worker may take. *)
Runnable(j) == BagIn(j, jobs) /\ j.at = "queued" /\ j.due <= clock

(* performE2EAuditPublicAsync dates an audit when it first runs. *)
DateOf(j) == IF j.auditDate = NoDate THEN Today ELSE j.auditDate

(* Three hours later the stage is tried again. *)
Retry(j) == [j EXCEPT !.retryCount = @ + 1, !.auditDate = DateOf(j), !.due = clock + 1]

(* Hash submission is followed by retrieval three hours later, retrieval   *)
(* by verification at once.                                                *)
Follow(j) ==
    [j EXCEPT !.stage = IF j.stage = "hash_submission" THEN "proof_retrieval"
                                                       ELSE "proof_verification",
              !.retryCount = 0,
              !.auditDate = DateOf(j),
              !.due = IF j.stage = "hash_submission" THEN clock + 1 ELSE clock]

(* addE2EAuditToLogAsync: the row is published, if there is a channel.     *)
(* The channel was seen open by a task that had to publish; the second     *)
(* disjunct is a row that is lost with the connection.                     *)
AddE2EAuditToLog(j, passed) ==
    LET row == [node |-> j.node, auditDate |-> DateOf(j), stage |-> j.stage, passed |-> passed]
    IN  \/ amqpChannel = "open" /\ log' = log (+) One(row) /\ UNCHANGED faults
        \/ amqpChannel = "open" /\ Fault /\ UNCHANGED log
        \/ amqpChannel = "null" /\ UNCHANGED <<log, faults>>

(* A task ends; or it has done its work and the worker stops before it     *)
(* reports success: the task is then found stuck and put on the failed     *)
(* list.                                                                   *)
Done(j) == jobs (-) One(j)
FailedList(j) == Done(j) (+) One([j EXCEPT !.at = "failed"])

(* An attempt that is followed by another task: the next stage when it     *)
(* passed, the same stage again when it failed.  If enqueueing it fails,   *)
(* nothing is logged and the chain ends here.                              *)
PassStage(j) ==
    /\ Runnable(j) /\ j.stage # "proof_verification"
    /\ jobs' = Done(j) (+) One(Follow(j))
    /\ AddE2EAuditToLog(j, TRUE)
    /\ UNCHANGED <<clock, producer, amqpChannel, verdicts, lost, late>>

(* Mutant: one retry too many. *)
MayRetryTooOften(j) == j.retryCount <= Retries

MayRetry(j) == j.retryCount < Retries

(* Mutant: the failure is logged, but nothing is queued. *)
RetryStageForgotten(j) ==
    /\ Runnable(j) /\ MayRetry(j)
    /\ jobs' = Done(j)
    /\ AddE2EAuditToLog(j, FALSE)
    /\ UNCHANGED <<clock, producer, amqpChannel, verdicts, lost, late>>

RetryStage(j) ==
    /\ Runnable(j) /\ MayRetry(j)
    /\ jobs' = Done(j) (+) One(Retry(j))
    /\ AddE2EAuditToLog(j, FALSE)
    /\ UNCHANGED <<clock, producer, amqpChannel, verdicts, lost, late>>

EnqueueFails(j) ==
    /\ Runnable(j)
    /\ j.stage # "proof_verification" \/ MayRetry(j)
    /\ Fault
    /\ jobs' = Done(j)
    /\ lost' = lost \union {j.node}
    /\ UNCHANGED <<clock, producer, amqpChannel, records, late>>

(* updateE2EAuditScoreAsync: the row and the verdict are published one     *)
(* after the other, with no event of the channel in between; a connection  *)
(* that breaks later may take the verdict, or both.                        *)
UpdateE2EAuditScore(j, auditPass) ==
    LET row == [node |-> j.node, auditDate |-> DateOf(j), stage |-> j.stage,
                passed |-> auditPass]
        verdict == [node |-> j.node, auditDate |-> DateOf(j), auditPass |-> auditPass]
    IN  \/ /\ log' = log (+) One(row)
           /\ verdicts' = verdicts (+) One(verdict)
           /\ UNCHANGED <<lost, faults>>
        \/ /\ Fault
           /\ log' \in {log, log (+) One(row)}
           /\ UNCHANGED verdicts
           /\ lost' = lost \union {j.node}

(* The last retry of a stage fails, or the verification passes: verdict.   *)
Final(j, auditPass) ==
    \/ auditPass /\ j.stage = "proof_verification"
    \/ ~auditPass /\ ~MayRetry(j)

GiveVerdict(j, auditPass) ==
    /\ Runnable(j) /\ Final(j, auditPass)
    /\ amqpChannel = "open"
    /\ jobs' = Done(j)
    /\ UpdateE2EAuditScore(j, auditPass)
    /\ UNCHANGED <<clock, producer, amqpChannel, late>>

(* Without a channel the verdict throws.  A passed verification is then    *)
(* handled as a failed one; the verdict of a last retry throws once more,  *)
(* and the task fails.                                                     *)
VerdictThrows(j, auditPass) ==
    /\ Runnable(j) /\ Final(j, auditPass)
    /\ amqpChannel = "null"
    /\ IF auditPass /\ MayRetry(j)
       THEN \/ jobs' = Done(j) (+) One(Retry(j)) /\ UNCHANGED <<lost, faults>>
            \/ Fault /\ jobs' = Done(j) /\ lost' = lost \union {j.node}
       ELSE jobs' = FailedList(j) /\ UNCHANGED <<lost, faults>>
    /\ UNCHANGED <<clock, producer, amqpChannel, records, late>>

(* The worker stops: before the task has done anything, or when all of it  *)
(* is done but reporting so.                                               *)
Interrupted(j) ==
    LET Logged(passed) == log (+) One([node |-> j.node, auditDate |-> DateOf(j),
                                       stage |-> j.stage, passed |-> passed])
    IN  /\ Runnable(j)
        /\ Fault
        /\ \/ jobs' = FailedList(j) /\ UNCHANGED records
           \/ /\ j.stage # "proof_verification"
              /\ jobs' = FailedList(j) (+) One(Follow(j))
              /\ log' \in {log, Logged(TRUE)} /\ UNCHANGED verdicts
           \/ /\ MayRetry(j)
              /\ jobs' = FailedList(j) (+) One(Retry(j))
              /\ log' \in {log, Logged(FALSE)} /\ UNCHANGED verdicts
           \/ \E auditPass \in BOOLEAN :
                 /\ Final(j, auditPass) /\ amqpChannel = "open"
                 /\ jobs' = FailedList(j)
                 /\ log' = Logged(auditPass)
                 /\ verdicts' = verdicts (+) One([node |-> j.node, auditDate |-> DateOf(j),
                                                  auditPass |-> auditPass])
        /\ UNCHANGED <<clock, producer, amqpChannel, lost, late>>

(* A worker starts: cleanUpWorkersAndRequequeJobsAsync. *)
RequeueFailedJob(j) ==
    /\ BagIn(j, jobs) /\ j.at = "failed"
    /\ jobs' = Done(j) (+) One([j EXCEPT !.at = "queued", !.due = clock])
    /\ UNCHANGED <<clock, producer, amqpChannel, records, lost, late, faults>>

LoseChannel ==
    /\ amqpChannel = "open"
    /\ Fault
    /\ amqpChannel' = "null"
    /\ UNCHANGED <<clock, producer, jobs, records, lost, late>>

OpenChannel ==
    /\ amqpChannel = "null"
    /\ amqpChannel' = "open"
    /\ UNCHANGED <<clock, producer, jobs, records, lost, late, faults>>

-----------------------------------------------------------------------------
(* Time.  A task is worked within its slot, a leader notices the new day,  *)
(* an election is held and the channel is opened again long before three   *)
(* hours have passed; that they are not is a fault.                        *)
Behind ==
    \/ \E j \in BagToSet(jobs) : Runnable(j)
    \/ \E p \in Producer : IS_LEADER[p] /\ (currentDay[p] # Today \/ holder # p)
    \/ holder = NoProducer
    \/ amqpChannel = "null"

(* Nodes with a task that no worker has taken since it was queued. *)
NotBegun ==
    {n \in Node : \E j \in BagToSet(jobs) :
                     j.node = n /\ j.auditDate = NoDate /\ j.at = "queued"}

Tick ==
    /\ clock < MaxClock
    /\ IF Behind THEN Fault ELSE UNCHANGED faults
    /\ clock' = clock + 1
    /\ late' = IF DayOf(clock + 1) = Today THEN late
               ELSE late \union (NotBegun \X {DayOf(clock + 1)})
    /\ UNCHANGED <<producer, jobs, amqpChannel, records, lost>>

Attempt ==
    \E j \in BagToSet(jobs) :
        \/ PassStage(j) \/ RetryStage(j)
        \/ \E auditPass \in BOOLEAN : GiveVerdict(j, auditPass) \/ VerdictThrows(j, auditPass)

Produce == \E p \in Producer : PerformE2ENodeAudit(p)

Next ==
    \/ \E p \in Producer : GainLeadership(p) \/ LeadershipError(p) \/ RestartProducer(p)
    \/ SessionExpires
    \/ Produce
    \/ Attempt
    \/ \E j \in BagToSet(jobs) : EnqueueFails(j) \/ Interrupted(j) \/ RequeueFailedJob(j)
    \/ LoseChannel \/ OpenChannel
    \/ Tick

(* Workers take tasks, the channel is opened again, leaders are elected    *)
(* and time passes.                                                        *)
Fairness ==
    /\ WF_vars(Attempt) /\ WF_vars(OpenChannel) /\ WF_vars(Tick) /\ WF_vars(Produce)
    /\ \A p \in Producer : WF_vars(GainLeadership(p)) /\ WF_vars(LeadershipError(p))

Spec == Init /\ [][Next]_vars
FairSpec == Spec /\ Fairness

-----------------------------------------------------------------------------

(* Types of the variables. *)
TypeOK ==
    /\ clock \in 0..MaxClock
    /\ holder \in Producer \union {NoProducer}
    /\ IS_LEADER \in [Producer -> BOOLEAN]
    /\ currentDay \in [Producer -> Day]
    /\ IsABag(jobs) /\ BagToSet(jobs) \subseteq Job
    /\ amqpChannel \in {"open", "null"}
    /\ IsABag(log) /\ BagToSet(log) \subseteq Row
    /\ IsABag(verdicts) /\ BagToSet(verdicts) \subseteq Verdict
    /\ rounds \in [Day -> Nat]
    /\ started \subseteq Node \X Day
    /\ lost \subseteq Node
    /\ late \subseteq Node \X Day
    /\ faults \in 0..MaxFaults

VerdictsOn(n, d, pass) ==
    LET v == [node |-> n, auditDate |-> d, auditPass |-> pass]
    IN  IF BagIn(v, verdicts) THEN verdicts[v] ELSE 0

(* "Run e2eAuditNodesAsync() once a day, and only if we are on a new day": *)
(* a day has one round, and a Node one verdict.  A new leader, a restart   *)
(* and a task that is run again make it one more, each once: no fault sets *)
(* off a chain of rounds or of verdicts.  Only a day that begins with      *)
(* tasks of the day before may add all of these to its own.                *)
OneVerdictPerFault ==
    /\ \A d \in Day : rounds[d] <= 1 + faults
    /\ \A n \in Node, d \in Day :
          <<n, d>> \notin late =>
              VerdictsOn(n, d, TRUE) + VerdictsOn(n, d, FALSE) <= 1 + faults

(* When a day is over its audits are too, and what is reported of a day to *)
(* a Node is the verdict of that day: 2 hours, 2 retries, 3 hours, 2       *)
(* retries and 2 retries are 23 hours.                                     *)
ReportIsTheVerdict ==
    faults = 0 =>
        \A n \in Node, d \in Day :
            d < Today =>
                /\ (VerdictsOn(n, d, TRUE) = 1) <=> (LastE2EAuditStatus(n, d) = "passed")
                /\ (VerdictsOn(n, d, FALSE) = 1) <=> (LastE2EAuditStatus(n, d) = "failure")

(* Every Node that is queued gets a verdict, unless a task or a message is *)
(* lost, or a task waits on the failed list or for a slot after the last   *)
(* one of the model.                                                       *)
EveryAuditDecided ==
    \A n \in Node, d \in Day :
        <<n, d>> \in started ~>
            \/ \E v \in BagToSet(verdicts) : v.node = n /\ v.auditDate >= d
            \/ n \in lost
            \/ \E j \in BagToSet(jobs) : j.node = n /\ (j.at = "failed" \/ j.due > MaxClock)

=============================================================================
