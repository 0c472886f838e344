----------------------------- MODULE NodeRewards -----------------------------
(***************************************************************************)
(* From the audits of a Node to its reward.                                *)
(*                                                                         *)
(* In every round node-audit-producer-service queues one audit per         *)
(* registered Node.  node-task-handler-service performs it and publishes a *)
(* row for the audit log and an update of the Node's score, which arrive   *)
(* through the task accumulator at any time and in any order.  Every       *)
(* producer, the leader or not, polls the log each minute and keeps a key  *)
(* in Redis for the Nodes that have passed the balance check; a poll waits *)
(* three times, and polls overlap.  Every period the leading instance of   *)
(* node-tnt-reward-service draws one of the best public Nodes, publishes a *)
(* reward message and resets the Node's score.  node-calendar-service      *)
(* consumes the message: it has the tokens transferred by                  *)
(* node-eth-tnt-tx-service, writes a reward block and acknowledges.        *)
(*                                                                         *)
(* The share of a Core is 0 (calculateCurrentRewardShares), so a reward    *)
(* message names one Node.  A key in Redis lives for a day, longer than    *)
(* what is modelled.                                                       *)
(***************************************************************************)
EXTENDS Integers, Sequences, FiniteSets

CONSTANTS
    Node,           \* registered Nodes, in the order of their registration
    Public,         \* those with a public URI
    Service,        \* instances of the reward service
    NoService,      \* nobody holds the leader's key
    Poller,         \* polls of the audit log that may be under way at a time
    StartWindow,    \* how far back a poll looks that finds no stored time
    SelectionCount, \* REWARD_SELECTION_COUNT: the best Nodes that take part
    MaxMinute,      \* bound on the reward periods
    MaxRounds,      \* bound on the rounds of audits
    MaxFaults       \* bound on faults

ASSUME NodeAssumption == Node \subseteq Nat /\ Public \subseteq Node
ASSUME NoServiceAssumption == NoService \notin Service
ASSUME BoundsAssumption ==
    /\ SelectionCount \in Nat \ {0} /\ StartWindow \in Nat
    /\ MaxMinute \in Nat \ {0} /\ MaxRounds \in Nat /\ MaxFaults \in Nat

VARIABLES
    minute,       \* the reward period it is
    round,        \* rounds of audits so far
    task,         \* per audit: its task and what it found
    unlogged,     \* audits with a row on its way to the log
    unscored,     \* audits with a score update on its way
    rows,         \* chainpoint_node_audit_log, in the order of the inserts
    lastAuditAt,  \* LastAuditAtProcessed in Redis
    balanceKeys,  \* Nodes with a balance check key in Redis
    poll,         \* per call of pollForNewAuditDataAsync: where it is
    windowStart,  \* history: where the latest poll without a stored time began
    auditScore,   \* per Node
    holder,       \* the instance that holds the leader's key
    IS_LEADER,    \* per instance
    currentMinute,\* per instance
    reward,       \* per instance: where performRewardAsync is
    messages,     \* reward messages, in the order of their publication
    handlers,     \* calls of processRewardMessage
    paid, blocks, \* per message: transfers and reward blocks
    excused,      \* history, per message: why it may be paid again
    resets,       \* history, per Node: resets of its score
    lostRewards,  \* history, per Node: messages written to a dead socket
    faults

audits == <<round, task, unlogged, unscored, rows>>
polled == <<lastAuditAt, balanceKeys, poll, windowStart>>
rewarding == <<holder, IS_LEADER, currentMinute, reward, resets, lostRewards>>
paying == <<messages, handlers, paid, blocks, excused>>
vars == <<minute, audits, polled, auditScore, rewarding, paying, faults>>

Audit == (1..MaxRounds) \X Node
Task == [at : {"none", "queued", "failed", "performed"}, time : 0..MaxMinute,
         pass : BOOLEAN, balancePass : BOOLEAN]
Reward == [at : {"idle", "select", "publish", "reset"}, node : Public \union {0}]
RewardMessage == [node : Public, minute : 1..MaxMinute, at : {"ready", "unacked", "acked"}]
Call == [msg : Nat, delivery : Nat, at : {"transfer", "block"}, current : BOOLEAN]

Poll == [at : {"idle", "find", "exec"}, since : Int, upTo : Nat]

Idle == [at |-> "idle", node |-> 0]
NoPoll == [at |-> "idle", since |-> 0, upTo |-> 0]
NotSet == -1     \* no LastAuditAtProcessed in Redis

Fault == faults < MaxFaults /\ faults' = faults + 1
NoFault == UNCHANGED faults

(* Mutant: the score may become negative. *)
AddToScoreUnbounded(score, addend) == score + addend

(* GREATEST(audit_score + addend, 0) *)
AddToScore(score, addend) == IF score + addend >= 0 THEN score + addend ELSE 0

Init ==
    /\ minute = 1
    /\ round = 0
    /\ task = [a \in Audit |-> [at |-> "none", time |-> 0, pass |-> FALSE, balancePass |-> FALSE]]
    /\ unlogged = {} /\ unscored = {} /\ rows = <<>>
    /\ lastAuditAt = NotSet /\ balanceKeys = {}
    /\ poll = [p \in Poller |-> NoPoll] /\ windowStart = 0
    /\ auditScore = [n \in Node |-> 0]
    /\ holder = NoService
    /\ IS_LEADER = [s \in Service |-> FALSE]
    /\ currentMinute = [s \in Service |-> 1]
    /\ reward = [s \in Service |-> Idle]
    /\ messages = <<>> /\ handlers = {}
    /\ paid = <<>> /\ blocks = <<>> /\ excused = <<>>
    /\ resets = [n \in Node |-> 0] /\ lostRewards = [n \in Node |-> 0]
    /\ faults = 0

-----------------------------------------------------------------------------
(* Audits.                                                                 *)

(* auditNodesAsync queues a task per Node, skipping those for which that   *)
(* fails, and takes 1 off the score of every private Node.                 *)
AuditNodes ==
    /\ round < MaxRounds
    /\ round' = round + 1
    /\ \E skipped \in SUBSET Node :
          /\ (skipped = {} /\ NoFault) \/ (skipped # {} /\ Fault)
          /\ task' = [a \in Audit |->
                         IF a[1] = round' /\ a[2] \notin skipped
                         THEN [task[a] EXCEPT !.at = "queued"] ELSE task[a]]
    /\ auditScore' = [n \in Node |-> IF n \in Public THEN auditScore[n]
                                     ELSE AddToScore(auditScore[n], -1)]
    /\ UNCHANGED <<minute, unlogged, unscored, rows, polled, rewarding, paying>>

(* performAuditPublicAsync and performAuditPrivateAsync: an audit passes   *)
(* when every check does, the balance check among them; a private Node's   *)
(* never passes.  addAuditToLogAsync publishes the row, then the score     *)
(* update.                                                                 *)
Findings(a) ==
    {f \in [pass : BOOLEAN, balancePass : BOOLEAN] :
        f.pass => f.balancePass /\ a[2] \in Public}

PerformAudit(a) ==
    /\ task[a].at = "queued"
    /\ \E f \in Findings(a) :
          task' = [task EXCEPT ![a] = [at |-> "performed", time |-> minute, pass |-> f.pass,
                                       balancePass |-> f.balancePass]]
    /\ \/ /\ NoFault
          /\ unlogged' = unlogged \union {a}
          /\ unscored' = unscored \union {a}
       \/ /\ Fault              \* the connection breaks behind the row, or before it
          /\ unlogged' \in {unlogged, unlogged \union {a}}
          /\ UNCHANGED unscored
    /\ UNCHANGED <<minute, round, rows, polled, auditScore, rewarding, paying>>

(* Without a channel nothing is published and the task fails. *)
AuditThrows(a) ==
    /\ task[a].at = "queued"
    /\ Fault
    /\ task' = [task EXCEPT ![a].at = "failed"]
    /\ UNCHANGED <<minute, round, unlogged, unscored, rows, polled, auditScore,
                   rewarding, paying>>

(* cleanUpWorkersAndRequequeJobsAsync, when a worker starts. *)
RequeueFailedJob(a) ==
    /\ task[a].at = "failed"
    /\ task' = [task EXCEPT ![a].at = "queued"]
    /\ UNCHANGED <<minute, round, unlogged, unscored, rows, polled, auditScore,
                   rewarding, paying, faults>>

(* writeAuditLogItemsAsync *)
WriteAuditLog(a) ==
    /\ a \in unlogged
    /\ unlogged' = unlogged \ {a}
    /\ rows' = Append(rows, a)
    /\ UNCHANGED <<minute, round, task, unscored, polled, auditScore, rewarding, paying,
                   faults>>

(* updateAuditScoreItemsAsync *)
UpdateAuditScore(a) ==
    /\ a \in unscored
    /\ unscored' = unscored \ {a}
    /\ auditScore' = [auditScore EXCEPT ![a[2]] = AddToScore(@, IF task[a].pass THEN 1 ELSE -1)]
    /\ UNCHANGED <<minute, round, task, unlogged, rows, polled, rewarding, paying,
                   faults>>

-----------------------------------------------------------------------------
(* pollForNewAuditDataAsync, which every producer calls each minute.  A    *)
(* call that fails logs the error and ends; one whose first read fails has *)
(* done nothing.                                                           *)

(* Mutant: without a stored time a poll begins now. *)
SinceNow == IF lastAuditAt = NotSet THEN minute ELSE lastAuditAt

(* "this value has not been initialized yet, set to 45 minutes ago" *)
Since == IF lastAuditAt = NotSet THEN minute - StartWindow ELSE lastAuditAt

(* redis.get *)
PollReads(p) ==
    /\ poll[p] = NoPoll
    /\ poll' = [poll EXCEPT ![p] = [at |-> "find", since |-> Since, upTo |-> 0]]
    /\ windowStart' = IF lastAuditAt = NotSet /\ minute - StartWindow > windowStart
                      THEN minute - StartWindow ELSE windowStart
    /\ UNCHANGED <<minute, audits, lastAuditAt, balanceKeys, auditScore, rewarding, paying,
                   faults>>

RowsSince(t, upTo) == {n \in 1..upTo : task[rows[n]].time > t}

(* NodeAuditLog.findAll; without new rows the poll is over. *)
PollFinds(p) ==
    /\ poll[p].at = "find"
    /\ LET found == RowsSince(poll[p].since, Len(rows))
       IN  \/ /\ found # {} /\ NoFault
              /\ poll' = [poll EXCEPT ![p] = [at |-> "exec", since |-> poll[p].since,
                                              upTo |-> Len(rows)]]
           \/ /\ (found = {} /\ NoFault) \/ Fault
              /\ poll' = [poll EXCEPT ![p] = NoPoll]
    /\ UNCHANGED <<minute, audits, lastAuditAt, balanceKeys, windowStart, auditScore, rewarding,
                   paying>>

FoundRows(p) == RowsSince(poll[p].since, poll[p].upTo)

(* Mutant: the time of the poll is remembered, not that of a row. *)
RememberPoll(p) == lastAuditAt' = minute

(* The newest auditAt of the rows found, those that failed included. *)
RememberNewest(p) ==
    lastAuditAt' \in {t \in {task[rows[n]].time : n \in FoundRows(p)} :
                         \A n \in FoundRows(p) : task[rows[n]].time <= t}

(* multi.exec, which sets the keys and the time in one transaction: a poll *)
(* that began earlier may set the time back.                               *)
PollStores(p) ==
    /\ poll[p].at = "exec"
    /\ \/ /\ balanceKeys' = balanceKeys \union
                  {rows[n][2] : n \in {k \in FoundRows(p) : task[rows[k]].balancePass}}
          /\ RememberNewest(p)
          /\ NoFault
       \/ Fault /\ UNCHANGED <<lastAuditAt, balanceKeys>>
    /\ poll' = [poll EXCEPT ![p] = NoPoll]
    /\ UNCHANGED <<minute, audits, windowStart, auditScore, rewarding, paying>>

PollStep(p) == PollReads(p) \/ PollFinds(p) \/ PollStores(p)

-----------------------------------------------------------------------------
(* The reward service.                                                     *)

GainLeadership(s) ==
    /\ holder = NoService /\ ~IS_LEADER[s]
    /\ holder' = s
    /\ IS_LEADER' = [IS_LEADER EXCEPT ![s] = TRUE]
    /\ UNCHANGED <<minute, audits, polled, auditScore, currentMinute, reward, resets,
                   lostRewards, paying, faults>>

SessionExpires ==
    /\ holder # NoService
    /\ Fault
    /\ holder' = NoService
    /\ UNCHANGED <<minute, audits, polled, auditScore, IS_LEADER, currentMinute, reward,
                   resets, lostRewards, paying>>

LeadershipError(s) ==
    /\ IS_LEADER[s] /\ holder # s
    /\ IS_LEADER' = [IS_LEADER EXCEPT ![s] = FALSE]
    /\ UNCHANGED <<minute, audits, polled, auditScore, holder, currentMinute, reward,
                   resets, lostRewards, paying, faults>>

RememberMinute(s) == currentMinute' = [currentMinute EXCEPT ![s] = minute]

(* setTNTRewardTrigger: a new minute, noted whether or not s leads. *)
RewardTrigger(s) ==
    /\ currentMinute[s] # minute /\ reward[s] = Idle
    /\ RememberMinute(s)
    /\ reward' = IF IS_LEADER[s] THEN [reward EXCEPT ![s].at = "select"] ELSE reward
    /\ UNCHANGED <<minute, audits, polled, auditScore, holder, IS_LEADER, resets,
                   lostRewards, paying, faults>>

(* The public Nodes by score and, among equals, by registration. *)
Before(m, n) ==
    \/ auditScore[m] > auditScore[n]
    \/ auditScore[m] = auditScore[n] /\ m < n
Candidates == {n \in Public : Cardinality({m \in Public : Before(m, n)}) < SelectionCount}

(* performRewardAsync up to the draw; a failing query, or no candidate,    *)
(* ends it.                                                                *)
SelectNode(s) ==
    /\ reward[s].at = "select"
    /\ \/ /\ \E n \in Candidates : reward' = [reward EXCEPT ![s] = [at |-> "publish", node |-> n]]
          /\ NoFault
       \/ reward' = [reward EXCEPT ![s] = Idle] /\ ((Candidates = {} /\ NoFault) \/ Fault)
    /\ UNCHANGED <<minute, audits, polled, auditScore, holder, IS_LEADER, currentMinute,
                   resets, lostRewards, paying>>

Message(n, t) == [node |-> n, minute |-> t, at |-> "ready"]

(* The share and the Core are computed and the message is published; or it *)
(* goes to a dead socket; or there is no channel, and the score stays.     *)
SendReward(s) ==
    /\ messages' = Append(messages, Message(reward[s].node, minute))
    /\ paid' = Append(paid, 0) /\ blocks' = Append(blocks, 0)
    /\ excused' = Append(excused, 0)

LoseReward(s) ==
    /\ Fault
    /\ lostRewards' = [lostRewards EXCEPT ![reward[s].node] = @ + 1]
    /\ UNCHANGED <<messages, paid, blocks, excused>>

PublishReward(s) ==
    /\ reward[s].at = "publish"
    /\ \/ /\ SendReward(s) /\ UNCHANGED <<lostRewards, faults>>
          /\ reward' = [reward EXCEPT ![s].at = "reset"]
       \/ LoseReward(s) /\ reward' = [reward EXCEPT ![s].at = "reset"]
       \/ /\ Fault /\ UNCHANGED <<messages, paid, blocks, excused, lostRewards>>
          /\ reward' = [reward EXCEPT ![s] = Idle]
    /\ UNCHANGED <<minute, audits, polled, auditScore, holder, IS_LEADER, currentMinute,
                   resets, handlers>>

(* "we must reset the rewarded Node's audit score back to 0": the update   *)
(* may fail, after the message has left.                                   *)
ResetScore(s) ==
    /\ reward[s].at = "reset"
    /\ \/ /\ auditScore' = [auditScore EXCEPT ![reward[s].node] = 0]
          /\ resets' = [resets EXCEPT ![reward[s].node] = @ + 1]
          /\ NoFault
       \/ Fault /\ UNCHANGED <<auditScore, resets>>
    /\ reward' = [reward EXCEPT ![s] = Idle]
    /\ UNCHANGED <<minute, audits, polled, holder, IS_LEADER, currentMinute,
                   lostRewards, paying>>

-----------------------------------------------------------------------------
(* The calendar service.  A handler belongs to the channel its message     *)
(* came on; on a new channel its acknowledgement finds no such delivery    *)
(* (module BtcConfirm models the tags, and what a stale one can hit).      *)

Handler(m) == [msg |-> m, delivery |-> excused[m], at |-> "transfer", current |-> TRUE]

DeliverReward(m) ==
    /\ messages[m].at = "ready"
    /\ messages' = [messages EXCEPT ![m].at = "unacked"]
    /\ handlers' = handlers \union {Handler(m)}
    /\ UNCHANGED <<minute, audits, polled, auditScore, rewarding, paid, blocks, excused,
                   faults>>

(* amqpChannel.ack(msg), as the handler's last step. *)
AckAndLeave(h) ==
    /\ handlers' = handlers \ {h}
    /\ messages' = IF h.current THEN [messages EXCEPT ![h.msg].at = "acked"] ELSE messages

MoveOn(h) ==
    /\ handlers' = (handlers \ {h}) \union {[h EXCEPT !.at = "block"]}
    /\ UNCHANGED messages

(* sendTNTRewardAsync and postTransferV1Async.  A transfer that was made   *)
(* but reported an error is made again, "retries: 10", each time at the    *)
(* price of a fault; one that was not made may as well not have been       *)
(* tried.  No answer within 30 seconds, or only errors, is a null          *)
(* transaction id, whether or not the last transfer was made, and a null   *)
(* id is acknowledged without a block.  What is still repeated behind the  *)
(* 30 seconds is counted before them.                                      *)
TransferReward(h) ==
    /\ h.at = "transfer"
    /\ paid' = [paid EXCEPT ![h.msg] = @ + 1]
    /\ \/ MoveOn(h) /\ UNCHANGED <<excused, faults>>
       \/ /\ Fault           \* reported as an error
          /\ excused' = [excused EXCEPT ![h.msg] = @ + 1]
          /\ UNCHANGED <<messages, handlers>>
    /\ UNCHANGED <<minute, audits, polled, auditScore, rewarding, blocks>>

TransferUnanswered(h) ==
    /\ h.at = "transfer"
    /\ Fault
    /\ paid' \in {paid, [paid EXCEPT ![h.msg] = @ + 1]}
    /\ AckAndLeave(h)
    /\ UNCHANGED <<minute, audits, polled, auditScore, rewarding, blocks, excused>>

(* Mutant: a reward without its block is handed back and tried again. *)
CreateRewardBlockNack(h) ==
    /\ h.at = "block"
    /\ \/ blocks' = [blocks EXCEPT ![h.msg] = @ + 1] /\ AckAndLeave(h) /\ NoFault
       \/ /\ Fault
          /\ handlers' = handlers \ {h}
          /\ messages' = [messages EXCEPT ![h.msg].at = "ready"]
          /\ UNCHANGED blocks
    /\ UNCHANGED <<minute, audits, polled, auditScore, rewarding, paid, excused>>

(* createRewardBlockAsync: the block is written, or given up; the message  *)
(* is acknowledged either way, "to avoid distribution again".              *)
CreateRewardBlock(h) ==
    /\ h.at = "block"
    /\ \/ blocks' = [blocks EXCEPT ![h.msg] = @ + 1] /\ NoFault
       \/ Fault /\ UNCHANGED blocks
    /\ AckAndLeave(h)
    /\ UNCHANGED <<minute, audits, polled, auditScore, rewarding, paid, excused>>

Unacked == {m \in DOMAIN messages : messages[m].at = "unacked"}

Requeue ==
    /\ messages' = [m \in DOMAIN messages |->
                       [messages[m] EXCEPT !.at = IF m \in Unacked THEN "ready" ELSE @]]
    /\ excused' = [m \in DOMAIN messages |-> excused[m] + (IF m \in Unacked THEN 1 ELSE 0)]

(* The connection is lost and opened again: what was not acknowledged is   *)
(* queued again, while its handlers go on.                                 *)
LoseCalendarChannel ==
    /\ Fault
    /\ Requeue
    /\ handlers' = {[h EXCEPT !.current = FALSE] : h \in handlers}
    /\ UNCHANGED <<minute, audits, polled, auditScore, rewarding, paid, blocks>>

CrashCalendar ==
    /\ Fault
    /\ Requeue
    /\ handlers' = {}
    /\ UNCHANGED <<minute, audits, polled, auditScore, rewarding, paid, blocks>>

-----------------------------------------------------------------------------

(* The heartbeat sees every minute, and a reward is published within its   *)
(* own.                                                                    *)
Tick ==
    /\ minute < MaxMinute
    /\ \A s \in Service : currentMinute[s] = minute /\ reward[s] = Idle
    /\ minute' = minute + 1
    /\ UNCHANGED <<audits, polled, auditScore, rewarding, paying, faults>>

RewardStep(s) == RewardTrigger(s) \/ SelectNode(s) \/ PublishReward(s) \/ ResetScore(s)
CalendarStep ==
    \/ \E m \in DOMAIN messages : DeliverReward(m)
    \/ \E h \in handlers : TransferReward(h) \/ TransferUnanswered(h) \/ CreateRewardBlock(h)

Next ==
    \/ Tick
    \/ AuditNodes
    \/ \E a \in Audit : \/ PerformAudit(a) \/ AuditThrows(a) \/ RequeueFailedJob(a)
                        \/ WriteAuditLog(a) \/ UpdateAuditScore(a)
    \/ \E p \in Poller : PollStep(p)
    \/ \E s \in Service : GainLeadership(s) \/ LeadershipError(s) \/ RewardStep(s)
    \/ SessionExpires
    \/ CalendarStep
    \/ LoseCalendarChannel \/ CrashCalendar

Spec == Init /\ [][Next]_vars

-----------------------------------------------------------------------------

(* Types of the variables; every message has its history, every handler    *)
(* its message, and a reward that is being published its Node.             *)
AuditsTyped ==
    /\ minute \in 1..MaxMinute /\ round \in 0..MaxRounds
    /\ task \in [Audit -> Task]
    /\ unlogged \subseteq Audit /\ unscored \subseteq Audit /\ rows \in Seq(Audit)
    /\ lastAuditAt \in (0..MaxMinute) \union {NotSet} /\ balanceKeys \subseteq Node
    /\ poll \in [Poller -> Poll] /\ \A p \in Poller : poll[p].upTo <= Len(rows)
    /\ windowStart \in Int
    /\ auditScore \in [Node -> Nat]

RewardsTyped ==
    /\ holder \in Service \union {NoService}
    /\ IS_LEADER \in [Service -> BOOLEAN]
    /\ currentMinute \in [Service -> 1..MaxMinute]
    /\ reward \in [Service -> Reward]
    /\ \A s \in Service : reward[s].at \in {"publish", "reset"} => reward[s].node \in Public
    /\ resets \in [Node -> Nat] /\ lostRewards \in [Node -> Nat]

PaymentsTyped ==
    /\ messages \in Seq(RewardMessage)
    /\ \A history \in {paid, blocks, excused} :
          history \in Seq(Nat) /\ Len(history) = Len(messages)
    /\ handlers \subseteq Call
    /\ \A h \in handlers : h.msg \in DOMAIN messages

TypeOK == AuditsTyped /\ RewardsTyped /\ PaymentsTyped /\ faults \in 0..MaxFaults

(* A reward period has one reward, unless leadership changed hands in it;  *)
(* a reward has a block only if it was paid, and is paid once, unless its  *)
(* message was delivered again or its transfer reported an error; and a    *)
(* Node's score is only reset for a reward, sent or written to a dead      *)
(* socket.                                                                 *)
RewardsOf(t) == {m \in DOMAIN messages : messages[m].minute = t}

RewardsAccountedFor ==
    /\ \A t \in 1..MaxMinute : Cardinality(RewardsOf(t)) <= 1 + faults
    /\ \A m \in DOMAIN messages : blocks[m] <= paid[m] /\ paid[m] <= 1 + excused[m]
    /\ \A n \in Node :
          resets[n] <= Cardinality({m \in DOMAIN messages : messages[m].node = n})
                           + lostRewards[n]

(* "Retrieved new audit log data since LAST_AUDIT_AT_PROCESSED": the time  *)
(* stored never passes a balance check in the log that was passed and has  *)
(* no key, however polls overlap and set it back - with two exceptions,    *)
(* both of which the code makes: a row written behind one that is as new   *)
(* or newer, and a row of an audit before the window of a poll that found  *)
(* no stored time.                                                         *)
WrittenLate(n) == \E k \in 1..(n - 1) : task[rows[k]].time >= task[rows[n]].time
BeforeWindow(n) == task[rows[n]].time <= windowStart

BalanceChecksSeen ==
    \A n \in DOMAIN rows :
        task[rows[n]].balancePass /\ ~WrittenLate(n) /\ ~BeforeWindow(n) =>
            \/ rows[n][2] \in balanceKeys
            \/ lastAuditAt = NotSet \/ task[rows[n]].time > lastAuditAt

(* "creates/updates balance check redis keys as needed": a passed balance  *)
(* check that is in the log gets its key in the end, with the same two     *)
(* exceptions; polls that find no stored time go on until one of them has  *)
(* stored one.                                                             *)
Due(a) ==
    \E n \in DOMAIN rows : rows[n] = a /\ task[a].balancePass /\ ~WrittenLate(n)

KeysCome ==
    \A a \in Audit : Due(a) ~> (a[2] \in balanceKeys \/ task[a].time <= windowStart)

=============================================================================
