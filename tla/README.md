# Chainpoint Services: a verification project in TLA+

Chainpoint Core receives hashes over HTTP, aggregates them into Merkle trees, anchors the
trees to a calendar block chain and to Bitcoin, and gives back proofs. It is a set of Node.js
services joined by RabbitMQ queues, a CockroachDB database and Redis. This directory holds
models of its core, the TLC configurations that check them and proofs that TLAPS checks.

Paths below are relative to `src/`.

## Inventory

The way of a hash: the API queues it (`work.agg`); an *aggregator* puts it in a tree and
queues the tree (`work.proofstate`); *proof-state* writes `agg_states` rows; every ten seconds
the *calendar* makes a tree of the new aggregation roots, writes a `cal` block and queues the
calendar state; *proof-state* writes `cal_states` and tells *proof-gen* (`work.gen`), which
builds calendar proofs; every hour the calendar makes a `btc-a` block over all blocks since
the last one and queues the anchor state and the root; *btc-tx* sends a Bitcoin transaction,
*btc-mon* watches it for six confirmations, the calendar writes a `btc-c` block, *proof-state*
writes the confirmation and *proof-gen* builds Bitcoin proofs.

| Component | State it keeps | Operations | What is hard | Correct when |
|---|---|---|---|---|
| Calendar ledger writes (`node-calendar-service/server.js:101-311`, `CalendarBlock.js`) | block table | genesis block, one retried transaction per block | zones race for a height; lost COMMIT replies; retry limit; pool clients | one gapless hash chain; duplicates and give-ups have a known cause |
| Calendar interval (`:672-711`) | stored timestamp in `CoreNetworkState` | query, tree, block, queue, move timestamp | rows visible late; overlapping runs; failure between steps | no aggregation is passed over |
| BTC anchor interval (`:721-754`) | stored height | query, tree, `btc-a` block, two messages, move height | overlapping runs; blocks appended meanwhile; swallowed errors; string comparison | no calendar block is passed over |
| Calendar consumers (`:313-370`, `:583-647`, `:756-843`) | none of their own | btctx, btcmon, reward messages | nack after partial work; payment twice | one confirmation per transaction, one payment per reward |
| Aggregator (`node-aggregator-service/server.js`) | `HASHES`, channel | consume, aggregate, acknowledge | stale delivery tags; loss between publish and acks | acknowledged hashes are in a queued tree |
| Proof state (`node-proof-state-service/server.js`) | none of its own | five message types, pruning | messages in any order, repeated, interleaved, half done | every batch leads to `proof ready` messages |
| Cached proof state (`node-lib/lib/models/cachedProofState.js`) | five tables, four kinds of Redis keys | read through, write, prune | cache and table filled by different batches; Redis outage | a proof's rows belong together |
| Proof generation (`node-proof-gen-service/server.js`) | `taskQueue`, channel | `cal_batch`, `btc_batch` | transient error taken for missing data; failed enqueue | proofs verify, none is given up needlessly |
| Connections (`node-lib/lib/connections.js`) | connections | open, close, elect | reconnection with handlers in progress | – |
| btc-tx, btc-mon | channel; Redis set of transactions, `CHECKS_IN_PROGRESS` | send, log, publish; watch, report, remove | resend after partial failure; nack 30 s later on another channel; stuck flag | a settled root has a transaction on its way; every root is confirmed |
| Task accumulator (`node-task-accumulator-service/server.js`), task handler's write jobs | four pools, four draining flags, channel, task queue | pool, drain in batches, acknowledge; write | pools and flags are not reset together; tags change under a drain | acknowledged messages are in a job; every message is written |
| Audit producer, task handler: end-to-end audits | `currentDay`, leadership; tasks in Redis; E2E log | daily round, three stages with two retries each, report | change of leader, restart around midnight, a task run again, a late retry | one verdict per Node and day; the report is the verdict |
| Audit producer, task handler, TNT reward: audits and rewards | scores, audit log, `LastAuditAtProcessed`, reward messages | audit, poll, draw, pay, reset | entries arrive late and out of order; crash between payment and acknowledgement; publish before reset | each balance check is seen, each reward is paid once |
| API: registration | table of registered Nodes, balance keys | `POST /nodes`, `PUT /nodes/:tnt_addr` | check, then several awaits, then write | a URI and an IP belong to one Node; a response tells what is stored |
| API: other endpoints | HMAC cache | submit a hash, read calendar, configuration | – | – |
| TNT listener | last event, log | log, credit | cannot start at this commit | – |
| TNT transfer | – | transfer with retries | a transfer that reports an error | part of `NodeRewards` |
| NIST beacon, contracts | – | – | pure I/O; other tool chain | not modelled |

The hazards are listed in `PROJECT.json`, each at its line, with the properties that cover it
or, where none does, the reason.

## Modules

**`Ledger`** is the abstract calendar: a set of blocks to which `CreateGenesis` and `Append`
add one block at a time, each extending the tip.

**`CalendarChain`** is the block table as the code writes it. `table` holds committed rows;
`phase[w]` is where write `w` (one call of `executeRetryableBlockWriteTransactionAsync`) is;
`prevBlock[w]` is the row its transaction has read, `retries[w]` async-retry's counter.
`BeginTransaction`, `ReadTopBlock`, `InsertBlock` and `CommitBlock` are the statements of
`writeTransactionAsync`; `FailBegin`, `FailStatement` and `LoseCommitReply` its failures;
`CountBlocks`, `RecountBlocks` and `CreateGenesis` the start of a service. `leaked` counts
clients of `pgClientPool` that were taken and are never released. The database is assumed to
enforce the unique keys and nothing more. It implements `Ledger`
(`L == INSTANCE Ledger WITH Data <- Write, blocks <- table`).

**`CalendarInterval`**: `row`/`created` are the rows of `agg_states` (written, then visible at
most `Latency` later), `marker` the stored timestamp, `run[r]` the local variables of one
invocation, `published` what went to proof-state. One action per await of
`processCalendarInterval`; any number of runs overlap, since neither the scheduler nor the
leader election prevents it. `ASSUME LookbackAssumption` (`Latency < Lookback`) is what the
comment at `node-calendar-service/server.js:680` relies on; the comparison at
`cachedProofState.js:81-87` is strict, so equality would not do.

**`BtcAnchorInterval`**: the calendar is reduced to `height`, the ids of `cal` blocks and the
`btc-a` blocks with the range each covers. One action per await of `processBtcAnchorInterval`.
`Nines` holds ids that compare as greater than longer ones if heights are strings (line 743);
the property holds either way.

**`Aggregator`**: `message`, `out`, `lastTag` are RabbitMQ's view; `HASHES` the work array;
`wire` the AMQP frames an instance has written and the broker has not received: a lost
connection loses a suffix of them. The timer callback `aggregateAsync` awaits nothing that
lets an I/O event in, so it is one action. `StoreAggStates` is the proof state service's
`ConsumeAggregationMessageAsync`, for a tree delivered at any time and any number of times.

**`ProofState`** is the proof state service with the tables and the cache, and
**`ProofPipeline`** adds proof generation, with one action per await in each. An aggregation
stands for all its hashes, whose rows are equal. `redis[s]` is a service's view of Redis:
working, failing commands, or set to null by the error callback. A handler whose channel was
lost goes on (`TakeMessage` allows the message a second handler then, at the cost of a fault).
Nothing keeps a confirmation behind the messages that write the rows it looks up; `early`
remembers the transactions for which one overtook them.

**`BtcConfirm`** follows a Merkle root through btc-tx, the calendar's `btctx` consumer, btc-mon
and the calendar's `btcmon` consumer. Messages are in `queue[s]` or unsettled in `out[s]` with a
delivery tag; `handlers` are the running consumer calls, each at one of its awaits. A handler
survives the channel its message came on and settles its old tag on the channel there is then:
the tag is unknown (the broker closes the channel) or another message's (`mistaken`). One
action per await of `processIncomingAnchorBTCJobAsync`, `consumeBtcTxMessageAsync`,
`processBtcMonMessage`, `consumeBtcTxIdMessageAsync` and `monitorTransactionsAsync`; each has
its failing form; `LoseConnection`, `CloseChannel`, `OpenChannel` and `Crash` are per service.
A publish on a socket that is already dead is lost with whatever follows it on that socket
(`…Cut`, `dropped`).

**`TaskAccumulator`**: `pool[k]`, `DRAINING[k]` and `drains` are a pool, its flag and the running
drain functions; `message`, `out`, `lastTag`, `conn` RabbitMQ's view; `jobs` the batches handed
to resque. The code's four kinds of message differ in what a lost channel and a lost Redis reset
(`AUDIT_LOG_WRITE_POOL`, and the draining flag of the same pool, only), so the model has that one
(`LogKind`) and any number of others. Tags are settled as in `BtcConfirm`. The jobs are the task
handler's four batch writers: `Write` applies a batch, `PerformJobUnnoticed` applies it and fails.

**`E2EAudit`**: time in slots of three hours. `jobs` is the bag of tasks in Redis (queued, delayed
or on the failed list), `log` and `verdicts` what has been written. `PerformE2ENodeAudit` is a
round of the leading producer; `PassStage`, `RetryStage`, `GiveVerdict` are the three task
functions up to their enqueue, score update or both; an interrupted worker leaves its task on the
failed list, from where it is queued again. `Behind` allows a late slot only as a fault.

**`NodeRewards`**: per audit its task, its log row (`unlogged`, then in `rows`) and its score
update (`unscored`), which arrive in any order. `poll[p]` is a call of
`pollForNewAuditDataAsync`, with an action per await (`PollReads`, `PollFinds`, `PollStores`):
every producer polls, polls overlap and each may fail; without a stored time a poll begins
`StartWindow` ago, the 45 minutes of the code. Then leadership and `performRewardAsync` of each
reward service, up to its draw, its publish and its reset, and the calendar's reward consumer with
the transfer and the block: `TransferReward` is a transfer that was made, repeated as long as it
reports an error, each time at the price of a fault; `TransferUnanswered` ends without an answer.
The share of a Core is 0 at every epoch the code defines, so a message names one Node.

**`NodeRegistry`**: the table of registered Nodes and the handlers of `POST /nodes` and
`PUT /nodes/:tnt_addr`, with an action per await: the lookup (`FindConflict`, `FindNode`), the
count of registrations from the source IP, the balance check with its key, the write. Only the
address is a key of the table, so what is checked may have changed when it is written. `writes`
numbers the writes; the history variables tell when a row was checked and when it was written.

`MC*` modules give constants their values, and two of them a bound on the behaviours (`Bound` in
`MCProofPipeline`, the two halves of `MCNodeRewards`); `*Proofs` modules hold the theorems, of several
modules in `CalendarProofs` (`CalendarChain` and `BtcAnchorInterval`, whose specification is named
`AnchorSpec`) and `NodeProofs` (`NodeRegistry` and `NodeRewards`).

## Runs

| Run | Checks | Bounds |
|---|---|---|
| `calendar_chain` | unique gapless heights, linkage, accounting of duplicates, termination of writes, refinement of `Ledger` | 2 services, 3 writes, 1 retry, 3 clients, 1 fault, any number of crashes |
| `calendar_interval` | `NoAggregationSkipped`, `EveryAggregationPublished` | 2 aggregations, 2 overlapping runs, clock 0..3, look-back 2, latency 1, first window 3, 1 fault |
| `btc_anchor` | `CalBlocksHandedOver` | 2 runs, 6 blocks, 2 faults |
| `btc_anchor_queued` | finding 1 | 1 run, 1 fault |
| `aggregator` | acknowledgement, current work, duplicates, immutable rows, progress | 2 instances, 3 hashes, trees of 2, 1 fault |
| `proof_pipeline` | batches and confirmations handed on, proofs verify, nothing given up without a fault | 2 handlers, 1 generator, 3 aggregations in 3 calendar blocks, 2 anchors with a transaction each, 1 fault; the second anchor only with one handler at a time and no fault |
| `btc_confirm` | settled roots are on their way, nothing twice without a fault, order of states, confirmation | 1 root, 3 transactions, 1 fault |
| `task_accumulator` | acknowledged is enqueued, work in progress, every message written | a log message and a score message, batches of 2, 4 deliveries per channel, 4 jobs, 1 fault |
| `task_accumulator_pools` | finding 2 | the same |
| `e2e_audit` | rounds and verdicts per fault, the report is the verdict, every audit decided | 2 producers, 1 Node, 8 slots a day, from slot 7 to slot 17 (33 hours), 1 fault |
| `node_rewards` | payments, rewards and resets accounted for; balance checks seen, keys come | a public and a private Node, 1 round; either 2 reward services, 2 reward periods, 1 fault (2 without audits), or 2 overlapping polls with a window of 1, 3 reward periods, 1 fault |
| `node_registry` | sharing only by overlap, responses tell what is stored | 2 Nodes, 2 URIs, 1 IP, 3 requests, any of which may fail anywhere |

Why the bounds suffice: each hazard needs two actors and one failure or two, and a third write,
hash or request gives the race a bystander. A second calendar block for the same aggregation
exercises the 500 ms look-back, a second anchor the join by transaction. The write batch is 1 so
that batches split. The end-to-end audits run from the last slot of one day over all of the next
and into the third, so that a round, its chain of 23 hours, its report and the next round all fit.
In `proof_pipeline` the first anchor has a hash in two calendar blocks, two handlers and a failure
at any await; the second one is there so that rows of two anchors are in the tables and the cache
at once, and `Bound` lets its messages be handled one at a time while nothing has failed. With one
handler and a failure anywhere in both (3.9 million states) the same properties hold, but that run
takes too long to be repeated often. A second transaction for one anchor, and a batch for the
generator that is split (`GenBatch`), are left to the proofs. In `node_rewards` a behaviour has
polls or rewards, which share nothing but the audits. Three transactions allow a resend of a
resend. One kind of message has the pool that is reset and one has not, which is all that tells
the four apart. The remaining bounds (`MaxClock`, `MaxHeight`, `MaxSent`, `MaxTag`, `MaxJobs`,
`MaxMinute`, `MaxRounds`) leave time for a repetition after the fault; liveness properties excuse
what reaches `MaxSent`, `MaxTag`, `MaxJobs` or `MaxClock`. The proved properties do not depend on
any bound. The source IP in `node_registry` is one, since two requests from different ones cannot
conflict. The symmetry sets of `btc_anchor`, `proof_pipeline` and `node_registry` permute values
that the modules treat alike, in runs without liveness (`AnswersAreStored` is a step property).

`CHECK_DEADLOCK FALSE` is set where the modelled system may stop: every write has finished, the
calendar has reached its bound, or every message, task or request has been handled. The calendar
interval and the aggregator keep going (their timers do) and are checked for deadlock.

**Fairness.** `CalendarChain`: each statement of a write is eventually answered or fails.
`CalendarInterval`: the ten-second timer of some leader keeps firing and its callbacks run,
the reconnection timer fires, committed rows become readable; time itself need not advance.
`Aggregator`: timers fire (weak fairness of each instance and of its aggregation timer), the
broker receives and delivers, and a state message is redelivered until stored. `BtcConfirm`: the
awaited calls of handlers and of the monitor's timer settle, transactions are mined, a service
that is down or whose connection is lost reconnects. `TaskAccumulator`: deliveries, the
one-second timers, the awaited enqueue, the worker and the reconnection timers. `E2EAudit`: the
worker takes due tasks, time passes, the leader's timer fires, elections end. `NodeRewards`: the
poll's interval fires and Redis and the database answer or fail (`MCSpec`). Failures, crashes
and lost channels are never fair and are bounded by `MaxFaults` (crashes of `CalendarChain` end
their writes; requests of `NodeRegistry` may all fail).

## What the runs show

Two statements of the code's comments fail; `PROJECT.json` quotes them under `findings`.

1. A channel lost while the `btc-a` block is written: the error of
   `queueBtcAStateDataMessageAsync` is only logged and the stored height moves on, so these
   calendar blocks are never anchored (`node-calendar-service/server.js:737`, `:548-580`).
2. A lost channel empties one of the four pools of the task accumulator; the others keep
   deliveries that RabbitMQ delivers again (`node-task-accumulator-service/server.js:337`), and
   settle them under tags that now mean other messages.

The models also contain, and the properties excuse by name, these behaviours of the code:

- A service that loses the race for the genesis block keeps a pool client
  (`node-calendar-service/server.js:153-156`, `leaked`).
- Without a stored height the anchor run starts above the latest `btc-a` block, and so above
  blocks appended between that block's query and the block itself: if the height could not be
  stored, nothing anchors these (`node-calendar-service/server.js:727`, `origin` in
  `CalBlocksHandedOver`).
- Where two anchor runs have overlapped, the table may hold the anchor rows of one and the cache
  those of the other, and a generator joins the path to one anchor with the transaction of the
  other (`node-proof-gen-service/server.js:181-183`, `OneAnchor` in `BtcProofsVerify`).
- A hash has neither a proof nor a message once its enqueue has failed, which is only logged
  (`node-proof-gen-service/server.js:293`, `EnqueueFailed`), or once its message was acknowledged
  as unrecoverable (`:186-189`, `GivenUp`): after a failure, a read that fails for a moment
  included, in a confirmation that overtook its rows, where trees overlap, or where the cached row
  of the hash names a calendar block that is in no anchor yet. When all is in order (`InOrder`)
  neither happens, which `BtcProofsVerify` says.
- A confirmation taken before the rows it looks up were written finds fewer hashes
  (`node-proof-state-service/server.js:207`, `early`).
- Where a failed anchor message led to a second transaction, a redelivered `btctx` message puts
  the first one's row back (`cachedProofState.js`, an upsert), and a confirmation that is being
  handled at that moment finds no hashes (`OneTx`).
- A `btcmon` report written to a dead socket is lost (`dropped`), and a rejected `smembers` leaves
  `CHECKS_IN_PROGRESS` set until a restart (`node-btc-mon-service/server.js:72-75`, `monitor.at`
  = "rejected").
- A Redis connection lost during a drain leaves the draining flag of three pools set
  (`node-task-accumulator-service/server.js:310-321`, `Stuck`).
- A new leader of the audit producer may start a second round in a day, since `currentDay` moves
  only in the leader (`node-audit-producer-service/server.js:487-493`); `OneVerdictPerFault`
  bounds the rounds by the faults. A task is dated when it first runs
  (`node-task-handler-service/server.js:373`), so one that waits past midnight counts for the
  next day (`late`). A producer that starts after midnight takes that day's round for made
  (`:487`), and when it leads on the day has none: the rounds are bounded from above only.
- A row of the audit log that arrives behind a newer one, or one as new, is never polled
  (`:328`, `WrittenLate`), nor is one older than 45 minutes while no time is stored (`:322-325`,
  `BeforeWindow`).
- A reward is paid once more for each transfer that reports an error and each delivery of its
  message, and may be paid without a block (`excused`).
- Two overlapping requests may both register a URI or a source IP
  (`node-api-service/lib/endpoints/nodes.js:191`, `:211`, `:335`, `Concurrent`), and a `PUT` to the
  URI its row had when it was read answers without writing (`:403`).

Everything else holds, including what is least obvious: overlapping runs that move a marker back
only repeat work; a retry duplicates a block only if the database hid a COMMIT; redelivered trees
never move a row; a confirmation never misses a hash whose rows it can reach, nor overtakes its
transaction; a drain whose tags have changed meaning never forgets a message that no job holds,
but for the one it settles by mistake; no fault sets off a chain of rounds or of verdicts; no
score is reset without a reward.

## Proofs

| Theorem | Statement | Argument |
|---|---|---|
| `CalendarProofs!HeightsAlwaysSound`, `AlwaysChained` | `[]HeightsSound`, `[]Chained` | `ChainInv`: both, plus that a write's `prevBlock` is a committed row. A commit whose keys are free must extend the tip, since a block above the row it read would carry the same height or previous hash |
| `ChainImplementsLedger` | `Spec => L!Spec` | the same lemma: each step appends to the tip or stutters |
| `EveryBlockAccountedFor` | `[]BlocksAccountedFor` | `CountInv`: the table is finite, and each write's blocks are counted by its lost replies and its outcome; a commit adds a block that was not there, since its height was free |
| `CalendarIntervalProofs!NothingSkipped` | `[]NoAggregationSkipped` | `IntervalInv`: the marker covers what lies a look-back below it (`MarkerInv`), rows are visible within `Latency` (`RowInv`), and a run's tree holds what its interval must hold, given what its base covered when it was read (`RunInv`) |
| `CalendarProofs!NoBlockLeftBehind` | `[]CalBlocksHandedOver` | `AnchorInv`: everything up to the marker is covered, and a run between its query and its end has everything up to its base covered and the rest in its tree |
| `AggregatorProofs!NoHashForgotten` | `[]AckedIsAggregated` | `AckInv`: each ack on the wire follows the publish of a tree holding its hash, and tags identify deliveries of the channel |
| `WorkStaysCurrent` | `[]WorkIsCurrent` | `WorkInv`: a delivery is held once, in `HASHES` or by one frame on the wire, and a tag that is on the wire is in `HASHES` no more; a lost channel empties both |
| `ExtraTreesCostFaults` | `[]ExtraTreesNeedFaults` | each tree on the wire is followed by the acks of its hashes, so a hash that may enter another tree was handed back; its trees, and the one it is still to enter, are bounded by the faults spent on it |
| `RowsAreFinal` | `RowsNeverMove` | per action |
| `TaskAccumulatorProofs!NothingForgotten` | `[]AckedIsEnqueued` | `AccumulatorInv`: an unsettled tag of the current channel names one message, a drain's batch is in a job before it is settled, and every other settlement is counted in `mistaken` |
| `TaskAccumulatorProofs!WorkIsSound` | `[]WorkInProgressIsSound` | the log pool is emptied with its channel; a drain of another kind starts only with its flag down, and nothing else lowers that flag while it runs |
| `NodeProofs!OnlyOverlapShares`, `AnswersTrue` | `[]SharedOnlyByOverlap`, `AnswersAreStored` | `RegistryInv`: what a handler has checked may stop to hold while it waits, but then a write came after the check; so a row that conflicts with the one being written is younger than the check, and the new one is younger than every check |
| `NodeProofs!PollMissesOnlyLate` | `[]BalanceChecksSeen` | `LogInv`: tasks in the log are final, a stored time is that of a row, and the time a poll has read was that of a row, or lies within a window that `windowStart` remembers; a row not newer than a stored time has its key, was written behind that row, or is before the window |
| `NodeProofs!RewardsStayAccountedFor` | `[]RewardsAccountedFor` | `RewardInv` bounds each count together with what may still be added to it: the rewards of a minute with the instances about to pay and the vacant leadership, the payments of a message with its handlers and its place in the queue, the resets of a Node with those pending |
| `ProofPipelineProofs!NoCalBatchForgotten` | `[]CalBatchesHandedOn` | `RowInv`: a row of a table or a cache leads to a tree that its key is in, and what an acknowledged message, or a handler beyond it, stands for has been written; `StoredInv`: a generator acknowledges what it has stored, or what it failed to enqueue, which takes a fault (`NothingLost`, `RedisUp`) |
| `NoConfirmationForgotten` | `[]ConfirmationsHandedOn` | `ConfirmInv`: the handler of a confirmation that came behind its rows has all the hashes that these lead to, and an acknowledged one has handed them on, for the transaction the table holds. Rows written later lead no other hash to the anchor (`LeadsBack`), and the transaction is not replaced by one whose confirmation may have been taken (`NewTxNotReady`), since a message has one handler until something fails (`OneHandler`) |
| `ProofsAlwaysVerify` | `[]BtcProofsVerify` | `GenInv`: what a generator has collected are rows of its hashes' trees, and its transaction is that of one of the anchors found; with one anchor above each hash (`OnlyAnchor`) these belong together. `NeverAbandons`: the rows that a confirmation promises are found, in the cache or the table |
| `BtcConfirmProofs!SettledJobsStayOnTheirWay` | `[]SettledJobsAreOnTheirWay` | `WayInv`: a message leaves the broker only when it is acknowledged, by a call of another message (`mistaken`) or by its own, which has then done its work (`MessageLeaves`); a transaction leaves Redis only once its report is queued |
| `StatesStayInOrder` | `[]StatesInOrder` | `OrderInv`: whatever btc-mon knows of a transaction had its state sent before, and a call that sends a confirmation has written its block |
| `DoneOnceUnlessDisturbed` | `[]OnceUnlessDisturbed` | `Quiet`: without a fault each message is in one place, and each anchor and each transaction in one place on its way |
| `E2EAuditProofs!VerdictsBoundedByFaults` | `[]OneVerdictPerFault` | `BoundInv` bounds each count together with what may still add to it: the rounds of a day with the leaders that have not had theirs and the vacant leadership, the verdicts of a Node for a day with its tasks of that day and, while the day lasts, the rounds it may still have |
| `ReportsAreVerdicts` | `[]ReportIsTheVerdict` | `ReportInv`, while nothing has failed: every task is due by its slot of the day it is of, so a day ends without tasks (`CalmInv`); the rows of a task tell that its stage has not passed and the ones before have, and each row has its task or its verdict (`OutcomeInv`). By `BoundInv` there is only one of these |
| `TypeCorrect` of each module | `[]TypeOK` | per action |

The assumptions are those named in the modules: positive sizes, distinct markers for "no
value", `HomeAssumption`, `KindAssumption`, `NodeAssumption`, `LookbackAssumption` and
`DayAssumption`, a day of at least eight slots: the last attempt of an audit is due in the eighth
slot of its day (two retries of the submission, three hours, two of the retrieval, two of the
verification), the code's 23 hours. All other constants are arbitrary: any number of services,
runs, hashes, messages, requests, retries and faults. TLC evaluates the assumptions in the runs.

Four properties were too strong for the proof, and TLC then showed why on other instances than
the runs': with two transactions for one anchor, a redelivered `btctx` message may put the first
one's row back between the query and the acknowledgement of the second one's confirmation
(`OneTx`); a hash in two calendar blocks of one anchor has two rows to choose from and still one
anchor (`OneAnchor` is about anchors); a hash whose cached row names a block that no anchor
holds yet is given up although the table would lead to one (the premise on `Cal` in
`BtcProofsVerify`); and rounds late in a day, which two leaders may start without knowing of each
other, leave their tasks to the next day if they are not begun, where the verdicts add up with
those of that day's own rounds (`late` in `OneVerdictPerFault`).

Only model-checked: the liveness properties (`WritesFinish`, `EveryAggregationPublished`,
`EveryHashAggregated`, `EveryAnchorConfirmed`, `EveryMessageWritten`, `EveryAuditDecided`,
`KeysCome`), since liveness under fairness is out of the reach
of the proof system. Every safety property and every action property of a passing run is a
theorem; `RegistryTypeOK` is a theorem only.

## Abstractions

- SHA-256 has no collisions: a block hash is the fields it is computed from, a tree is the set
  of its leaves. Merkle paths and the proof format are not modelled yet.
- Cached rows of `ProofPipeline` do not expire and rows are not pruned (both after six hours).
- A generator whose channel was lost is taken to stop there; state handlers are not.
- An acknowledgement by a handler on a new channel with an old delivery tag is modelled in
  `BtcConfirm` and `TaskAccumulator`, not for the proof state service.
- In the two interval modules a message on an open channel reaches the queue.
- `BtcConfirm` has one process of each service, `TaskAccumulator` one accumulator.
- `E2EAudit` and `NodeRewards` take the accumulator's work for granted: a row or an update
  arrives once, or, as a fault, is lost. What makes an attempt fail is not modelled.
- The genesis block is one record, so a second insert of it could not show in the table of
  `CalendarChain`; the client that the loser of that race keeps does (`leaked`).
- Keys in Redis that live for a day do not expire within `NodeRewards`, nor does Redis lose them; in `NodeRegistry` they do
  at any time. Requests of `NodeRegistry` have passed the checks of their format.

## Not modelled

- The Ethereum TNT listener cannot start at this commit: `sequelize`, declared at
  `node-eth-tnt-listener-service/server.js:28`, is never assigned, and l.47 reads a property of
  it before the first event is taken.
- The NIST beacon service polls and broadcasts a value; the endpoints that read the calendar and
  the configuration keep no state that others use; the contracts are another program.
- Whether a submitted hash is accepted (balance key, cached HMAC key) decides nothing that
  another component relies on.
- Pruning (rows six hours old and more), the expiry of cached rows, proof storage in a bucket,
  Merkle paths and the JSON-LD form of proofs: data without control of their own.
- The start of a process and its first connections (`connections.js`): each is retried until it
  succeeds.

## What is left

In this order: delivery tags for the proof state service, with `OneHandler` proved from them;
pruning with its six-hour margin; the acceptance of hashes with its caches.
