----------------------------- MODULE BtcConfirm -----------------------------
(***************************************************************************)
(* From an anchor's Merkle root to the confirmation of its Bitcoin         *)
(* transaction: node-btc-tx-service and node-btc-mon-service, and the      *)
(* consumers of the calendar service that stand between them.              *)
(*                                                                         *)
(*   work.btctx --> btc-tx --> work.cal --> calendar --> work.btcmon       *)
(*   --> btc-mon (a set in Redis) --> work.cal --> calendar                *)
(*                                                                         *)
(* One process of each service.  RabbitMQ numbers deliveries per channel   *)
(* and requeues what a lost channel has not settled; a handler that was    *)
(* awaiting something then goes on, and settles its old delivery on        *)
(* whatever channel is the current one.                                    *)
(***************************************************************************)
EXTENDS Naturals, Sequences, FiniteSets

CONSTANTS
    Anchor,         \* roots that the calendar queues, one message each
    MaxFaults,      \* model bound: lost connections, crashes, failed calls
    MaxSent         \* model bound: transactions sent

ASSUME BoundsAssumption == MaxFaults \in Nat /\ MaxSent \in Nat

VARIABLES
    queued,     \* the anchors that have been queued on work.btctx
    queue,      \* the ready messages of the queue each service consumes
    out,        \* unsettled deliveries of each service's channel
    lastTag,    \* delivery tags are counted per channel
    conn,       \* the number of the channel a service is on
    channel,    \* "lost": the socket is dead and the close event is to come;
                \* "closed": amqpChannel is null
    mistaken,   \* messages acknowledged by the handler of another message
    handlers,   \* the running calls of the consumers
    sent,       \* the anchor of each transaction sent to the Bitcoin network
    confirmed,  \* transactions with MIN_BTC_CONFIRMS confirmations
    BTCTxIds,   \* BTC_TX_IDS_KEY, the set of transactions in Redis
    monitor,    \* monitorTransactionsAsync: where it is, and its work
    reports,    \* how often each confirmation has been published
    handed,     \* how often each transaction has been handed to btc-mon
    blocks,     \* btc-c blocks written for each transaction
    states,     \* what has been queued for the proof state service
    dropped,    \* transactions whose confirmation was written to a dead socket
    faults

broker == <<queue, out, lastTag, conn, channel, mistaken>>
bitcoin == <<sent, confirmed>>
btcmon == <<BTCTxIds, monitor, reports, dropped>>
calendar == <<handed, blocks, states>>
vars == <<queued, broker, handlers, bitcoin, btcmon, calendar, faults>>

Service == {"btc-tx", "calendar", "btc-mon"}

(* Transactions are numbered in the order they are sent; copies of a       *)
(* message are told apart by a number of their own.                        *)
Tx == DOMAIN sent
Job(a) == [type |-> "job", of |-> a, copy |-> 0]
TxMsg(t) == [type |-> "btctx", of |-> t, copy |-> 0]
TxIdMsg(t, n) == [type |-> "txid", of |-> t, copy |-> n]
MonMsg(t, n) == [type |-> "btcmon", of |-> t, copy |-> n]

JobMsgs == {Job(a) : a \in Anchor}
TxMsgs == {TxMsg(t) : t \in Tx}
TxIdMsgs == UNION {{TxIdMsg(t, n) : n \in 1..handed[t]} : t \in Tx}
MonMsgs == UNION {{MonMsg(t, n) : n \in 1..reports[t]} : t \in Tx}

(* What a service may find in its queue. *)
WorkOf(s) == CASE s = "btc-tx" -> JobMsgs
               [] s = "calendar" -> TxMsgs \cup MonMsgs
               [] s = "btc-mon" -> TxIdMsgs

Idle == [at |-> "idle", todo |-> {}, tx |-> 0]

-----------------------------------------------------------------------------

Init ==
    /\ queued = {}
    /\ queue = [s \in Service |-> {}]
    /\ out = [s \in Service |-> {}]
    /\ lastTag = [s \in Service |-> 0]
    /\ conn = [s \in Service |-> 0]
    /\ channel = [s \in Service |-> "open"]
    /\ mistaken = {}
    /\ handlers = {}
    /\ sent = <<>>
    /\ confirmed = {}
    /\ BTCTxIds = {}
    /\ monitor = Idle
    /\ reports = <<>>
    /\ handed = <<>>
    /\ blocks = <<>>
    /\ states = {}
    /\ dropped = {}
    /\ faults = 0

Fault == faults < MaxFaults /\ faults' = faults + 1

(* queueBtcAStateDataMessageAsync of the calendar. *)
QueueAnchor(a) ==
    /\ a \notin queued
    /\ queued' = queued \cup {a}
    /\ queue' = [queue EXCEPT !["btc-tx"] = @ \cup {Job(a)}]
    /\ UNCHANGED <<out, lastTag, conn, channel, mistaken, handlers, bitcoin, btcmon, calendar,
                   faults>>

(* A message is delivered to its consumer; there is no prefetch limit. *)
Deliver(s) ==
    \E msg \in queue[s] :
        LET tag == lastTag[s] + 1 IN
        /\ channel[s] = "open"
        /\ queue' = [queue EXCEPT ![s] = @ \ {msg}]
        /\ lastTag' = [lastTag EXCEPT ![s] = tag]
        /\ out' = [out EXCEPT ![s] = @ \cup {[tag |-> tag, msg |-> msg]}]
        /\ handlers' = handlers \cup {[svc |-> s, conn |-> conn[s], tag |-> tag,
                                       msg |-> msg, at |-> "start", tx |-> 0]}
        /\ UNCHANGED <<queued, conn, channel, mistaken, bitcoin, btcmon, calendar, faults>>

-----------------------------------------------------------------------------
(* Frames that a handler writes: what it publishes, then the settlement of *)
(* its delivery.                                                           *)

(* The queues after service s has published, and lost, or settled, what is *)
(* on its channel.                                                         *)
Published(s, pubs) == [r \in Service |-> queue[r] \cup {p.msg : p \in {x \in pubs : x.to = r}}]
Requeued(s, pubs) == [Published(s, pubs) EXCEPT ![s] = @ \cup {d.msg : d \in out[s]}]

Lose(s, pubs) ==
    /\ queue' = Requeued(s, pubs)
    /\ out' = [out EXCEPT ![s] = {}]
    /\ channel' = [channel EXCEPT ![s] = "lost"]
    /\ UNCHANGED <<lastTag, conn>>

(* An unknown delivery tag is a channel error: the broker closes it. *)
SettleWith(s, tag, pubs, back) ==
    LET settled == {d \in out[s] : d.tag = tag}
        returned == IF back THEN {d.msg : d \in settled} ELSE {} IN
    \/ /\ settled # {}
       /\ queue' = [Published(s, pubs) EXCEPT ![s] = @ \cup returned]
       /\ out' = [out EXCEPT ![s] = @ \ settled]
       /\ UNCHANGED <<lastTag, conn, channel>>
    \/ settled = {} /\ Lose(s, pubs)

(* channel.ack(msg) after the messages pubs, on an open channel or on one  *)
(* whose socket is already dead; and channel.nack(msg).                    *)
Ack(h, pubs) ==
    \/ /\ channel[h.svc] = "open"
       /\ SettleWith(h.svc, h.tag, pubs, FALSE)
       /\ mistaken' = mistaken \cup
             {d.msg : d \in {x \in out[h.svc] : x.tag = h.tag /\ x.msg # h.msg}}
    \/ channel[h.svc] = "lost" /\ UNCHANGED broker

Nack(h) ==
    \/ /\ channel[h.svc] = "open"
       /\ SettleWith(h.svc, h.tag, {}, TRUE)
       /\ UNCHANGED mistaken
    \/ channel[h.svc] = "lost" /\ UNCHANGED broker

Advance(h, at, tx) == handlers' = (handlers \ {h}) \cup {[h EXCEPT !.at = at, !.tx = tx]}
Return(h) == handlers' = handlers \ {h}

-----------------------------------------------------------------------------
(* node-btc-tx-service: processIncomingAnchorBTCJobAsync *)

(* sendTxToBTCAsync: the fee is estimated and the transaction sent. *)
SendTx(h) ==
    /\ h.svc = "btc-tx" /\ h.at = "start"
    /\ Len(sent) < MaxSent
    /\ sent' = Append(sent, h.msg.of)
    /\ reports' = Append(reports, 0)
    /\ handed' = Append(handed, 0)
    /\ blocks' = Append(blocks, 0)
    /\ Advance(h, "sent", Len(sent) + 1)
    /\ UNCHANGED <<queued, broker, confirmed, BTCTxIds, monitor, dropped, states, faults>>

(* The service that sends it answers with an error. *)
SendTxFails(h) ==
    /\ h.svc = "btc-tx" /\ h.at = "start"
    /\ Fault
    /\ Advance(h, "failed", 0)
    /\ UNCHANGED <<queued, broker, bitcoin, btcmon, calendar>>

(* logBtcTxDataAsync has written its row: the transaction is published for *)
(* the calendar and the job acknowledged.                                  *)
QueueBtcTx(h) ==
    /\ h.svc = "btc-tx" /\ h.at = "sent"
    /\ channel["btc-tx"] # "closed"
    /\ Ack(h, {[to |-> "calendar", msg |-> TxMsg(h.tx)]})
    /\ Return(h)
    /\ UNCHANGED <<queued, bitcoin, btcmon, calendar, faults>>

(* The row is not written (a fault), or there is no channel to publish on. *)
QueueBtcTxFails(h) ==
    /\ h.svc = "btc-tx" /\ h.at = "sent"
    /\ \/ Fault
       \/ channel["btc-tx"] = "closed" /\ UNCHANGED faults
    /\ Advance(h, "failed", h.tx)
    /\ UNCHANGED <<queued, broker, bitcoin, btcmon, calendar>>

(* Mutant: a failed job is acknowledged. *)
AckLater(h) ==
    /\ h.svc = "btc-tx" /\ h.at = "failed"
    /\ channel["btc-tx"] # "closed" /\ Ack(h, {}) /\ Return(h)
    /\ UNCHANGED <<queued, bitcoin, btcmon, calendar, faults>>

(* setTimeout(() => { amqpChannel.nack(msg) }, 30000).  Without a channel  *)
(* the timer's callback throws, which ends the process.                    *)
NackLater(h) ==
    /\ h.svc = "btc-tx" /\ h.at = "failed"
    /\ \/ channel["btc-tx"] # "closed" /\ Nack(h) /\ Return(h)
       \/ /\ channel["btc-tx"] = "closed"
          /\ handlers' = {g \in handlers : g.svc # "btc-tx"}
          /\ UNCHANGED broker
    /\ UNCHANGED <<queued, bitcoin, btcmon, calendar, faults>>

-----------------------------------------------------------------------------
(* node-calendar-service: consumeBtcTxMessageAsync, processBtcMonMessage *)

TrackTx(t) ==
    /\ handed' = [handed EXCEPT ![t] = @ + 1]
    /\ states' = states \cup {<<"btctx", t>>}
    /\ UNCHANGED blocks

(* Mutant: the transaction is put on the calendar's own queue. *)
ToCalendar(t) == {[to |-> "calendar", msg |-> TxIdMsg(t, handed[t] + 1)]}

ToBtcMon(t) == {[to |-> "btc-mon", msg |-> TxIdMsg(t, handed[t] + 1)]}

(* Mutant: the transaction is handed to btc-mon first, and the connection  *)
(* is lost before its state is published.                                  *)
ConsumeBtcTxMessageCutSwapped(h) ==
    /\ h.svc = "calendar" /\ h.at = "start" /\ h.msg.type = "btctx"
    /\ channel["calendar"] = "open"
    /\ Fault
    /\ Lose("calendar", ToBtcMon(h.msg.of))
    /\ handed' = [handed EXCEPT ![h.msg.of] = @ + 1]
    /\ Return(h)
    /\ UNCHANGED <<queued, mistaken, bitcoin, btcmon, blocks, states>>

(* After 30 seconds of sleep the state of the transaction is published,    *)
(* the transaction is handed to btc-mon, and the message acknowledged.     *)
ConsumeBtcTxMessage(h) ==
    /\ h.svc = "calendar" /\ h.at = "start" /\ h.msg.type = "btctx"
    /\ \/ channel["calendar"] = "open" /\ Ack(h, ToBtcMon(h.msg.of)) /\ TrackTx(h.msg.of)
       \/ channel["calendar"] # "open" /\ UNCHANGED <<broker, calendar>>
    /\ Return(h)
    /\ UNCHANGED <<queued, bitcoin, btcmon, faults>>

(* The connection is lost between the frames: nothing but the state is     *)
(* received, or all but the acknowledgement.                               *)
ConsumeBtcTxMessageCut(h) ==
    /\ h.svc = "calendar" /\ h.at = "start" /\ h.msg.type = "btctx"
    /\ channel["calendar"] = "open"
    /\ Fault
    /\ \/ Lose("calendar", ToBtcMon(h.msg.of)) /\ TrackTx(h.msg.of)
       \/ /\ Lose("calendar", {})
          /\ states' = states \cup {<<"btctx", h.msg.of>>}
          /\ UNCHANGED <<handed, blocks>>
    /\ Return(h)
    /\ UNCHANGED <<queued, mistaken, bitcoin, btcmon>>

(* createBtcConfirmBlockAsync, then setImmediate(queueBtcCStateDataAsync). *)
CreateBtcConfirmBlock(h) ==
    /\ h.svc = "calendar" /\ h.at = "start" /\ h.msg.type = "btcmon"
    /\ blocks' = [blocks EXCEPT ![h.msg.of] = @ + 1]
    /\ Advance(h, "block", 0)
    /\ UNCHANGED <<queued, broker, bitcoin, btcmon, handed, states, faults>>

(* The block cannot be written: the message is put back, if it can be.     *)
CreateBtcConfirmBlockFails(h) ==
    /\ h.svc = "calendar" /\ h.at = "start" /\ h.msg.type = "btcmon"
    /\ Fault
    /\ \/ channel["calendar"] # "closed" /\ Nack(h)
       \/ channel["calendar"] = "closed" /\ UNCHANGED broker
    /\ Return(h)
    /\ UNCHANGED <<queued, bitcoin, btcmon, calendar>>

(* queueBtcCStateDataAsync: without a channel the nack throws as well. *)
QueueBtcCStateData(h) ==
    /\ h.svc = "calendar" /\ h.at = "block"
    /\ \/ /\ channel["calendar"] = "open"
          /\ Ack(h, {})
          /\ states' = states \cup {<<"btcmon", h.msg.of>>}
       \/ channel["calendar"] # "open" /\ UNCHANGED <<broker, states>>
    /\ Return(h)
    /\ UNCHANGED <<queued, bitcoin, btcmon, handed, blocks, faults>>

(* ... and the connection is lost before the acknowledgement. *)
QueueBtcCStateDataCut(h) ==
    /\ h.svc = "calendar" /\ h.at = "block"
    /\ channel["calendar"] = "open"
    /\ Fault
    /\ Lose("calendar", {})
    /\ states' = states \cup {<<"btcmon", h.msg.of>>}
    /\ Return(h)
    /\ UNCHANGED <<queued, mistaken, bitcoin, btcmon, handed, blocks>>

-----------------------------------------------------------------------------
(* node-btc-mon-service *)

(* consumeBtcTxIdMessageAsync: sadd, then the acknowledgement. *)
ConsumeBtcTxIdMessage(h) ==
    /\ h.svc = "btc-mon" /\ h.at = "start"
    /\ BTCTxIds' = BTCTxIds \cup {h.msg.of}
    /\ \/ channel["btc-mon"] # "closed" /\ Ack(h, {})
       \/ channel["btc-mon"] = "closed" /\ UNCHANGED broker
    /\ Return(h)
    /\ UNCHANGED <<queued, bitcoin, monitor, reports, dropped, calendar, faults>>

(* Redis rejects the command, or its answer is lost.                       *)
ConsumeBtcTxIdMessageFails(h) ==
    /\ h.svc = "btc-mon" /\ h.at = "start"
    /\ Fault
    /\ BTCTxIds' \in {BTCTxIds, BTCTxIds \cup {h.msg.of}}
    /\ \/ channel["btc-mon"] # "closed" /\ Nack(h)
       \/ channel["btc-mon"] = "closed" /\ UNCHANGED broker
    /\ Return(h)
    /\ UNCHANGED <<queued, bitcoin, monitor, reports, dropped, calendar>>

(* The interval, when CHECKS_IN_PROGRESS is false: smembers.               *)
MonitorTransactions ==
    /\ monitor.at = "idle"
    /\ channel["btc-mon"] # "closed"
    /\ BTCTxIds # {}
    /\ monitor' = [at |-> "check", todo |-> BTCTxIds, tx |-> 0]
    /\ UNCHANGED <<queued, broker, handlers, bitcoin, BTCTxIds, reports, dropped, calendar, faults>>

(* smembers rejects: CHECKS_IN_PROGRESS stays true. *)
MonitorTransactionsFails ==
    /\ monitor.at = "idle"
    /\ channel["btc-mon"] # "closed"
    /\ Fault
    /\ monitor' = [Idle EXCEPT !.at = "rejected"]
    /\ UNCHANGED <<queued, broker, handlers, bitcoin, BTCTxIds, reports, dropped, calendar>>

(* A transaction of the pass that is not confirmed, or that cannot be      *)
(* looked up, or that cannot be published for want of a channel.           *)
SkipTransaction(t) ==
    /\ monitor.at = "check" /\ t \in monitor.todo
    /\ t \notin confirmed \/ channel["btc-mon"] = "closed"
    /\ monitor' = [monitor EXCEPT !.todo = @ \ {t}]
    /\ UNCHANGED <<queued, broker, handlers, bitcoin, BTCTxIds, reports, dropped, calendar, faults>>

(* The confirmation is written to the channel; srem is awaited next.       *)
ReportTransaction(t) ==
    /\ monitor.at = "check" /\ t \in monitor.todo
    /\ t \in confirmed
    /\ monitor' = [at |-> "srem", todo |-> monitor.todo \ {t}, tx |-> t]
    /\ \/ /\ channel["btc-mon"] = "open"
          /\ reports' = [reports EXCEPT ![t] = @ + 1]
          /\ queue' = [queue EXCEPT !["calendar"] = @ \cup {MonMsg(t, reports[t] + 1)}]
          /\ UNCHANGED dropped
       \/ /\ channel["btc-mon"] = "lost"
          /\ dropped' = dropped \cup {t}
          /\ UNCHANGED <<reports, queue>>
    /\ UNCHANGED <<queued, out, lastTag, conn, channel, mistaken, handlers, bitcoin, BTCTxIds,
                   calendar, faults>>

(* Mutant: the reported transaction stays in the set. *)
KeepTransaction ==
    /\ monitor.at = "srem"
    /\ monitor' = [monitor EXCEPT !.at = "check", !.tx = 0]
    /\ UNCHANGED <<queued, broker, handlers, bitcoin, BTCTxIds, reports, dropped, calendar, faults>>

RemoveTransaction ==
    /\ monitor.at = "srem"
    /\ BTCTxIds' = BTCTxIds \ {monitor.tx}
    /\ monitor' = [monitor EXCEPT !.at = "check", !.tx = 0]
    /\ UNCHANGED <<queued, broker, handlers, bitcoin, reports, dropped, calendar, faults>>

RemoveTransactionFails ==
    /\ monitor.at = "srem"
    /\ Fault
    /\ monitor' = [monitor EXCEPT !.at = "check", !.tx = 0]
    /\ UNCHANGED <<queued, broker, handlers, bitcoin, BTCTxIds, reports, dropped, calendar>>

(* Mutant: CHECKS_IN_PROGRESS is not reset. *)
ChecksNotReset ==
    /\ monitor.at = "check" /\ monitor.todo = {}
    /\ monitor' = [Idle EXCEPT !.at = "done"]
    /\ UNCHANGED <<queued, broker, handlers, bitcoin, BTCTxIds, reports, dropped, calendar, faults>>

ChecksComplete ==
    /\ monitor.at = "check" /\ monitor.todo = {}
    /\ monitor' = Idle
    /\ UNCHANGED <<queued, broker, handlers, bitcoin, BTCTxIds, reports, dropped, calendar, faults>>

-----------------------------------------------------------------------------
(* The Bitcoin network, RabbitMQ connections and processes *)

Confirm(t) ==
    /\ t \notin confirmed
    /\ confirmed' = confirmed \cup {t}
    /\ UNCHANGED <<queued, broker, handlers, sent, btcmon, calendar, faults>>

LoseConnection(s) ==
    /\ channel[s] = "open"
    /\ Fault
    /\ Lose(s, {})
    /\ UNCHANGED <<queued, mistaken, handlers, bitcoin, btcmon, calendar>>

Stop(s) ==
    /\ handlers' = {g \in handlers : g.svc # s}
    /\ monitor' = IF s = "btc-mon" THEN Idle ELSE monitor

(* The close event: amqpChannel = null.  The running calls go on, unless   *)
(* the channel's own error event, which nothing listens to, has ended the  *)
(* process.                                                                *)
CloseChannel(s) ==
    /\ channel[s] = "lost"
    /\ channel' = [channel EXCEPT ![s] = "closed"]
    /\ UNCHANGED <<handlers, monitor>> \/ Stop(s)
    /\ UNCHANGED <<queued, queue, out, lastTag, conn, mistaken, bitcoin, BTCTxIds, reports,
                   dropped, calendar, faults>>

OpenChannel(s) ==
    /\ channel[s] = "closed"
    /\ channel' = [channel EXCEPT ![s] = "open"]
    /\ conn' = [conn EXCEPT ![s] = @ + 1]
    /\ lastTag' = [lastTag EXCEPT ![s] = 0]
    /\ UNCHANGED <<queued, queue, out, mistaken, handlers, bitcoin, btcmon, calendar, faults>>

(* The process stops; what it had written is received, what it awaited is  *)
(* forgotten.                                                              *)
Crash(s) ==
    /\ Fault
    /\ Stop(s)
    /\ queue' = Requeued(s, {})
    /\ out' = [out EXCEPT ![s] = {}]
    /\ channel' = [channel EXCEPT ![s] = "closed"]
    /\ UNCHANGED <<queued, lastTag, conn, mistaken, bitcoin, BTCTxIds, reports, dropped, calendar>>

-----------------------------------------------------------------------------

HandlerStep(h) ==
    \/ SendTx(h) \/ QueueBtcTx(h) \/ NackLater(h)
    \/ (channel["btc-tx"] = "closed" /\ QueueBtcTxFails(h))
    \/ ConsumeBtcTxMessage(h) \/ CreateBtcConfirmBlock(h) \/ QueueBtcCStateData(h)
    \/ ConsumeBtcTxIdMessage(h)

MonitorStep ==
    \/ MonitorTransactions \/ RemoveTransaction \/ ChecksComplete
    \/ \E t \in Tx : SkipTransaction(t) \/ ReportTransaction(t)

ConnectionStep(s) == Deliver(s) \/ CloseChannel(s) \/ OpenChannel(s)

Next ==
    \/ \E a \in Anchor : QueueAnchor(a)
    \/ \E h \in handlers :
          \/ SendTx(h) \/ SendTxFails(h) \/ QueueBtcTx(h) \/ QueueBtcTxFails(h) \/ NackLater(h)
          \/ ConsumeBtcTxMessage(h) \/ ConsumeBtcTxMessageCut(h)
          \/ CreateBtcConfirmBlock(h) \/ CreateBtcConfirmBlockFails(h)
          \/ QueueBtcCStateData(h) \/ QueueBtcCStateDataCut(h)
          \/ ConsumeBtcTxIdMessage(h) \/ ConsumeBtcTxIdMessageFails(h)
    \/ MonitorStep \/ MonitorTransactionsFails \/ RemoveTransactionFails
    \/ \E t \in Tx : Confirm(t)
    \/ \E s \in Service : ConnectionStep(s) \/ LoseConnection(s) \/ Crash(s)

(* Timers fire, awaited calls settle, RabbitMQ delivers, a connection is   *)
(* opened again, and the Bitcoin network confirms what it has accepted.    *)
Fairness ==
    /\ WF_vars(\E h \in handlers : HandlerStep(h))
    /\ WF_vars(MonitorStep)
    /\ WF_vars(\E t \in Tx : Confirm(t))
    /\ \A s \in Service : WF_vars(ConnectionStep(s))

Spec == Init /\ [][Next]_vars
FairSpec == Spec /\ Fairness

-----------------------------------------------------------------------------

(* Types of the variables: queues and channels hold the messages that the  *)
(* service consumes, for transactions that exist.                          *)
TypeOK ==
    /\ queued \subseteq Anchor
    /\ sent \in Seq(Anchor)
    /\ {Len(reports), Len(handed), Len(blocks)} = {Len(sent)}
    /\ \A s \in Service :
          /\ queue[s] \subseteq WorkOf(s)
          /\ \A d \in out[s] : d.tag \in 1..lastTag[s] /\ d.msg \in WorkOf(s)
          /\ channel[s] \in {"open", "lost", "closed"}
    /\ \A h \in handlers : h.msg \in WorkOf(h.svc) /\ h.tx \in Tx \cup {0}
    /\ confirmed \cup BTCTxIds \cup dropped \cup monitor.todo \subseteq Tx
    /\ states \subseteq {"btctx", "btcmon"} \X Tx
    /\ monitor.tx \in Tx \cup {0}
    /\ faults \in 0..MaxFaults

InBroker(s, msg) == msg \in queue[s] \/ \E d \in out[s] : d.msg = msg

(* A transaction is on its way to its btc-c block: the calendar still has  *)
(* to hand it to btc-mon, btc-mon has to report it, or the calendar has    *)
(* the report; or the report went to a socket that was already dead.       *)
OnItsWay(t) ==
    \/ InBroker("calendar", TxMsg(t))
    \/ \E n \in 1..handed[t] : InBroker("btc-mon", TxIdMsg(t, n))
    \/ t \in BTCTxIds
    \/ \E n \in 1..reports[t] : InBroker("calendar", MonMsg(t, n))
    \/ <<"btcmon", t>> \in states
    \/ t \in dropped
    \/ \E msg \in mistaken : msg \notin JobMsgs /\ msg.of = t

(* A job that RabbitMQ has forgotten has a transaction that is on its way. *)
SettledJobsAreOnTheirWay ==
    \A a \in queued :
        \/ InBroker("btc-tx", Job(a))
        \/ Job(a) \in mistaken
        \/ \E t \in Tx : sent[t] = a /\ OnItsWay(t)

(* Sending a transaction and writing a btc-c block are not idempotent; as  *)
(* long as nothing fails, an anchor has one transaction and a transaction  *)
(* one block, whatever the timers' order.                                  *)
TransactionsFor(a) == {t \in Tx : sent[t] = a}

OnceUnlessDisturbed ==
    faults = 0 => /\ \A a \in Anchor : Cardinality(TransactionsFor(a)) <= 1
                  /\ \A t \in Tx : blocks[t] <= 1

(* The proof state service is sent the transaction's state before its      *)
(* confirmation, and the confirmation only once its block exists.          *)
StatesInOrder ==
    \A t \in Tx :
        /\ t \in BTCTxIds \/ reports[t] > 0 => <<"btctx", t>> \in states
        /\ <<"btcmon", t>> \in states => <<"btctx", t>> \in states /\ blocks[t] > 0

(* Every anchor is confirmed in the end, unless its confirmation was       *)
(* written to a dead socket or the monitor's flag is stuck.                *)
AnchorConfirmed(a) == \E t \in TransactionsFor(a) : <<"btcmon", t>> \in states

EveryAnchorConfirmed ==
    \A a \in Anchor :
        a \in queued ~> \/ AnchorConfirmed(a)
                        \/ TransactionsFor(a) \cap dropped # {}
                        \/ mistaken # {}
                        \/ monitor.at = "rejected"
                        \/ Len(sent) = MaxSent

=============================================================================
