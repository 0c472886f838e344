--------------------------- MODULE BtcConfirmProofs ---------------------------
(***************************************************************************)
(* Proofs about BtcConfirm, for any number of anchors, transactions and    *)
(* faults: its types, the order of states, that a settled job has a        *)
(* transaction on its way, and that nothing is done twice unless something *)
(* fails.                                                                  *)
(*                                                                         *)
(* A message leaves the broker only when it is acknowledged: by the call   *)
(* of another one, which mistaken remembers, or by its own, which has then *)
(* done its work (MessageLeaves).  Without faults a message is in one      *)
(* place, and so is a transaction on its way (Quiet).                      *)
(***************************************************************************)
EXTENDS BtcConfirm, SequenceTheorems, FiniteSetTheorems, TLAPS

-----------------------------------------------------------------------------
(* What the variables hold.                                                *)

Message == [type : {"job", "btctx", "txid", "btcmon"}, of : Anchor \cup Nat, copy : Nat]
Delivery == [tag : Nat, msg : Message]
Call == [svc : Service, conn : Nat, tag : Nat, msg : Message,
         at : {"start", "sent", "failed", "block"}, tx : Nat]
Check == [at : {"idle", "check", "srem", "rejected"}, todo : SUBSET Nat, tx : Nat]

(* A dead channel has no deliveries. *)
BrokerTyped ==
    /\ queue \in [Service -> SUBSET Message]
    /\ out \in [Service -> SUBSET Delivery]
    /\ lastTag \in [Service -> Nat]
    /\ conn \in [Service -> Nat]
    /\ channel \in [Service -> {"open", "lost", "closed"}]
    /\ \A s \in Service :
          /\ queue[s] \subseteq WorkOf(s)
          /\ \A d \in out[s] : d.tag \in 1..lastTag[s] /\ d.msg \in WorkOf(s)
          /\ channel[s] # "open" => out[s] = {}

(* The steps of each service's calls, and the transaction that was sent    *)
(* for a job.                                                              *)
CallTyped(h) ==
    /\ h.msg \in WorkOf(h.svc)
    /\ h.svc = "btc-tx" => h.at \in {"start", "sent", "failed"}
    /\ h.svc = "calendar" => h.at \in {"start", "block"}
    /\ h.svc = "btc-mon" => h.at = "start"
    /\ h.at = "sent" => h.tx \in Tx /\ sent[h.tx] = h.msg.of
    /\ h.at = "failed" => h.tx \in Tx \cup {0}
    /\ h.at \in {"start", "block"} => h.tx = 0
    /\ h.at = "block" => h.msg.type = "btcmon"

CountsTyped ==
    /\ sent \in Seq(Anchor)
    /\ reports \in Seq(Nat) /\ Len(reports) = Len(sent)
    /\ handed \in Seq(Nat) /\ Len(handed) = Len(sent)
    /\ blocks \in Seq(Nat) /\ Len(blocks) = Len(sent)

MonitorTyped ==
    /\ BTCTxIds \subseteq Tx /\ dropped \subseteq Tx
    /\ monitor \in Check /\ monitor.todo \subseteq Tx
    /\ monitor.tx \in Tx \cup {0}
    /\ monitor.at = "srem" => monitor.tx \in Tx

TypeInv ==
    /\ queued \subseteq Anchor
    /\ CountsTyped
    /\ BrokerTyped
    /\ handlers \subseteq Call
    /\ \A h \in handlers : CallTyped(h)
    /\ confirmed \subseteq Tx
    /\ MonitorTyped
    /\ states \subseteq {"btctx", "btcmon"} \X Tx
    /\ faults \in 0..MaxFaults

-----------------------------------------------------------------------------
(* Where a job's transaction is.                                           *)

Reported(t) ==
    \/ \E n \in 1..reports[t] : InBroker("calendar", MonMsg(t, n))
    \/ <<"btcmon", t>> \in states
    \/ t \in dropped
    \/ \E msg \in mistaken : msg \notin JobMsgs /\ msg.of = t

WayInv ==
    /\ SettledJobsAreOnTheirWay
    /\ monitor.at = "srem" => Reported(monitor.tx)

(* Whatever btc-mon knows of a transaction, its state has been sent; and a *)
(* confirmation that is about to be sent has its block.                    *)
InOrder(t) ==
    /\ handed[t] > 0 \/ reports[t] > 0 \/ t \in BTCTxIds \cup monitor.todo
          => <<"btctx", t>> \in states
    /\ <<"btcmon", t>> \in states => <<"btctx", t>> \in states /\ blocks[t] > 0

BlockFirst == \A h \in handlers : h.at = "block" => blocks[h.msg.of] > 0

OrderInv ==
    /\ \A t \in Tx : InOrder(t)
    /\ BlockFirst

-----------------------------------------------------------------------------
(* Without a fault.                                                        *)

(* A message is in one place: ready, or delivered once, to a call that     *)
(* settles it.                                                             *)
Held(s, msg) == msg \in queue[s] \/ \E h \in handlers : h.svc = s /\ h.msg = msg

OnePlace ==
    \A s \in Service :
        /\ channel[s] = "open"
        /\ \A d, e \in out[s] : d.tag = e.tag => d = e
        /\ \A h \in handlers : h.svc = s =>
              /\ [tag |-> h.tag, msg |-> h.msg] \in out[s]
              /\ h.msg \notin queue[s]
        /\ \A g, h \in handlers :
              g.svc = s /\ h.svc = s /\ (g.tag = h.tag \/ g.msg = h.msg) => g = h

(* A job has no transaction before its call has sent it; a transaction is  *)
(* in one place on its way.                                                *)
Sending(t) == \E h \in handlers : h.at = "sent" /\ h.tx = t
Announced(t) == Held("calendar", TxMsg(t))
Tracked(t) == \E n \in 1..handed[t] : Held("btc-mon", TxIdMsg(t, n))
Reporting(t) == monitor.at = "srem" /\ monitor.tx = t
Unblocked(t) ==
    \E n \in 1..reports[t] :
        \/ MonMsg(t, n) \in queue["calendar"]
        \/ \E h \in handlers : h.svc = "calendar" /\ h.msg = MonMsg(t, n) /\ h.at = "start"

Waiting(a) ==
    \/ Job(a) \in queue["btc-tx"]
    \/ \E h \in handlers : h.svc = "btc-tx" /\ h.msg = Job(a) /\ h.at = "start"

JobsOnce ==
    /\ \A t, u \in Tx : sent[t] = sent[u] => t = u
    /\ \A t \in Tx : sent[t] \in queued
    /\ \A a \in Anchor : Held("btc-tx", Job(a)) => a \in queued
    /\ \A a \in Anchor : Waiting(a) => \A t \in Tx : sent[t] # a
    /\ \A h \in handlers : h.at # "failed"

TxOnce(t) ==
    /\ Sending(t) => ~Announced(t) /\ handed[t] = 0
    /\ Announced(t) => handed[t] = 0
    /\ handed[t] = 0 => t \notin BTCTxIds /\ reports[t] = 0
    /\ handed[t] <= 1
    /\ Tracked(t) => t \notin BTCTxIds /\ reports[t] = 0
    /\ reports[t] > 0 /\ t \in BTCTxIds => Reporting(t)
    /\ t \in monitor.todo => t \in BTCTxIds /\ reports[t] = 0 /\ ~Reporting(t)
    /\ reports[t] <= 1
    /\ reports[t] = 0 => blocks[t] = 0
    /\ Unblocked(t) => blocks[t] = 0
    /\ blocks[t] <= 1

Quiet == OnePlace /\ JobsOnce /\ \A t \in Tx : TxOnce(t)
Undisturbed == faults = 0 => Quiet

-----------------------------------------------------------------------------
(* The counts of transactions, reports, hand-overs and blocks only grow,   *)
(* and with them what a service may find in its queue.                     *)

CountsGrow ==
    /\ \A t \in Tx : /\ t \in Tx' /\ sent'[t] = sent[t]
                     /\ handed[t] <= handed'[t]
                     /\ reports[t] <= reports'[t]
                     /\ blocks[t] <= blocks'[t]

(* Adding one to an entry of a sequence of counts. *)
LEMMA CountOne ==
    ASSUME NEW s \in Seq(Nat), NEW t \in DOMAIN s, NEW r, r = [s EXCEPT ![t] = @ + 1]
    PROVE  /\ r \in Seq(Nat) /\ Len(r) = Len(s) /\ DOMAIN r = DOMAIN s
           /\ r[t] = s[t] + 1
           /\ \A u \in DOMAIN s : u # t => r[u] = s[u]
           /\ \A u \in DOMAIN s : s[u] \in Nat /\ s[u] <= r[u]
<1>1. s \in [1..Len(s) -> Nat] /\ DOMAIN s = 1..Len(s) /\ Len(s) \in Nat
  BY LenProperties
<1>2. s[t] + 1 \in Nat
  BY <1>1
<1>3. /\ r \in Seq(Nat) /\ Len(r) = Len(s)
      /\ \A j \in 1..Len(s) : r[j] = IF j = t THEN s[t] + 1 ELSE s[j]
  BY <1>1, <1>2, ExceptSeq
<1>4. DOMAIN r = 1..Len(r)
  BY <1>3, LenProperties
<1> QED
  BY <1>1, <1>3, <1>4

Indexed ==
    /\ Len(sent) \in Nat /\ Tx = 1..Len(sent)
    /\ DOMAIN reports = Tx /\ DOMAIN handed = Tx /\ DOMAIN blocks = Tx
    /\ \A t \in Tx : sent[t] \in Anchor /\ reports[t] \in Nat /\ handed[t] \in Nat
                     /\ blocks[t] \in Nat

LEMMA CountsIndexed == CountsTyped => Indexed
<1> SUFFICES ASSUME CountsTyped PROVE Indexed
  OBVIOUS
<1>1. Len(sent) \in Nat /\ sent \in [1..Len(sent) -> Anchor]
  BY LenProperties DEF CountsTyped
<1>2. reports \in [1..Len(sent) -> Nat]
  BY LenProperties DEF CountsTyped
<1>3. handed \in [1..Len(sent) -> Nat]
  BY LenProperties DEF CountsTyped
<1>4. blocks \in [1..Len(sent) -> Nat]
  BY LenProperties DEF CountsTyped
<1> QED
  BY <1>1, <1>2, <1>3, <1>4 DEF Tx, Indexed

LEMMA CountsIndexedNext == CountsTyped' => Indexed'
  BY CountsIndexed, PTL

(* What a service may find in its queue, one kind of message at a time. *)
LEMMA WorkMembers ==
    ASSUME NEW msg
    PROVE  /\ msg \in WorkOf("btc-tx") <=> \E a \in Anchor : msg = Job(a)
           /\ msg \in WorkOf("calendar") <=>
                 \/ \E t \in Tx : msg = TxMsg(t)
                 \/ \E t \in Tx : \E n \in 1..reports[t] : msg = MonMsg(t, n)
           /\ msg \in WorkOf("btc-mon") <=>
                 \E t \in Tx : \E n \in 1..handed[t] : msg = TxIdMsg(t, n)
  BY DEF WorkOf, JobMsgs, TxMsgs, MonMsgs, TxIdMsgs

LEMMA WorkIsMessages == CountsTyped => \A s \in Service : WorkOf(s) \subseteq Message
<1> SUFFICES ASSUME CountsTyped, NEW s \in Service, NEW msg \in WorkOf(s) PROVE msg \in Message
  OBVIOUS
<1>1. CASE s = "btc-tx"
  BY <1>1, WorkMembers DEF Message, Job
<1>2. CASE s = "calendar"
  <2>1. CASE \E t \in Tx : msg = TxMsg(t)
    BY <2>1, CountsIndexed DEF Indexed, Message, TxMsg
  <2>2. CASE \E t \in Tx : \E n \in 1..reports[t] : msg = MonMsg(t, n)
    BY <2>2, CountsIndexed DEF Indexed, Message, MonMsg
  <2> QED
    BY <1>2, <2>1, <2>2, WorkMembers
<1>3. CASE s = "btc-mon"
  <2>1. \E t \in Tx : \E n \in 1..handed[t] : msg = TxIdMsg(t, n)
    BY <1>3, WorkMembers
  <2> QED
    BY <2>1, CountsIndexed DEF Indexed, Message, TxIdMsg
<1> QED
  BY <1>1, <1>2, <1>3 DEF Service

LEMMA WorkGrows ==
    ASSUME CountsTyped, CountsTyped', CountsGrow, NEW s \in Service
    PROVE  WorkOf(s) \subseteq WorkOf(s)'
<1> SUFFICES ASSUME NEW msg \in WorkOf(s) PROVE msg \in WorkOf(s)'
  OBVIOUS
<1> USE DEF CountsGrow
<1>1. CASE s = "btc-tx"
  BY <1>1 DEF WorkOf, JobMsgs
<1>2. CASE s = "calendar"
  <2>1. CASE \E t \in Tx : msg = TxMsg(t)
    BY <1>2, <2>1 DEF WorkOf, TxMsgs, TxMsg
  <2>2. CASE \E t \in Tx : \E n \in 1..reports[t] : msg = MonMsg(t, n)
    <3> PICK t \in Tx : \E n \in 1..reports[t] : msg = MonMsg(t, n)
      BY <2>2
    <3>1. PICK n \in 1..reports[t] : msg = MonMsg(t, n)
      OBVIOUS
    <3>2. t \in Tx' /\ n \in 1..reports'[t]
      BY <3>1, CountsIndexed, CountsIndexedNext DEF Indexed
    <3> QED
      BY <1>2, <3>1, <3>2 DEF WorkOf, MonMsgs, MonMsg
  <2> QED
    BY <1>2, <2>1, <2>2, WorkMembers
<1>3. CASE s = "btc-mon"
  <2> PICK t \in Tx : \E n \in 1..handed[t] : msg = TxIdMsg(t, n)
    BY <1>3, WorkMembers
  <2>1. PICK n \in 1..handed[t] : msg = TxIdMsg(t, n)
    OBVIOUS
  <2>2. t \in Tx' /\ n \in 1..handed'[t]
    BY <2>1, CountsIndexed, CountsIndexedNext DEF Indexed
  <2> QED
    BY <1>3, <2>1, <2>2 DEF WorkOf, TxIdMsgs, TxIdMsg
<1> QED
  BY <1>1, <1>2, <1>3 DEF Service


LEMMA CallMessage ==
    ASSUME TypeInv, NEW h \in handlers
    PROVE  /\ h \in Call /\ CallTyped(h)
           /\ h.svc = "btc-tx" => \E a \in Anchor : h.msg = Job(a)
           /\ h.svc = "calendar" /\ h.msg.type = "btctx" =>
                 h.msg.of \in Tx /\ h.msg = TxMsg(h.msg.of)
           /\ h.svc = "calendar" /\ h.msg.type = "btcmon" =>
                 h.msg.of \in Tx /\ \E n \in 1..reports[h.msg.of] : h.msg = MonMsg(h.msg.of, n)
           /\ h.svc = "btc-mon" =>
                 h.msg.of \in Tx /\ \E n \in 1..handed[h.msg.of] : h.msg = TxIdMsg(h.msg.of, n)
<1>1. h \in Call /\ CallTyped(h) /\ h.msg \in WorkOf(h.svc)
  BY DEF TypeInv, CallTyped
<1>2. h.svc = "btc-tx" => \E a \in Anchor : h.msg = Job(a)
  BY <1>1, WorkMembers
<1>3. h.svc = "calendar" /\ h.msg.type = "btctx" => h.msg.of \in Tx /\ h.msg = TxMsg(h.msg.of)
  BY <1>1, WorkMembers DEF TxMsg, MonMsg
<1>4. h.svc = "calendar" /\ h.msg.type = "btcmon" =>
         h.msg.of \in Tx /\ \E n \in 1..reports[h.msg.of] : h.msg = MonMsg(h.msg.of, n)
  BY <1>1, WorkMembers DEF TxMsg, MonMsg
<1>5. h.svc = "btc-mon" =>
         h.msg.of \in Tx /\ \E n \in 1..handed[h.msg.of] : h.msg = TxIdMsg(h.msg.of, n)
  <2> SUFFICES ASSUME h.svc = "btc-mon"
               PROVE  h.msg.of \in Tx /\ \E n \in 1..handed[h.msg.of] : h.msg = TxIdMsg(h.msg.of, n)
    OBVIOUS
  <2>1. PICK t \in Tx : \E n \in 1..handed[t] : h.msg = TxIdMsg(t, n)
    BY <1>1, WorkMembers
  <2>2. h.msg.of = t
    BY <2>1 DEF TxIdMsg
  <2> QED
    BY <2>1, <2>2
<1> QED
  BY <1>1, <1>2, <1>3, <1>4, <1>5

(* Every step leaves the counts alone, but for these. *)
LEMMA CountsMove ==
    ASSUME Next
    PROVE  \/ UNCHANGED <<sent, reports, handed, blocks>>
           \/ \E h \in handlers :
                 \/ SendTx(h)
                 \/ ConsumeBtcTxMessage(h) /\ TrackTx(h.msg.of)
                 \/ ConsumeBtcTxMessageCut(h) /\ TrackTx(h.msg.of)
                 \/ CreateBtcConfirmBlock(h)
           \/ \E t \in Tx : ReportTransaction(t)
<1> USE DEF bitcoin, btcmon, calendar
<1>1. CASE \E a \in Anchor : QueueAnchor(a)
  BY <1>1 DEF QueueAnchor
<1>2. ASSUME NEW h \in handlers,
             SendTxFails(h) \/ QueueBtcTx(h) \/ QueueBtcTxFails(h) \/ NackLater(h)
      PROVE  UNCHANGED <<sent, reports, handed, blocks>>
  BY <1>2 DEF SendTxFails, QueueBtcTx, QueueBtcTxFails, NackLater
<1>3. ASSUME NEW h \in handlers, ConsumeBtcTxMessage(h)
      PROVE  UNCHANGED <<sent, reports, handed, blocks>> \/ TrackTx(h.msg.of)
  BY <1>3 DEF ConsumeBtcTxMessage
<1>4. ASSUME NEW h \in handlers, ConsumeBtcTxMessageCut(h)
      PROVE  UNCHANGED <<sent, reports, handed, blocks>> \/ TrackTx(h.msg.of)
  BY <1>4 DEF ConsumeBtcTxMessageCut
<1>5. ASSUME NEW h \in handlers,
             \/ CreateBtcConfirmBlockFails(h) \/ QueueBtcCStateData(h)
             \/ QueueBtcCStateDataCut(h)
             \/ ConsumeBtcTxIdMessage(h) \/ ConsumeBtcTxIdMessageFails(h)
      PROVE  UNCHANGED <<sent, reports, handed, blocks>>
  BY <1>5 DEF CreateBtcConfirmBlockFails, QueueBtcCStateData, QueueBtcCStateDataCut,
              ConsumeBtcTxIdMessage, ConsumeBtcTxIdMessageFails
<1>6. CASE MonitorStep \/ MonitorTransactionsFails \/ RemoveTransactionFails
  BY <1>6 DEF MonitorStep, MonitorTransactions, RemoveTransaction, ChecksComplete,
              SkipTransaction, MonitorTransactionsFails, RemoveTransactionFails
<1>7. CASE \E t \in Tx : Confirm(t)
  BY <1>7 DEF Confirm
<1>8. CASE \E s \in Service : ConnectionStep(s) \/ LoseConnection(s) \/ Crash(s)
  BY <1>8 DEF ConnectionStep, Deliver, CloseChannel, OpenChannel, LoseConnection, Crash
<1> QED
  BY <1>1, <1>2, <1>3, <1>4, <1>5, <1>6, <1>7, <1>8 DEF Next

LEMMA CountsStep ==
    ASSUME TypeInv, Next
    PROVE  CountsTyped' /\ CountsGrow
<1> CountsTyped /\ Indexed
  BY CountsIndexed DEF TypeInv
<1> USE DEF Indexed
<1>1. CASE UNCHANGED <<sent, reports, handed, blocks>>
  BY <1>1 DEF CountsTyped, CountsGrow, Tx
<1>2. ASSUME NEW h \in handlers, SendTx(h)
      PROVE  CountsTyped' /\ CountsGrow
  <2>1. h.msg.of \in Anchor
    <3>1. h.svc = "btc-tx"
      BY <1>2 DEF SendTx
    <3>2. PICK a \in Anchor : h.msg = Job(a)
      BY <3>1, CallMessage
    <3> QED
      BY <3>2 DEF Job
  <2>2. /\ sent' = Append(sent, h.msg.of) /\ reports' = Append(reports, 0)
        /\ handed' = Append(handed, 0) /\ blocks' = Append(blocks, 0)
    BY <1>2 DEF SendTx
  <2>3. /\ sent' \in Seq(Anchor) /\ Len(sent') = Len(sent) + 1
        /\ \A t \in 1..Len(sent) : sent'[t] = sent[t]
    BY <2>1, <2>2, AppendProperties DEF CountsTyped
  <2>4. ASSUME NEW c \in Seq(Nat), Len(c) = Len(sent)
        PROVE  /\ Append(c, 0) \in Seq(Nat) /\ Len(Append(c, 0)) = Len(sent) + 1
               /\ \A t \in 1..Len(sent) : Append(c, 0)[t] = c[t]
    BY <2>4, AppendProperties
  <2>5. CountsTyped'
    BY <2>2, <2>3, <2>4 DEF CountsTyped
  <2>6. Tx' = 1..Len(sent')
    BY <2>5, CountsIndexedNext
  <2>7. CountsGrow
    BY <2>2, <2>3, <2>4, <2>6 DEF CountsTyped, CountsGrow
  <2> QED
    BY <2>5, <2>7
<1>3. ASSUME NEW t \in Tx, TrackTx(t), UNCHANGED <<sent, reports>>
      PROVE  CountsTyped' /\ CountsGrow
  <2>1. /\ handed' \in Seq(Nat) /\ Len(handed') = Len(handed)
        /\ \A u \in Tx : handed[u] <= handed'[u]
    BY <1>3, CountOne DEF CountsTyped, TrackTx
  <2> QED
    BY <1>3, <2>1 DEF CountsTyped, CountsGrow, Tx, TrackTx
<1>4. ASSUME NEW h \in handlers, CreateBtcConfirmBlock(h)
      PROVE  CountsTyped' /\ CountsGrow
  <2>1. PICK t \in Tx : blocks' = [blocks EXCEPT ![t] = @ + 1]
    BY <1>4, CallMessage DEF CreateBtcConfirmBlock
  <2>2. /\ blocks' \in Seq(Nat) /\ Len(blocks') = Len(blocks)
        /\ \A u \in Tx : blocks[u] <= blocks'[u]
    BY <2>1, CountOne DEF CountsTyped
  <2>3. UNCHANGED <<sent, reports, handed>>
    BY <1>4 DEF CreateBtcConfirmBlock, bitcoin, btcmon
  <2>4. CountsTyped'
    BY <2>2, <2>3 DEF CountsTyped
  <2>5. Tx' = Tx
    BY <2>3 DEF Tx
  <2>6. CountsGrow
    BY <2>2, <2>3, <2>5 DEF CountsGrow
  <2> QED
    BY <2>4, <2>6
<1>5. ASSUME NEW t \in Tx, ReportTransaction(t)
      PROVE  CountsTyped' /\ CountsGrow
  <2>1. UNCHANGED <<sent, handed, blocks>>
    BY <1>5 DEF ReportTransaction, bitcoin, calendar
  <2>2. CASE UNCHANGED reports
    BY <1>1, <2>1, <2>2
  <2>3. CASE reports' = [reports EXCEPT ![t] = @ + 1]
    <3>1. /\ reports' \in Seq(Nat) /\ Len(reports') = Len(reports)
          /\ \A u \in Tx : reports[u] <= reports'[u]
      BY <2>3, CountOne DEF CountsTyped
    <3> QED
      BY <2>1, <3>1 DEF CountsTyped, CountsGrow, Tx
  <2> QED
    BY <1>5, <2>2, <2>3 DEF ReportTransaction
<1>6. ASSUME NEW h \in handlers, ConsumeBtcTxMessage(h) \/ ConsumeBtcTxMessageCut(h),
             TrackTx(h.msg.of)
      PROVE  CountsTyped' /\ CountsGrow
  <2>1. h.msg.of \in Tx
    BY <1>6, CallMessage DEF ConsumeBtcTxMessage, ConsumeBtcTxMessageCut
  <2>2. UNCHANGED <<sent, reports>>
    BY <1>6 DEF ConsumeBtcTxMessage, ConsumeBtcTxMessageCut, bitcoin, btcmon
  <2> QED
    BY <1>3, <1>6, <2>1, <2>2
<1> QED
  BY <1>1, <1>2, <1>4, <1>5, <1>6, CountsMove


(* What a step of the broker finds: queues that have grown, and frames     *)
(* that the services they are for consume.                                 *)
Grown == \A s \in Service : WorkOf(s) \subseteq WorkOf(s)' /\ WorkOf(s)' \subseteq Message
Sendable(pubs) == \A p \in pubs : p.to \in Service => p.msg \in WorkOf(p.to)'

LEMMA WorkStep == ASSUME TypeInv, Next PROVE Grown
<1>1. CountsTyped /\ CountsTyped' /\ CountsGrow
  BY CountsStep DEF TypeInv
<1>2. (CountsTyped => \A s \in Service : WorkOf(s) \subseteq Message)'
  BY WorkIsMessages, PTL
<1> QED
  BY <1>1, <1>2, WorkGrows DEF Grown

-----------------------------------------------------------------------------
(* The frames of a handler keep the broker's types ...                     *)

QueuesTyped ==
    /\ queue \in [Service -> SUBSET Message]
    /\ \A s \in Service : queue[s] \subseteq WorkOf(s)

ChannelsTyped ==
    /\ out \in [Service -> SUBSET Delivery]
    /\ lastTag \in [Service -> Nat]
    /\ conn \in [Service -> Nat]
    /\ channel \in [Service -> {"open", "lost", "closed"}]
    /\ \A s \in Service :
          /\ \A d \in out[s] : d.tag \in 1..lastTag[s] /\ d.msg \in WorkOf(s)
          /\ channel[s] # "open" => out[s] = {}

LEMMA BrokerParts == BrokerTyped <=> QueuesTyped /\ ChannelsTyped
  BY DEF BrokerTyped, QueuesTyped, ChannelsTyped

LEMMA BrokerPartsNext == BrokerTyped' <=> QueuesTyped' /\ ChannelsTyped'
  BY DEF BrokerTyped, QueuesTyped, ChannelsTyped

LEMMA PublishedTyped ==
    ASSUME QueuesTyped, Grown, NEW s \in Service, NEW pubs, Sendable(pubs)
    PROVE  \A r \in Service : Published(s, pubs)[r] \subseteq WorkOf(r)'
  BY DEF QueuesTyped, Grown, Sendable, Published

LEMMA LoseTyped ==
    ASSUME BrokerTyped, Grown, NEW s \in Service, NEW pubs, Sendable(pubs), Lose(s, pubs)
    PROVE  BrokerTyped'
<1> QueuesTyped /\ ChannelsTyped
  BY BrokerParts
<1>1. QueuesTyped'
  <2>1. queue' = Requeued(s, pubs)
    BY DEF Lose
  <2>2. queue' = [r \in Service |-> queue'[r]]
    BY <2>1 DEF Requeued, Published
  <2>3. ASSUME NEW r \in Service PROVE queue'[r] \subseteq WorkOf(r)'
    <3>1. queue'[r] \subseteq Published(s, pubs)[r] \cup {d.msg : d \in out[r]}
      BY <2>1 DEF Requeued, Published
    <3>2. {d.msg : d \in out[r]} \subseteq WorkOf(r)'
      BY DEF ChannelsTyped, Grown
    <3> QED
      BY <3>1, <3>2, PublishedTyped
  <2> QED
    BY <2>2, <2>3 DEF QueuesTyped, Grown
<1>2. ChannelsTyped'
  <2>1. /\ out' = [out EXCEPT ![s] = {}] /\ channel' = [channel EXCEPT ![s] = "lost"]
        /\ UNCHANGED <<lastTag, conn>>
    BY DEF Lose
  <2> QED
    BY <2>1 DEF ChannelsTyped, Grown
<1> QED
  BY <1>1, <1>2, BrokerPartsNext

LEMMA SettleTyped ==
    ASSUME BrokerTyped, Grown, NEW s \in Service, NEW tag, NEW pubs, NEW back \in BOOLEAN,
           Sendable(pubs), SettleWith(s, tag, pubs, back)
    PROVE  BrokerTyped'
<1> QueuesTyped /\ ChannelsTyped
  BY BrokerParts
<1> DEFINE settled == {d \in out[s] : d.tag = tag}
           returned == IF back THEN {d.msg : d \in settled} ELSE {}
<1>1. CASE Lose(s, pubs)
  BY <1>1, LoseTyped
<1>2. CASE /\ queue' = [Published(s, pubs) EXCEPT ![s] = @ \cup returned]
           /\ out' = [out EXCEPT ![s] = @ \ settled]
           /\ UNCHANGED <<lastTag, conn, channel>>
  <2>1. QueuesTyped'
    <3>1. queue' = [r \in Service |-> queue'[r]]
      BY <1>2 DEF Published
    <3>2. ASSUME NEW r \in Service PROVE queue'[r] \subseteq WorkOf(r)'
      <4>1. queue'[r] \subseteq Published(s, pubs)[r] \cup {d.msg : d \in out[r]}
        BY <1>2 DEF Published
      <4>2. {d.msg : d \in out[r]} \subseteq WorkOf(r)'
        BY DEF ChannelsTyped, Grown
      <4> QED
        BY <4>1, <4>2, PublishedTyped
    <3> QED
      BY <3>1, <3>2 DEF QueuesTyped, Grown
  <2>2. ChannelsTyped'
    BY <1>2 DEF ChannelsTyped, Grown
  <2> QED
    BY <2>1, <2>2, BrokerPartsNext
<1> QED
  BY <1>1, <1>2 DEF SettleWith

LEMMA BrokerRests ==
    ASSUME BrokerTyped, Grown, UNCHANGED <<queue, out, lastTag, conn, channel>>
    PROVE  BrokerTyped'
  BY DEF BrokerTyped, Grown

LEMMA AckTyped ==
    ASSUME BrokerTyped, Grown, NEW h \in Call, NEW pubs, Sendable(pubs), Ack(h, pubs)
    PROVE  BrokerTyped'
<1>1. CASE SettleWith(h.svc, h.tag, pubs, FALSE)
  BY <1>1, SettleTyped DEF Call
<1>2. CASE UNCHANGED broker
  BY <1>2, BrokerRests DEF broker
<1> QED
  BY <1>1, <1>2 DEF Ack

LEMMA NackTyped ==
    ASSUME BrokerTyped, Grown, NEW h \in Call, Nack(h)
    PROVE  BrokerTyped'
<1>1. CASE SettleWith(h.svc, h.tag, {}, TRUE)
  <2>1. Sendable({})
    BY DEF Sendable
  <2> QED
    BY <1>1, <2>1, SettleTyped DEF Call
<1>2. CASE UNCHANGED broker
  BY <1>2, BrokerRests DEF broker
<1> QED
  BY <1>1, <1>2 DEF Nack


LEMMA NothingSendable == Sendable({})
  BY DEF Sendable

LEMMA BtcTxSendable ==
    ASSUME TypeInv, Next, NEW h \in handlers, h.at = "sent"
    PROVE  Sendable({[to |-> "calendar", msg |-> TxMsg(h.tx)]})
<1>1. h.tx \in Tx
  BY CallMessage DEF CallTyped
<1>2. h.tx \in Tx'
  BY <1>1, CountsStep DEF CountsGrow
<1>3. TxMsg(h.tx) \in WorkOf("calendar")'
  BY <1>2 DEF WorkOf, TxMsgs, TxMsg
<1> QED
  BY <1>3 DEF Sendable

LEMMA TxIdSendable ==
    ASSUME TypeInv, Next, NEW t \in Tx, TrackTx(t)
    PROVE  Sendable(ToBtcMon(t))
<1>1. CountsTyped /\ t \in Tx' /\ handed \in Seq(Nat) /\ DOMAIN handed = Tx
  BY CountsStep, CountsIndexed DEF TypeInv, CountsGrow, CountsTyped, Indexed
<1>2. handed'[t] = handed[t] + 1 /\ handed[t] \in Nat
  BY <1>1, CountOne DEF TrackTx
<1>3. TxIdMsg(t, handed[t] + 1) \in {TxIdMsg(t, n) : n \in 1..handed[t]}'
  BY <1>2 DEF TxIdMsg
<1>4. TxIdMsg(t, handed[t] + 1) \in WorkOf("btc-mon")'
  BY <1>1, <1>3 DEF WorkOf, TxIdMsgs
<1> QED
  BY <1>4 DEF Sendable, ToBtcMon

LEMMA BrokerStep ==
    ASSUME TypeInv, Next
    PROVE  BrokerTyped'
<1> Grown /\ BrokerTyped /\ QueuesTyped /\ ChannelsTyped
  BY WorkStep, BrokerParts DEF TypeInv
<1> handlers \subseteq Call
  BY DEF TypeInv
<1>1. ASSUME NEW a \in Anchor, QueueAnchor(a)
      PROVE  BrokerTyped'
  <2>1. /\ queue' = [queue EXCEPT !["btc-tx"] = @ \cup {Job(a)}]
        /\ UNCHANGED <<out, lastTag, conn, channel>>
    BY <1>1 DEF QueueAnchor
  <2>2. "btc-tx" \in Service /\ Job(a) \in WorkOf("btc-tx")
    BY DEF WorkOf, JobMsgs, Service
  <2>3. QueuesTyped'
    BY <2>1, <2>2 DEF QueuesTyped, Grown
  <2>4. ChannelsTyped'
    BY <2>1 DEF ChannelsTyped, Grown
  <2> QED
    BY <2>3, <2>4, BrokerPartsNext
<1>2. ASSUME NEW h \in handlers, SendTx(h) \/ SendTxFails(h) \/ QueueBtcTxFails(h)
      PROVE  BrokerTyped'
  BY <1>2, BrokerRests DEF SendTx, SendTxFails, QueueBtcTxFails, broker
<1>3. ASSUME NEW h \in handlers, QueueBtcTx(h)
      PROVE  BrokerTyped'
  BY <1>3, BtcTxSendable, AckTyped DEF QueueBtcTx
<1>4. ASSUME NEW h \in handlers, NackLater(h)
      PROVE  BrokerTyped'
  BY <1>4, NackTyped, BrokerRests DEF NackLater, broker
<1>5. ASSUME NEW h \in handlers, ConsumeBtcTxMessage(h)
      PROVE  BrokerTyped'
  <2>1. CASE UNCHANGED broker
    BY <2>1, BrokerRests DEF broker
  <2>2. CASE Ack(h, ToBtcMon(h.msg.of)) /\ TrackTx(h.msg.of)
    <3>1. h.msg.of \in Tx
      BY <1>5, CallMessage DEF ConsumeBtcTxMessage
    <3>2. Sendable(ToBtcMon(h.msg.of))
      BY <2>2, <3>1, TxIdSendable
    <3> QED
      BY <2>2, <3>2, AckTyped
  <2> QED
    BY <1>5, <2>1, <2>2 DEF ConsumeBtcTxMessage
<1>6. ASSUME NEW h \in handlers, ConsumeBtcTxMessageCut(h)
      PROVE  BrokerTyped'
  <2>1. CASE Lose("calendar", {})
    BY <2>1, NothingSendable, LoseTyped DEF Service
  <2>2. CASE Lose("calendar", ToBtcMon(h.msg.of)) /\ TrackTx(h.msg.of)
    <3>1. h.msg.of \in Tx
      BY <1>6, CallMessage DEF ConsumeBtcTxMessageCut
    <3>2. Sendable(ToBtcMon(h.msg.of))
      BY <2>2, <3>1, TxIdSendable
    <3> QED
      BY <2>2, <3>2, LoseTyped DEF Service
  <2> QED
    BY <1>6, <2>1, <2>2 DEF ConsumeBtcTxMessageCut
<1>7. ASSUME NEW h \in handlers, CreateBtcConfirmBlock(h)
      PROVE  BrokerTyped'
  BY <1>7, BrokerRests DEF CreateBtcConfirmBlock, broker
<1>8. ASSUME NEW h \in handlers, CreateBtcConfirmBlockFails(h)
      PROVE  BrokerTyped'
  BY <1>8, NackTyped, BrokerRests DEF CreateBtcConfirmBlockFails, broker
<1>9. ASSUME NEW h \in handlers, QueueBtcCStateData(h)
      PROVE  BrokerTyped'
  BY <1>9, NothingSendable, AckTyped, BrokerRests DEF QueueBtcCStateData, broker
<1>10. ASSUME NEW h \in handlers, QueueBtcCStateDataCut(h)
       PROVE  BrokerTyped'
  BY <1>10, NothingSendable, LoseTyped DEF QueueBtcCStateDataCut, Service
<1>11. ASSUME NEW h \in handlers, ConsumeBtcTxIdMessage(h)
       PROVE  BrokerTyped'
  BY <1>11, NothingSendable, AckTyped, BrokerRests DEF ConsumeBtcTxIdMessage, broker
<1>12. ASSUME NEW h \in handlers, ConsumeBtcTxIdMessageFails(h)
       PROVE  BrokerTyped'
  BY <1>12, NackTyped, BrokerRests DEF ConsumeBtcTxIdMessageFails, broker
<1>13. CASE \/ MonitorTransactions \/ RemoveTransaction \/ ChecksComplete
            \/ MonitorTransactionsFails \/ RemoveTransactionFails
            \/ \E t \in Tx : SkipTransaction(t) \/ Confirm(t)
  BY <1>13, BrokerRests
     DEF MonitorTransactions, RemoveTransaction, ChecksComplete, MonitorTransactionsFails,
         RemoveTransactionFails, SkipTransaction, Confirm, broker
<1>14. ASSUME NEW t \in Tx, ReportTransaction(t)
       PROVE  BrokerTyped'
  <2>1. CASE UNCHANGED <<reports, queue>>
    BY <1>14, <2>1, BrokerRests DEF ReportTransaction
  <2>2. CASE /\ reports' = [reports EXCEPT ![t] = @ + 1]
             /\ queue' = [queue EXCEPT !["calendar"] = @ \cup {MonMsg(t, reports[t] + 1)}]
    <3>1. CountsTyped /\ t \in Tx' /\ reports \in Seq(Nat) /\ DOMAIN reports = Tx
      BY CountsStep, CountsIndexed DEF TypeInv, CountsGrow, CountsTyped, Indexed
    <3>2. reports'[t] = reports[t] + 1 /\ reports[t] \in Nat
      BY <2>2, <3>1, CountOne
    <3>3. MonMsg(t, reports[t] + 1) \in {MonMsg(t, n) : n \in 1..reports[t]}'
      BY <3>2 DEF MonMsg
    <3>4. MonMsg(t, reports[t] + 1) \in WorkOf("calendar")'
      BY <3>1, <3>3 DEF WorkOf, MonMsgs
    <3>5. QueuesTyped'
      BY <2>2, <3>4 DEF QueuesTyped, Grown, Service
    <3>6. ChannelsTyped'
      BY <1>14 DEF ReportTransaction, ChannelsTyped, Grown
    <3> QED
      BY <3>5, <3>6, BrokerPartsNext
  <2> QED
    BY <1>14, <2>1, <2>2 DEF ReportTransaction
<1>15. ASSUME NEW s \in Service, Deliver(s)
       PROVE  BrokerTyped'
  <2>1. PICK msg \in queue[s] :
           /\ channel[s] = "open"
           /\ queue' = [queue EXCEPT ![s] = @ \ {msg}]
           /\ lastTag' = [lastTag EXCEPT ![s] = lastTag[s] + 1]
           /\ out' = [out EXCEPT ![s] = @ \cup {[tag |-> lastTag[s] + 1, msg |-> msg]}]
           /\ UNCHANGED <<conn, channel>>
    BY <1>15 DEF Deliver
  <2>2. QueuesTyped'
    BY <2>1 DEF QueuesTyped, Grown
  <2>3. msg \in WorkOf(s) /\ msg \in WorkOf(s)' /\ msg \in Message /\ lastTag[s] \in Nat
    BY <2>1 DEF QueuesTyped, ChannelsTyped, Grown
  <2>4. [tag |-> lastTag[s] + 1, msg |-> msg] \in Delivery
    BY <2>3 DEF Delivery
  <2>5. out' \in [Service -> SUBSET Delivery] /\ lastTag' \in [Service -> Nat]
    BY <2>1, <2>3, <2>4 DEF ChannelsTyped
  <2>6. ASSUME NEW r \in Service, NEW d \in out'[r]
        PROVE  d.tag \in 1..lastTag'[r] /\ d.msg \in WorkOf(r)'
    <3>1. CASE d \in out[r]
      BY <2>1, <2>3, <3>1 DEF ChannelsTyped, Grown
    <3>2. CASE d \notin out[r]
      <4>1. r = s /\ d = [tag |-> lastTag[s] + 1, msg |-> msg]
        BY <2>1, <3>2 DEF ChannelsTyped
      <4>2. lastTag'[r] = lastTag[s] + 1
        BY <2>1, <4>1 DEF ChannelsTyped
      <4> QED
        BY <2>3, <4>1, <4>2
    <3> QED
      BY <3>1, <3>2
  <2>7. ChannelsTyped'
    BY <2>1, <2>5, <2>6 DEF ChannelsTyped
  <2> QED
    BY <2>2, <2>7, BrokerPartsNext
<1>16. ASSUME NEW s \in Service, CloseChannel(s)
       PROVE  BrokerTyped'
  <2>1. QueuesTyped'
    BY <1>16 DEF CloseChannel, QueuesTyped, Grown
  <2>2. ChannelsTyped'
    BY <1>16 DEF CloseChannel, ChannelsTyped, Grown
  <2> QED
    BY <2>1, <2>2, BrokerPartsNext
<1>17. ASSUME NEW s \in Service, OpenChannel(s)
       PROVE  BrokerTyped'
  <2>1. QueuesTyped'
    BY <1>17 DEF OpenChannel, QueuesTyped, Grown
  <2>2. ChannelsTyped'
    BY <1>17 DEF OpenChannel, ChannelsTyped, Grown
  <2> QED
    BY <2>1, <2>2, BrokerPartsNext
<1>18. ASSUME NEW s \in Service, LoseConnection(s)
       PROVE  BrokerTyped'
  BY <1>18, NothingSendable, LoseTyped DEF LoseConnection
<1>19. ASSUME NEW s \in Service, Crash(s)
       PROVE  BrokerTyped'
  <2>1. /\ queue' = Requeued(s, {}) /\ out' = [out EXCEPT ![s] = {}]
        /\ channel' = [channel EXCEPT ![s] = "closed"] /\ UNCHANGED <<lastTag, conn>>
    BY <1>19 DEF Crash
  <2>2. QueuesTyped'
    <3>1. queue' = [r \in Service |-> queue'[r]]
      BY <2>1 DEF Requeued, Published
    <3>2. ASSUME NEW r \in Service PROVE queue'[r] \subseteq WorkOf(r)'
      <4>1. queue'[r] \subseteq Published(s, {})[r] \cup {d.msg : d \in out[r]}
        BY <2>1 DEF Requeued, Published
      <4>2. {d.msg : d \in out[r]} \subseteq WorkOf(r)'
        BY DEF ChannelsTyped, Grown
      <4> QED
        BY <4>1, <4>2, PublishedTyped, NothingSendable
    <3> QED
      BY <3>1, <3>2 DEF QueuesTyped, Grown
  <2>3. ChannelsTyped'
    BY <2>1 DEF ChannelsTyped, Grown
  <2> QED
    BY <2>2, <2>3, BrokerPartsNext
<1> QED
  BY <1>1, <1>2, <1>3, <1>4, <1>5, <1>6, <1>7, <1>8, <1>9, <1>10, <1>11, <1>12, <1>13, <1>14,
     <1>15, <1>16, <1>17, <1>18, <1>19 DEF Next, MonitorStep, ConnectionStep


-----------------------------------------------------------------------------
(* ... and so do the steps of the calls, and of the monitor.               *)

(* Where the calls of the next state come from. *)
LEMMA CallsMove ==
    ASSUME Next, NEW g \in handlers'
    PROVE  \/ g \in handlers
           \/ \E h \in handlers :
                 \/ SendTx(h) /\ g = [h EXCEPT !.at = "sent", !.tx = Len(sent) + 1]
                 \/ SendTxFails(h) /\ g = [h EXCEPT !.at = "failed", !.tx = 0]
                 \/ QueueBtcTxFails(h) /\ g = [h EXCEPT !.at = "failed", !.tx = h.tx]
                 \/ CreateBtcConfirmBlock(h) /\ g = [h EXCEPT !.at = "block", !.tx = 0]
           \/ \E s \in Service : Deliver(s) /\ \E msg \in queue[s] :
                 /\ queue' = [queue EXCEPT ![s] = @ \ {msg}]
                 /\ out' = [out EXCEPT ![s] = @ \cup {[tag |-> lastTag[s] + 1, msg |-> msg]}]
                 /\ g = [svc |-> s, conn |-> conn[s], tag |-> lastTag[s] + 1, msg |-> msg,
                         at |-> "start", tx |-> 0]
<1>1. CASE \E a \in Anchor : QueueAnchor(a)
  BY <1>1 DEF QueueAnchor
<1>2. ASSUME NEW h \in handlers,
             SendTx(h) \/ SendTxFails(h) \/ QueueBtcTxFails(h) \/ CreateBtcConfirmBlock(h)
      PROVE  \/ g \in handlers
             \/ SendTx(h) /\ g = [h EXCEPT !.at = "sent", !.tx = Len(sent) + 1]
             \/ SendTxFails(h) /\ g = [h EXCEPT !.at = "failed", !.tx = 0]
             \/ QueueBtcTxFails(h) /\ g = [h EXCEPT !.at = "failed", !.tx = h.tx]
             \/ CreateBtcConfirmBlock(h) /\ g = [h EXCEPT !.at = "block", !.tx = 0]
  <2>1. CASE SendTx(h)
    <3>1. handlers' = (handlers \ {h}) \cup {[h EXCEPT !.at = "sent", !.tx = Len(sent) + 1]}
      BY <2>1 DEF SendTx, Advance
    <3> QED
      BY <2>1, <3>1
  <2>2. CASE SendTxFails(h)
    <3>1. handlers' = (handlers \ {h}) \cup {[h EXCEPT !.at = "failed", !.tx = 0]}
      BY <2>2 DEF SendTxFails, Advance
    <3> QED
      BY <2>2, <3>1
  <2>3. CASE QueueBtcTxFails(h)
    <3>1. handlers' = (handlers \ {h}) \cup {[h EXCEPT !.at = "failed", !.tx = h.tx]}
      BY <2>3 DEF QueueBtcTxFails, Advance
    <3> QED
      BY <2>3, <3>1
  <2>4. CASE CreateBtcConfirmBlock(h)
    <3>1. handlers' = (handlers \ {h}) \cup {[h EXCEPT !.at = "block", !.tx = 0]}
      BY <2>4 DEF CreateBtcConfirmBlock, Advance
    <3> QED
      BY <2>4, <3>1
  <2> QED
    BY <1>2, <2>1, <2>2, <2>3, <2>4
<1>3. ASSUME NEW h \in handlers,
             \/ QueueBtcTx(h) \/ NackLater(h) \/ ConsumeBtcTxMessage(h)
             \/ ConsumeBtcTxMessageCut(h) \/ CreateBtcConfirmBlockFails(h)
             \/ QueueBtcCStateData(h) \/ QueueBtcCStateDataCut(h)
             \/ ConsumeBtcTxIdMessage(h) \/ ConsumeBtcTxIdMessageFails(h)
      PROVE  g \in handlers
  BY <1>3 DEF QueueBtcTx, NackLater, ConsumeBtcTxMessage, ConsumeBtcTxMessageCut, Return,
              CreateBtcConfirmBlockFails, QueueBtcCStateData, QueueBtcCStateDataCut,
              ConsumeBtcTxIdMessage, ConsumeBtcTxIdMessageFails
<1>4. CASE MonitorStep \/ MonitorTransactionsFails \/ RemoveTransactionFails
  BY <1>4 DEF MonitorStep, MonitorTransactions, RemoveTransaction, ChecksComplete,
              SkipTransaction, ReportTransaction, MonitorTransactionsFails,
              RemoveTransactionFails
<1>5. CASE \E t \in Tx : Confirm(t)
  BY <1>5 DEF Confirm
<1>6. ASSUME NEW s \in Service,
             CloseChannel(s) \/ OpenChannel(s) \/ LoseConnection(s) \/ Crash(s)
      PROVE  g \in handlers
  BY <1>6 DEF CloseChannel, OpenChannel, LoseConnection, Crash, Stop
<1>7. ASSUME NEW s \in Service, Deliver(s), g \notin handlers
      PROVE  \E msg \in queue[s] :
                /\ queue' = [queue EXCEPT ![s] = @ \ {msg}]
                /\ out' = [out EXCEPT ![s] = @ \cup {[tag |-> lastTag[s] + 1, msg |-> msg]}]
                /\ g = [svc |-> s, conn |-> conn[s], tag |-> lastTag[s] + 1, msg |-> msg,
                        at |-> "start", tx |-> 0]
  BY <1>7 DEF Deliver
<1>8. \/ \E a \in Anchor : QueueAnchor(a)
      \/ \E h \in handlers :
            SendTx(h) \/ SendTxFails(h) \/ QueueBtcTxFails(h) \/ CreateBtcConfirmBlock(h)
      \/ \E h \in handlers :
            \/ QueueBtcTx(h) \/ NackLater(h) \/ ConsumeBtcTxMessage(h)
            \/ ConsumeBtcTxMessageCut(h) \/ CreateBtcConfirmBlockFails(h)
            \/ QueueBtcCStateData(h) \/ QueueBtcCStateDataCut(h)
            \/ ConsumeBtcTxIdMessage(h) \/ ConsumeBtcTxIdMessageFails(h)
      \/ MonitorStep \/ MonitorTransactionsFails \/ RemoveTransactionFails
      \/ \E t \in Tx : Confirm(t)
      \/ \E s \in Service :
            CloseChannel(s) \/ OpenChannel(s) \/ LoseConnection(s) \/ Crash(s)
      \/ \E s \in Service : Deliver(s)
  BY DEF Next, ConnectionStep
<1> QED
  BY <1>1, <1>2, <1>3, <1>4, <1>5, <1>6, <1>7, <1>8

LEMMA CallsStep ==
    ASSUME TypeInv, Next, NEW g \in handlers'
    PROVE  g \in Call /\ CallTyped(g)'
<1> Grown /\ CountsGrow /\ CountsTyped /\ Indexed /\ Indexed'
  BY WorkStep, CountsStep, CountsIndexed, CountsIndexedNext DEF TypeInv
<1>1. ASSUME NEW h \in handlers
      PROVE  /\ h \in Call /\ h.msg \in WorkOf(h.svc)'
             /\ h.tx \in Tx => h.tx \in Tx' /\ sent'[h.tx] = sent[h.tx]
  BY CallMessage DEF CallTyped, Call, Grown, CountsGrow
<1>2. CASE g \in handlers
  BY <1>1, <1>2, CallMessage DEF CallTyped
<1>3. ASSUME NEW h \in handlers, SendTx(h), g = [h EXCEPT !.at = "sent", !.tx = Len(sent) + 1]
      PROVE  g \in Call /\ CallTyped(g)'
  <2>1. sent' = Append(sent, h.msg.of) /\ h.svc = "btc-tx"
    BY <1>3 DEF SendTx
  <2>2. PICK a \in Anchor : h.msg = Job(a)
    BY <2>1, CallMessage
  <2>3. h.msg.of \in Anchor
    BY <2>2 DEF Job
  <2>4. Len(sent') = Len(sent) + 1 /\ sent'[Len(sent) + 1] = h.msg.of
    BY <2>1, <2>3, AppendProperties DEF CountsTyped
  <2>5. Len(sent) + 1 \in Tx' /\ Len(sent) + 1 \in Nat
    BY <2>4 DEF Indexed
  <2>6. /\ g \in Call /\ g.svc = h.svc /\ g.msg = h.msg /\ g.at = "sent"
        /\ g.tx = Len(sent) + 1
    BY <1>1, <1>3, <2>5 DEF Call
  <2> QED
    BY <1>1, <2>1, <2>4, <2>5, <2>6 DEF CallTyped
<1>4. ASSUME NEW h \in handlers, SendTxFails(h), g = [h EXCEPT !.at = "failed", !.tx = 0]
      PROVE  g \in Call /\ CallTyped(g)'
  <2>1. /\ g \in Call /\ g.svc = h.svc /\ g.msg = h.msg /\ g.at = "failed" /\ g.tx = 0
    BY <1>1, <1>4 DEF Call
  <2>2. h.svc = "btc-tx"
    BY <1>4 DEF SendTxFails
  <2> QED
    BY <1>1, <2>1, <2>2 DEF CallTyped
<1>5. ASSUME NEW h \in handlers, QueueBtcTxFails(h),
             g = [h EXCEPT !.at = "failed", !.tx = h.tx]
      PROVE  g \in Call /\ CallTyped(g)'
  <2>1. /\ g \in Call /\ g.svc = h.svc /\ g.msg = h.msg /\ g.at = "failed" /\ g.tx = h.tx
    BY <1>1, <1>5 DEF Call
  <2>2. h.svc = "btc-tx" /\ h.tx \in Tx
    BY <1>5, CallMessage DEF QueueBtcTxFails, CallTyped
  <2> QED
    BY <1>1, <2>1, <2>2 DEF CallTyped
<1>6. ASSUME NEW h \in handlers, CreateBtcConfirmBlock(h),
             g = [h EXCEPT !.at = "block", !.tx = 0]
      PROVE  g \in Call /\ CallTyped(g)'
  <2>1. /\ g \in Call /\ g.svc = h.svc /\ g.msg = h.msg /\ g.at = "block" /\ g.tx = 0
    BY <1>1, <1>6 DEF Call
  <2>2. h.svc = "calendar" /\ h.msg.type = "btcmon"
    BY <1>6 DEF CreateBtcConfirmBlock
  <2> QED
    BY <1>1, <2>1, <2>2 DEF CallTyped
<1>7. ASSUME NEW s \in Service, NEW msg \in queue[s],
             g = [svc |-> s, conn |-> conn[s], tag |-> lastTag[s] + 1, msg |-> msg,
                  at |-> "start", tx |-> 0]
      PROVE  g \in Call /\ CallTyped(g)'
  <2>1. /\ msg \in WorkOf(s) /\ msg \in Message /\ msg \in WorkOf(s)'
        /\ conn[s] \in Nat /\ lastTag[s] \in Nat
    BY DEF TypeInv, BrokerTyped, Grown
  <2> QED
    BY <1>7, <2>1 DEF Call, CallTyped
<1> QED
  BY <1>2, <1>3, <1>4, <1>5, <1>6, <1>7, CallsMove

LEMMA MonitorStepTyped ==
    ASSUME TypeInv, Next
    PROVE  MonitorTyped' /\ confirmed' \subseteq Tx'
<1> Tx \subseteq Tx' /\ MonitorTyped /\ confirmed \subseteq Tx /\ Indexed
  BY CountsStep, CountsIndexed DEF CountsGrow, TypeInv
<1> USE DEF MonitorTyped, Check
<1>1. CASE UNCHANGED <<BTCTxIds, monitor, dropped, confirmed>>
  BY <1>1
<1>2. CASE \E a \in Anchor : QueueAnchor(a)
  BY <1>2 DEF QueueAnchor, btcmon, bitcoin
<1>3. ASSUME NEW h \in handlers,
             \/ SendTx(h) \/ SendTxFails(h) \/ QueueBtcTx(h) \/ QueueBtcTxFails(h) \/ NackLater(h)
             \/ ConsumeBtcTxMessage(h) \/ ConsumeBtcTxMessageCut(h)
             \/ CreateBtcConfirmBlock(h) \/ CreateBtcConfirmBlockFails(h)
             \/ QueueBtcCStateData(h) \/ QueueBtcCStateDataCut(h)
      PROVE  UNCHANGED <<BTCTxIds, monitor, dropped, confirmed>>
  BY <1>3 DEF SendTx, SendTxFails, QueueBtcTx, QueueBtcTxFails, NackLater, ConsumeBtcTxMessage,
              ConsumeBtcTxMessageCut, CreateBtcConfirmBlock, CreateBtcConfirmBlockFails,
              QueueBtcCStateData, QueueBtcCStateDataCut, btcmon, bitcoin
<1>4. ASSUME NEW h \in handlers, ConsumeBtcTxIdMessage(h) \/ ConsumeBtcTxIdMessageFails(h)
      PROVE  MonitorTyped' /\ confirmed' \subseteq Tx'
  <2>1. h.msg.of \in Tx
    BY <1>4, CallMessage DEF ConsumeBtcTxIdMessage, ConsumeBtcTxIdMessageFails
  <2> QED
    BY <1>4, <2>1 DEF ConsumeBtcTxIdMessage, ConsumeBtcTxIdMessageFails, bitcoin
<1>5. CASE MonitorTransactions \/ MonitorTransactionsFails
  BY <1>5 DEF MonitorTransactions, MonitorTransactionsFails, bitcoin, Idle, Indexed
<1>6. CASE RemoveTransaction \/ RemoveTransactionFails
  <2>1. /\ monitor' = [monitor EXCEPT !.at = "check", !.tx = 0]
        /\ BTCTxIds' \subseteq BTCTxIds /\ UNCHANGED <<dropped, confirmed>>
    BY <1>6 DEF RemoveTransaction, RemoveTransactionFails, bitcoin
  <2>2. /\ monitor' \in Check /\ monitor'.todo = monitor.todo
        /\ monitor'.at = "check" /\ monitor'.tx = 0
    BY <2>1
  <2> QED
    BY <2>1, <2>2
<1>7. CASE ChecksComplete
  BY <1>7 DEF ChecksComplete, bitcoin, Idle
<1>8. ASSUME NEW t \in Tx, SkipTransaction(t) \/ ReportTransaction(t) \/ Confirm(t)
      PROVE  MonitorTyped' /\ confirmed' \subseteq Tx'
  BY <1>8 DEF SkipTransaction, ReportTransaction, Confirm, bitcoin, btcmon, Indexed
<1>9. ASSUME NEW s \in Service,
             ConnectionStep(s) \/ LoseConnection(s) \/ Crash(s)
      PROVE  MonitorTyped' /\ confirmed' \subseteq Tx'
  BY <1>9 DEF ConnectionStep, Deliver, CloseChannel, OpenChannel, LoseConnection, Crash, Stop,
              bitcoin, btcmon, Idle
<1> QED
  BY <1>1, <1>2, <1>3, <1>4, <1>5, <1>6, <1>8, <1>9, <1>7 DEF Next, MonitorStep


(* What has been queued, sent to the proof state service, and gone wrong. *)
LEMMA RestStep ==
    ASSUME TypeInv, Next
    PROVE  /\ queued' \subseteq Anchor
           /\ states' \subseteq {"btctx", "btcmon"} \X Tx'
           /\ faults' \in 0..MaxFaults
           /\ states \subseteq states' /\ faults <= faults'
           /\ queued \subseteq queued'
<1> /\ Tx \subseteq Tx' /\ queued \subseteq Anchor /\ faults \in 0..MaxFaults
    /\ states \subseteq {"btctx", "btcmon"} \X Tx
  BY CountsStep DEF CountsGrow, TypeInv
<1> USE BoundsAssumption DEF Fault, bitcoin, btcmon, calendar
<1>1. CASE \E a \in Anchor : QueueAnchor(a)
  BY <1>1 DEF QueueAnchor
<1>2. ASSUME NEW h \in handlers,
             \/ SendTx(h) \/ SendTxFails(h) \/ QueueBtcTx(h) \/ QueueBtcTxFails(h) \/ NackLater(h)
             \/ CreateBtcConfirmBlock(h) \/ CreateBtcConfirmBlockFails(h)
             \/ ConsumeBtcTxIdMessage(h) \/ ConsumeBtcTxIdMessageFails(h)
      PROVE  UNCHANGED <<queued, states>> /\ faults' \in {faults, faults + 1}
             /\ faults' \in 0..MaxFaults
  BY <1>2 DEF SendTx, SendTxFails, QueueBtcTx, QueueBtcTxFails, NackLater,
              CreateBtcConfirmBlock, CreateBtcConfirmBlockFails,
              ConsumeBtcTxIdMessage, ConsumeBtcTxIdMessageFails
<1>3. ASSUME NEW h \in handlers, ConsumeBtcTxMessage(h) \/ ConsumeBtcTxMessageCut(h)
      PROVE  /\ h.msg.of \in Tx /\ UNCHANGED queued
             /\ states' \in {states, states \cup {<<"btctx", h.msg.of>>}}
             /\ faults' \in {faults, faults + 1} /\ faults' \in 0..MaxFaults
  BY <1>3, CallMessage DEF ConsumeBtcTxMessage, ConsumeBtcTxMessageCut, TrackTx
<1>4. ASSUME NEW h \in handlers, QueueBtcCStateData(h) \/ QueueBtcCStateDataCut(h)
      PROVE  /\ h.msg.of \in Tx /\ UNCHANGED queued
             /\ states' \in {states, states \cup {<<"btcmon", h.msg.of>>}}
             /\ faults' \in {faults, faults + 1} /\ faults' \in 0..MaxFaults
  <2>1. h.msg.of \in Tx
    BY <1>4, CallMessage DEF QueueBtcCStateData, QueueBtcCStateDataCut, CallTyped
  <2> QED
    BY <1>4, <2>1 DEF QueueBtcCStateData, QueueBtcCStateDataCut
<1>5. CASE \/ MonitorStep \/ MonitorTransactionsFails \/ RemoveTransactionFails
           \/ \E t \in Tx : Confirm(t)
  BY <1>5 DEF MonitorStep, MonitorTransactions, RemoveTransaction, ChecksComplete,
              SkipTransaction, ReportTransaction, MonitorTransactionsFails,
              RemoveTransactionFails, Confirm
<1>6. CASE \E s \in Service : ConnectionStep(s) \/ LoseConnection(s) \/ Crash(s)
  BY <1>6 DEF ConnectionStep, Deliver, CloseChannel, OpenChannel, LoseConnection, Crash
<1> QED
  BY <1>1, <1>2, <1>3, <1>4, <1>5, <1>6 DEF Next

LEMMA TypeInit == Init => TypeInv
<1> SUFFICES ASSUME Init PROVE TypeInv
  OBVIOUS
<1> USE DEF Init
<1>1. CountsTyped
  BY EmptySeq DEF CountsTyped
<1>2. Tx = {}
  BY DEF Tx
<1>3. BrokerTyped
  BY DEF BrokerTyped
<1>4. MonitorTyped
  BY <1>2 DEF MonitorTyped, Check, Idle
<1> QED
  BY <1>1, <1>2, <1>3, <1>4, BoundsAssumption DEF TypeInv

LEMMA TypeStep == TypeInv /\ [Next]_vars => TypeInv'
<1>1. CASE TypeInv /\ Next
  BY <1>1, CountsStep, BrokerStep, CallsStep, MonitorStepTyped, RestStep DEF TypeInv
<1>2. CASE TypeInv /\ UNCHANGED vars
  <2> USE <1>2 DEF vars, broker, bitcoin, btcmon, calendar
  <2>1. CountsTyped' /\ Tx' = Tx
    BY DEF TypeInv, CountsTyped, Tx
  <2>2. ASSUME NEW s PROVE WorkOf(s)' = WorkOf(s)
    BY <2>1 DEF WorkOf, JobMsgs, TxMsgs, MonMsgs, TxIdMsgs
  <2>3. BrokerTyped'
    BY <2>2 DEF TypeInv, BrokerTyped
  <2>4. \A h \in handlers : CallTyped(h)'
    BY <2>1, <2>2 DEF TypeInv, CallTyped
  <2> QED
    BY <2>1, <2>3, <2>4 DEF TypeInv, MonitorTyped
<1> QED
  BY <1>1, <1>2

LEMMA TypeInvariance == Spec => []TypeInv
  BY TypeInit, TypeStep, PTL DEF Spec

(* Types of the variables: a service's queue and its channel hold only     *)
(* messages that it consumes, for transactions that have been sent,        *)
(* whatever is lost, requeued or settled by the handler of another.        *)
THEOREM TypeCorrect == Spec => []TypeOK
<1>1. TypeInv => TypeOK
  <2> SUFFICES ASSUME TypeInv PROVE TypeOK
    OBVIOUS
  <2> USE DEF TypeInv
  <2>1. {Len(reports), Len(handed), Len(blocks)} = {Len(sent)}
    BY DEF CountsTyped
  <2>2. sent \in Seq(Anchor)
    BY DEF CountsTyped
  <2>3. \A s \in Service :
           /\ queue[s] \subseteq WorkOf(s)
           /\ \A d \in out[s] : d.tag \in 1..lastTag[s] /\ d.msg \in WorkOf(s)
           /\ channel[s] \in {"open", "lost", "closed"}
    BY DEF BrokerTyped
  <2>4. \A h \in handlers : h.msg \in WorkOf(h.svc) /\ h.tx \in Tx \cup {0}
    BY DEF Call, CallTyped
  <2>5. /\ confirmed \cup BTCTxIds \cup dropped \cup monitor.todo \subseteq Tx
        /\ monitor.tx \in Tx \cup {0}
    BY DEF MonitorTyped
  <2> QED
    BY <2>1, <2>2, <2>3, <2>4, <2>5 DEF TypeOK
<1> QED
  BY <1>1, TypeInvariance, PTL


-----------------------------------------------------------------------------
(* The order of states.                                                    *)

(* Every step leaves what OrderInv is about alone, but for these. *)
LEMMA OrderMoves ==
    ASSUME TypeInv, Next
    PROVE  \/ /\ UNCHANGED <<sent, handed, reports, blocks, states>>
              /\ BTCTxIds' \cup monitor'.todo \subseteq BTCTxIds \cup monitor.todo
           \/ \E h \in handlers :
                 \/ SendTx(h) \/ ConsumeBtcTxMessage(h) \/ ConsumeBtcTxMessageCut(h)
                 \/ CreateBtcConfirmBlock(h) \/ QueueBtcCStateData(h)
                 \/ QueueBtcCStateDataCut(h)
                 \/ ConsumeBtcTxIdMessage(h) \/ ConsumeBtcTxIdMessageFails(h)
           \/ \E t \in Tx : ReportTransaction(t)
<1> monitor \in Check
  BY DEF TypeInv, MonitorTyped
<1> USE DEF bitcoin, btcmon, calendar, Check
<1>1. CASE \E a \in Anchor : QueueAnchor(a)
  BY <1>1 DEF QueueAnchor
<1>2. ASSUME NEW h \in handlers,
             \/ SendTxFails(h) \/ QueueBtcTx(h) \/ QueueBtcTxFails(h) \/ NackLater(h)
             \/ CreateBtcConfirmBlockFails(h)
      PROVE  UNCHANGED <<sent, handed, reports, blocks, states, BTCTxIds, monitor>>
  BY <1>2 DEF SendTxFails, QueueBtcTx, QueueBtcTxFails, NackLater, CreateBtcConfirmBlockFails
<1>3. CASE MonitorTransactions \/ MonitorTransactionsFails \/ ChecksComplete
  BY <1>3 DEF MonitorTransactions, MonitorTransactionsFails, ChecksComplete, Idle
<1>4. CASE RemoveTransaction \/ RemoveTransactionFails
  <2>1. /\ BTCTxIds' \subseteq BTCTxIds
        /\ UNCHANGED <<sent, handed, reports, blocks, states>>
        /\ monitor' = [monitor EXCEPT !.at = "check", !.tx = 0]
    BY <1>4 DEF RemoveTransaction, RemoveTransactionFails
  <2>2. monitor'.todo = monitor.todo
    BY <2>1
  <2> QED
    BY <2>1, <2>2
<1>5. ASSUME NEW t \in Tx, SkipTransaction(t) \/ Confirm(t)
      PROVE  /\ UNCHANGED <<sent, handed, reports, blocks, states, BTCTxIds>>
             /\ monitor'.todo \subseteq monitor.todo
  BY <1>5 DEF SkipTransaction, Confirm
<1>6. ASSUME NEW s \in Service, ConnectionStep(s) \/ LoseConnection(s) \/ Crash(s)
      PROVE  /\ UNCHANGED <<sent, handed, reports, blocks, states, BTCTxIds>>
             /\ monitor'.todo \subseteq monitor.todo
  BY <1>6 DEF ConnectionStep, Deliver, CloseChannel, OpenChannel, LoseConnection, Crash, Stop,
              Idle
<1> QED
  BY <1>1, <1>2, <1>3, <1>4, <1>5, <1>6 DEF Next, MonitorStep


LEMMA BlockFirstStep ==
    ASSUME TypeInv, OrderInv, Next
    PROVE  BlockFirst'
<1> CountsGrow /\ Indexed /\ Indexed'
  BY CountsStep, CountsIndexed, CountsIndexedNext DEF TypeInv
<1> SUFFICES ASSUME NEW g \in handlers', g.at = "block" PROVE blocks'[g.msg.of] > 0
  BY DEF BlockFirst
<1>1. CASE g \in handlers
  <2>1. g.msg.of \in Tx /\ blocks[g.msg.of] > 0
    BY <1>1, CallMessage DEF CallTyped, OrderInv, BlockFirst, Call, Service
  <2> QED
    BY <2>1 DEF CountsGrow, Indexed
<1>2. ASSUME NEW h \in handlers, CreateBtcConfirmBlock(h),
             g = [h EXCEPT !.at = "block", !.tx = 0]
      PROVE  blocks'[g.msg.of] > 0
  <2>1. h.msg.of \in Tx /\ h \in Call
    BY <1>2, CallMessage DEF CreateBtcConfirmBlock
  <2>2. blocks \in Seq(Nat) /\ blocks' = [blocks EXCEPT ![h.msg.of] = @ + 1]
    BY <1>2 DEF CreateBtcConfirmBlock, TypeInv, CountsTyped
  <2>3. blocks'[h.msg.of] = blocks[h.msg.of] + 1
    BY <2>1, <2>2, CountOne DEF Indexed
  <2>4. g.msg = h.msg
    BY <1>2, <2>1 DEF Call
  <2> QED
    BY <2>1, <2>3, <2>4 DEF Indexed
<1>3. ASSUME NEW h \in handlers, h \in Call
      PROVE  /\ [h EXCEPT !.at = "sent", !.tx = Len(sent) + 1].at = "sent"
             /\ [h EXCEPT !.at = "failed", !.tx = 0].at = "failed"
             /\ [h EXCEPT !.at = "failed", !.tx = h.tx].at = "failed"
  BY <1>3 DEF Call
<1>4. handlers \subseteq Call
  BY DEF TypeInv
<1>5. CASE \E s \in Service : \E msg \in queue[s] :
              g = [svc |-> s, conn |-> conn[s], tag |-> lastTag[s] + 1, msg |-> msg,
                   at |-> "start", tx |-> 0]
  <2>1. g.at = "start"
    BY <1>5
  <2> QED
    BY <2>1
<1>6. \/ g \in handlers
      \/ \E h \in handlers :
            \/ CreateBtcConfirmBlock(h) /\ g = [h EXCEPT !.at = "block", !.tx = 0]
            \/ g = [h EXCEPT !.at = "sent", !.tx = Len(sent) + 1]
            \/ g = [h EXCEPT !.at = "failed", !.tx = 0]
            \/ g = [h EXCEPT !.at = "failed", !.tx = h.tx]
      \/ \E s \in Service : \E msg \in queue[s] :
            g = [svc |-> s, conn |-> conn[s], tag |-> lastTag[s] + 1, msg |-> msg,
                 at |-> "start", tx |-> 0]
  BY CallsMove
<1> QED
  BY <1>1, <1>2, <1>3, <1>4, <1>5, <1>6

LEMMA OrderStep ==
    ASSUME TypeInv, OrderInv, Next
    PROVE  \A t \in Tx' : InOrder(t)'
<1> /\ CountsGrow /\ Indexed /\ Indexed' /\ CountsTyped /\ CountsTyped'
    /\ \A t \in Tx : InOrder(t)
  BY CountsStep, CountsIndexed, CountsIndexedNext DEF TypeInv, OrderInv
<1> SUFFICES ASSUME NEW t \in Tx' PROVE InOrder(t)'
  OBVIOUS
<1>1. CASE /\ UNCHANGED <<sent, handed, reports, blocks, states>>
           /\ BTCTxIds' \cup monitor'.todo \subseteq BTCTxIds \cup monitor.todo
  BY <1>1 DEF Tx, InOrder
<1>2. ASSUME NEW h \in handlers, SendTx(h)
      PROVE  InOrder(t)'
  <2>1. /\ handed' = Append(handed, 0) /\ reports' = Append(reports, 0)
        /\ blocks' = Append(blocks, 0) /\ UNCHANGED <<states, BTCTxIds, monitor>>
    BY <1>2 DEF SendTx
  <2>2. ASSUME NEW c \in Seq(Nat), Len(c) = Len(sent)
        PROVE  Append(c, 0)[Len(sent) + 1] = 0 /\ \A u \in Tx : Append(c, 0)[u] = c[u]
    BY <2>2, AppendProperties DEF Indexed
  <2>3. CASE t \in Tx
    BY <2>1, <2>2, <2>3 DEF InOrder, CountsTyped
  <2>4. CASE t \notin Tx
    <3>1. t = Len(sent) + 1
      <4>1. Len(sent') = Len(sent) + 1
        BY <2>1, AppendProperties DEF CountsTyped
      <4> QED
        BY <2>4, <4>1 DEF Indexed
    <3>2. handed'[t] = 0 /\ reports'[t] = 0
      BY <2>1, <2>2, <3>1 DEF CountsTyped
    <3>3. t \notin BTCTxIds \cup monitor.todo /\ <<"btcmon", t>> \notin states
      BY <2>4 DEF TypeInv, MonitorTyped
    <3>4. UNCHANGED <<states, BTCTxIds, monitor>>
      BY <2>1
    <3> QED
      BY <3>2, <3>3, <3>4 DEF InOrder
  <2> QED
    BY <2>3, <2>4
<1>3. ASSUME NEW u \in Tx, TrackTx(u), UNCHANGED <<sent, reports, BTCTxIds, monitor>>
      PROVE  InOrder(t)'
  <2>1. /\ t \in Tx /\ states' = states \cup {<<"btctx", u>>} /\ UNCHANGED blocks
        /\ \A v \in Tx : v # u => handed'[v] = handed[v]
    BY <1>3, CountOne DEF TrackTx, Tx, CountsTyped, Indexed
  <2> QED
    BY <1>3, <2>1 DEF InOrder
<1>4. ASSUME NEW h \in handlers, ConsumeBtcTxMessage(h) \/ ConsumeBtcTxMessageCut(h)
      PROVE  InOrder(t)'
  <2>1. h.msg.of \in Tx /\ UNCHANGED <<sent, reports, BTCTxIds, monitor>>
    BY <1>4, CallMessage DEF ConsumeBtcTxMessage, ConsumeBtcTxMessageCut, bitcoin, btcmon
  <2>2. CASE TrackTx(h.msg.of)
    BY <1>3, <2>1, <2>2
  <2>3. CASE /\ UNCHANGED <<handed, blocks>>
             /\ states' \in {states, states \cup {<<"btctx", h.msg.of>>}}
    BY <2>1, <2>3 DEF InOrder, Tx
  <2> QED
    BY <1>4, <2>2, <2>3 DEF ConsumeBtcTxMessage, ConsumeBtcTxMessageCut, calendar
<1>5. ASSUME NEW h \in handlers, CreateBtcConfirmBlock(h)
      PROVE  InOrder(t)'
  <2>1. UNCHANGED <<sent, handed, reports, states, BTCTxIds, monitor>>
    BY <1>5 DEF CreateBtcConfirmBlock, bitcoin, btcmon
  <2>2. t \in Tx /\ blocks[t] <= blocks'[t]
    BY <2>1 DEF Tx, CountsGrow
  <2> QED
    BY <2>1, <2>2 DEF InOrder, Indexed
<1>6. ASSUME NEW h \in handlers, QueueBtcCStateData(h) \/ QueueBtcCStateDataCut(h)
      PROVE  InOrder(t)'
  <2>1. /\ UNCHANGED <<sent, handed, reports, blocks, BTCTxIds, monitor>>
        /\ states' \in {states, states \cup {<<"btcmon", h.msg.of>>}}
        /\ h.svc = "calendar" /\ h.at = "block"
    BY <1>6 DEF QueueBtcCStateData, QueueBtcCStateDataCut, bitcoin, btcmon
  <2>2. h.msg.of \in Tx /\ \E n \in 1..reports[h.msg.of] : h.msg = MonMsg(h.msg.of, n)
    BY <2>1, CallMessage DEF CallTyped
  <2>3. reports[h.msg.of] > 0 /\ blocks[h.msg.of] > 0
    BY <2>1, <2>2 DEF Indexed, OrderInv, BlockFirst
  <2>4. t \in Tx
    BY <2>1 DEF Tx
  <2> QED
    BY <2>1, <2>2, <2>3, <2>4 DEF InOrder
<1>7. ASSUME NEW h \in handlers, ConsumeBtcTxIdMessage(h) \/ ConsumeBtcTxIdMessageFails(h)
      PROVE  InOrder(t)'
  <2>1. /\ UNCHANGED <<sent, handed, reports, blocks, states, monitor>>
        /\ BTCTxIds' \subseteq BTCTxIds \cup {h.msg.of} /\ h.svc = "btc-mon"
    BY <1>7 DEF ConsumeBtcTxIdMessage, ConsumeBtcTxIdMessageFails, bitcoin, calendar
  <2>2. h.msg.of \in Tx /\ \E n \in 1..handed[h.msg.of] : h.msg = TxIdMsg(h.msg.of, n)
    BY <2>1, CallMessage
  <2>3. handed[h.msg.of] > 0
    BY <2>2 DEF Indexed
  <2>4. t \in Tx
    BY <2>1 DEF Tx
  <2> QED
    BY <2>1, <2>2, <2>3, <2>4 DEF InOrder
<1>8. ASSUME NEW u \in Tx, ReportTransaction(u)
      PROVE  InOrder(t)'
  <2>1. /\ UNCHANGED <<sent, handed, blocks, states, BTCTxIds>>
        /\ u \in monitor.todo /\ monitor'.todo \subseteq monitor.todo
        /\ UNCHANGED reports \/ reports' = [reports EXCEPT ![u] = @ + 1]
    BY <1>8 DEF ReportTransaction, bitcoin, calendar
  <2>2. t \in Tx /\ \A v \in Tx : v # u => reports'[v] = reports[v]
    BY <2>1, CountOne DEF Tx, CountsTyped, Indexed
  <2> QED
    BY <2>1, <2>2 DEF InOrder
<1> QED
  BY <1>1, <1>2, <1>4, <1>5, <1>6, <1>7, <1>8, OrderMoves

(* The proof state service is sent a transaction's state before btc-mon    *)
(* watches the transaction, and its confirmation only after its state and  *)
(* once a btc-c block is written, through every loss of a connection and   *)
(* every repetition.                                                       *)
THEOREM StatesStayInOrder == Spec => []StatesInOrder
<1>1. Init => OrderInv
  BY DEF Init, OrderInv, BlockFirst, Tx
<1>2. TypeInv /\ OrderInv /\ [Next]_vars => OrderInv'
  <2>1. CASE TypeInv /\ OrderInv /\ Next
    BY <2>1, BlockFirstStep, OrderStep DEF OrderInv
  <2>2. CASE OrderInv /\ UNCHANGED vars
    BY <2>2 DEF vars, btcmon, calendar, bitcoin, OrderInv, BlockFirst, InOrder, Tx
  <2> QED
    BY <2>1, <2>2
<1>3. OrderInv => StatesInOrder
  BY DEF OrderInv, InOrder, StatesInOrder
<1> QED
  BY <1>1, <1>2, <1>3, TypeInvariance, PTL DEF Spec


-----------------------------------------------------------------------------
(* What a handler's frames leave with the broker.                          *)

KeptBy(s, msg) == InBroker(s, msg) => InBroker(s, msg)'
Received(pubs) == \A p \in pubs : p.to \in Service => InBroker(p.to, p.msg)'

LEMMA LoseKeeps ==
    ASSUME BrokerTyped, NEW s \in Service, NEW pubs, Lose(s, pubs)
    PROVE  (\A r \in Service, msg \in Message : KeptBy(r, msg)) /\ Received(pubs)
<1>1. /\ \A r \in Service : Published(s, pubs)[r] \subseteq queue'[r]
      /\ \A d \in out[s] : d.msg \in queue'[s]
      /\ \A r \in Service : r # s => out'[r] = out[r]
  BY DEF Lose, Requeued, Published, BrokerTyped
<1>2. \A r \in Service : queue[r] \subseteq Published(s, pubs)[r]
  BY DEF Published
<1>3. \A p \in pubs : p.to \in Service => p.msg \in Published(s, pubs)[p.to]
  BY DEF Published
<1> QED
  BY <1>1, <1>2, <1>3 DEF KeptBy, Received, InBroker

LEMMA SettleKeeps ==
    ASSUME BrokerTyped, NEW s \in Service, NEW tag, NEW pubs, NEW back \in BOOLEAN,
           SettleWith(s, tag, pubs, back)
    PROVE  /\ Received(pubs)
           /\ \A r \in Service, msg \in Message :
                 \/ KeptBy(r, msg)
                 \/ r = s /\ ~back /\ \E d \in out[s] : d.tag = tag /\ d.msg = msg
<1> DEFINE settled == {d \in out[s] : d.tag = tag}
           returned == IF back THEN {d.msg : d \in settled} ELSE {}
<1>1. CASE Lose(s, pubs)
  BY <1>1, LoseKeeps
<1>2. CASE /\ queue' = [Published(s, pubs) EXCEPT ![s] = @ \cup returned]
           /\ out' = [out EXCEPT ![s] = @ \ settled]
  <2>1. /\ \A r \in Service : Published(s, pubs)[r] \subseteq queue'[r]
        /\ returned \subseteq queue'[s]
        /\ \A r \in Service : r # s => out'[r] = out[r]
        /\ out'[s] = out[s] \ settled
    BY <1>2 DEF Published, BrokerTyped
  <2>2. \A r \in Service : queue[r] \subseteq Published(s, pubs)[r]
    BY DEF Published
  <2>3. Received(pubs)
    <3>1. \A p \in pubs : p.to \in Service => p.msg \in Published(s, pubs)[p.to]
      BY DEF Published
    <3> QED
      BY <2>1, <3>1 DEF Received, InBroker
  <2>4. ASSUME NEW r \in Service, NEW msg \in Message, InBroker(r, msg), ~InBroker(r, msg)'
        PROVE  r = s /\ ~back /\ \E d \in out[s] : d.tag = tag /\ d.msg = msg
    <3>1. msg \notin queue[r]
      BY <2>1, <2>2, <2>4 DEF InBroker
    <3>2. PICK d \in out[r] : d.msg = msg
      BY <2>4, <3>1 DEF InBroker
    <3>3. d \notin out'[r]
      BY <2>4, <3>2 DEF InBroker
    <3>4. r = s /\ d.tag = tag
      BY <2>1, <3>2, <3>3
    <3>5. ~back
      <4> SUFFICES ASSUME back PROVE FALSE
        OBVIOUS
      <4>1. msg \in returned
        BY <3>2, <3>4
      <4> QED
        BY <2>1, <2>4, <3>4, <4>1 DEF InBroker
    <3> QED
      BY <3>2, <3>4, <3>5
  <2> QED
    BY <2>3, <2>4 DEF KeptBy
<1> QED
  BY <1>1, <1>2 DEF SettleWith

LEMMA AckKeeps ==
    ASSUME BrokerTyped, NEW h \in Call, NEW pubs, Ack(h, pubs)
    PROVE  /\ mistaken \subseteq mistaken'
           /\ \/ \A r \in Service, msg \in Message : KeptBy(r, msg)
              \/ /\ Received(pubs)
                 /\ \A r \in Service, msg \in Message :
                       \/ KeptBy(r, msg) \/ msg \in mistaken'
                       \/ r = h.svc /\ msg = h.msg
<1>1. CASE /\ SettleWith(h.svc, h.tag, pubs, FALSE)
           /\ mistaken' = mistaken \cup
                 {d.msg : d \in {x \in out[h.svc] : x.tag = h.tag /\ x.msg # h.msg}}
  <2>1. h.svc \in Service /\ FALSE \in BOOLEAN
    BY DEF Call
  <2>2. /\ Received(pubs)
        /\ \A r \in Service, msg \in Message :
              \/ KeptBy(r, msg)
              \/ r = h.svc /\ ~FALSE /\ \E d \in out[h.svc] : d.tag = h.tag /\ d.msg = msg
    BY <1>1, <2>1, SettleKeeps, Zenon
  <2>3. \A d \in out[h.svc] : d.tag = h.tag => d.msg = h.msg \/ d.msg \in mistaken'
    BY <1>1
  <2>4. mistaken \subseteq mistaken'
    BY <1>1
  <2> QED
    BY <2>2, <2>3, <2>4
<1>2. CASE UNCHANGED broker
  BY <1>2 DEF broker, KeptBy, InBroker
<1> QED
  BY <1>1, <1>2 DEF Ack

LEMMA NackKeeps ==
    ASSUME BrokerTyped, NEW h \in Call, Nack(h)
    PROVE  UNCHANGED mistaken /\ \A r \in Service, msg \in Message : KeptBy(r, msg)
<1>1. CASE SettleWith(h.svc, h.tag, {}, TRUE) /\ UNCHANGED mistaken
  <2>1. h.svc \in Service
    BY DEF Call
  <2>2. \A r \in Service, msg \in Message :
           KeptBy(r, msg) \/ (~TRUE /\ \E d \in out[h.svc] : d.tag = h.tag /\ d.msg = msg)
    BY <1>1, <2>1, SettleKeeps
  <2> QED
    BY <1>1, <2>2
<1>2. CASE UNCHANGED broker
  BY <1>2 DEF broker, KeptBy, InBroker
<1> QED
  BY <1>1, <1>2 DEF Nack

LEMMA BrokerKeeps ==
    ASSUME UNCHANGED <<queue, out>>
    PROVE  \A r \in Service, msg \in Message : KeptBy(r, msg)
  BY DEF KeptBy, InBroker

(* A message leaves the broker through an acknowledgement: of another      *)
(* message's handler, or of its own, which then has done its work.         *)
Done(h) ==
    \/ QueueBtcTx(h) /\ InBroker("calendar", TxMsg(h.tx))'
    \/ /\ ConsumeBtcTxMessage(h) /\ TrackTx(h.msg.of)
       /\ \E n : /\ n = handed[h.msg.of] + 1
                /\ InBroker("btc-mon", TxIdMsg(h.msg.of, n))'
    \/ QueueBtcCStateData(h) /\ <<"btcmon", h.msg.of>> \in states'
    \/ ConsumeBtcTxIdMessage(h)

LEMMA MessageLeaves ==
    ASSUME TypeInv, Next, NEW s \in Service, NEW msg \in Message
    PROVE  /\ mistaken \subseteq mistaken'
           /\ \/ KeptBy(s, msg) \/ msg \in mistaken'
              \/ \E h \in handlers : h.svc = s /\ h.msg = msg /\ Done(h)
<1> BrokerTyped /\ handlers \subseteq Call
  BY DEF TypeInv
<1> DEFINE Kept == \A r \in Service, m \in Message : KeptBy(r, m)
           DoneBy(h) == h.svc = s /\ h.msg = msg /\ Done(h)
<1>1. CASE \E a \in Anchor : QueueAnchor(a)
  BY <1>1 DEF QueueAnchor, BrokerTyped, KeptBy, InBroker
<1>2. ASSUME NEW h \in handlers,
             SendTx(h) \/ SendTxFails(h) \/ QueueBtcTxFails(h) \/ CreateBtcConfirmBlock(h)
      PROVE  Kept /\ UNCHANGED mistaken
  BY <1>2, BrokerKeeps DEF SendTx, SendTxFails, QueueBtcTxFails, CreateBtcConfirmBlock, broker
<1>3. ASSUME NEW h \in handlers,
             NackLater(h) \/ CreateBtcConfirmBlockFails(h) \/ ConsumeBtcTxIdMessageFails(h)
      PROVE  Kept /\ UNCHANGED mistaken
  BY <1>3, NackKeeps, BrokerKeeps
     DEF NackLater, CreateBtcConfirmBlockFails, ConsumeBtcTxIdMessageFails, broker
<1>4. ASSUME NEW h \in handlers, QueueBtcTx(h)
      PROVE  /\ mistaken \subseteq mistaken'
             /\ KeptBy(s, msg) \/ msg \in mistaken' \/ DoneBy(h)
  <2>1. Ack(h, {[to |-> "calendar", msg |-> TxMsg(h.tx)]})
    BY <1>4 DEF QueueBtcTx
  <2>2. Received({[to |-> "calendar", msg |-> TxMsg(h.tx)]}) => InBroker("calendar", TxMsg(h.tx))'
    BY DEF Received, Service
  <2> QED
    BY <1>4, <2>1, <2>2, AckKeeps DEF Done
<1>5. ASSUME NEW h \in handlers, ConsumeBtcTxMessage(h)
      PROVE  /\ mistaken \subseteq mistaken'
             /\ KeptBy(s, msg) \/ msg \in mistaken' \/ DoneBy(h)
  <2>1. CASE UNCHANGED broker
    BY <2>1, BrokerKeeps DEF broker
  <2>2. CASE Ack(h, ToBtcMon(h.msg.of)) /\ TrackTx(h.msg.of)
    <3>1. Received(ToBtcMon(h.msg.of)) =>
             \E n : /\ n = handed[h.msg.of] + 1
                   /\ InBroker("btc-mon", TxIdMsg(h.msg.of, n))'
      BY DEF Received, ToBtcMon, Service
    <3> QED
      BY <1>5, <2>2, <3>1, AckKeeps DEF Done
  <2> QED
    BY <1>5, <2>1, <2>2 DEF ConsumeBtcTxMessage
<1>6. ASSUME NEW h \in handlers, QueueBtcCStateData(h)
      PROVE  /\ mistaken \subseteq mistaken'
             /\ KeptBy(s, msg) \/ msg \in mistaken' \/ DoneBy(h)
  <2>1. CASE UNCHANGED broker
    BY <2>1, BrokerKeeps DEF broker
  <2>2. CASE Ack(h, {}) /\ states' = states \cup {<<"btcmon", h.msg.of>>}
    BY <1>6, <2>2, AckKeeps DEF Done
  <2> QED
    BY <1>6, <2>1, <2>2 DEF QueueBtcCStateData
<1>7. ASSUME NEW h \in handlers, ConsumeBtcTxIdMessage(h)
      PROVE  /\ mistaken \subseteq mistaken'
             /\ KeptBy(s, msg) \/ msg \in mistaken' \/ DoneBy(h)
  <2>1. CASE UNCHANGED broker
    BY <2>1, BrokerKeeps DEF broker
  <2>2. CASE Ack(h, {})
    BY <1>7, <2>2, AckKeeps DEF Done
  <2> QED
    BY <1>7, <2>1, <2>2 DEF ConsumeBtcTxIdMessage
<1>8. ASSUME NEW h \in handlers, ConsumeBtcTxMessageCut(h) \/ QueueBtcCStateDataCut(h)
      PROVE  Kept /\ UNCHANGED mistaken
  BY <1>8, LoseKeeps DEF ConsumeBtcTxMessageCut, QueueBtcCStateDataCut, Service
<1>9. CASE \/ MonitorTransactions \/ RemoveTransaction \/ ChecksComplete
           \/ MonitorTransactionsFails \/ RemoveTransactionFails
           \/ \E t \in Tx : SkipTransaction(t) \/ Confirm(t)
  BY <1>9, BrokerKeeps
     DEF MonitorTransactions, RemoveTransaction, ChecksComplete, MonitorTransactionsFails,
         RemoveTransactionFails, SkipTransaction, Confirm, broker
<1>10. ASSUME NEW t \in Tx, ReportTransaction(t)
       PROVE  Kept /\ UNCHANGED mistaken
  BY <1>10 DEF ReportTransaction, BrokerTyped, KeptBy, InBroker
<1>11. ASSUME NEW r \in Service, Deliver(r)
       PROVE  Kept /\ UNCHANGED mistaken
  <2>1. PICK m \in queue[r] :
           /\ queue' = [queue EXCEPT ![r] = @ \ {m}]
           /\ out' = [out EXCEPT ![r] = @ \cup {[tag |-> lastTag[r] + 1, msg |-> m]}]
    BY <1>11 DEF Deliver
  <2>2. /\ \A q \in Service : q # r => queue'[q] = queue[q] /\ out'[q] = out[q]
        /\ queue'[r] = queue[r] \ {m}
        /\ out'[r] = out[r] \cup {[tag |-> lastTag[r] + 1, msg |-> m]}
    BY <2>1 DEF BrokerTyped
  <2>3. ASSUME NEW q \in Service, NEW x \in Message, InBroker(q, x)
        PROVE  InBroker(q, x)'
    <3>1. CASE q = r /\ x = m
      <4>1. [tag |-> lastTag[r] + 1, msg |-> m].msg = x
        BY <3>1
      <4> QED
        BY <2>2, <3>1, <4>1 DEF InBroker
    <3>2. CASE ~(q = r /\ x = m)
      BY <2>2, <2>3, <3>2 DEF InBroker
    <3> QED
      BY <3>1, <3>2
  <2> QED
    BY <1>11, <2>3 DEF Deliver, KeptBy
<1>12. ASSUME NEW r \in Service, CloseChannel(r) \/ OpenChannel(r)
       PROVE  Kept /\ UNCHANGED mistaken
  BY <1>12, BrokerKeeps DEF CloseChannel, OpenChannel
<1>13. ASSUME NEW r \in Service, LoseConnection(r)
       PROVE  Kept /\ UNCHANGED mistaken
  BY <1>13, LoseKeeps DEF LoseConnection
<1>14. ASSUME NEW r \in Service, Crash(r)
       PROVE  Kept /\ UNCHANGED mistaken
  <2>1. /\ \A q \in Service : queue[q] \subseteq queue'[q] /\ (q # r => out'[q] = out[q])
        /\ \A d \in out[r] : d.msg \in queue'[r]
    BY <1>14 DEF Crash, Requeued, Published, BrokerTyped
  <2>2. Kept
    BY <2>1 DEF KeptBy, InBroker
  <2> QED
    BY <1>14, <2>2 DEF Crash
<1> QED
  BY <1>1, <1>2, <1>3, <1>4, <1>5, <1>6, <1>7, <1>8, <1>9, <1>10, <1>11, <1>12, <1>13, <1>14
     DEF Next, MonitorStep, ConnectionStep


-----------------------------------------------------------------------------
(* A transaction stays on its way.                                         *)

LEMMA WayMessages ==
    ASSUME TypeInv, NEW t \in Tx, NEW n \in Nat
    PROVE  /\ TxMsg(t) \in Message /\ TxMsg(t) \notin JobMsgs /\ TxMsg(t).of = t
           /\ TxIdMsg(t, n) \in Message /\ TxIdMsg(t, n) \notin JobMsgs /\ TxIdMsg(t, n).of = t
           /\ MonMsg(t, n) \in Message /\ MonMsg(t, n) \notin JobMsgs /\ MonMsg(t, n).of = t
<1> t \in Nat
  BY CountsIndexed DEF TypeInv, Indexed
<1> QED
  BY DEF TxMsg, TxIdMsg, MonMsg, JobMsgs, Job, Message

LEMMA MistakenGrows == ASSUME TypeInv, Next PROVE mistaken \subseteq mistaken'
<1>1. [type |-> "btctx", of |-> 0, copy |-> 0] \in Message /\ "calendar" \in Service
  BY DEF Message, Service
<1> QED
  BY <1>1, MessageLeaves

(* What btc-mon does with the set of transactions, and with what it has    *)
(* reported.                                                               *)
LEMMA MonitorMoves ==
    ASSUME TypeInv, Next
    PROVE  /\ dropped \subseteq dropped'
           /\ BTCTxIds \subseteq BTCTxIds' \/ RemoveTransaction
           /\ \/ monitor'.at # "srem" \/ monitor' = monitor
              \/ \E t \in Tx : ReportTransaction(t)
<1> monitor \in Check
  BY DEF TypeInv, MonitorTyped
<1> USE DEF btcmon, Check
<1>1. CASE \E a \in Anchor : QueueAnchor(a)
  BY <1>1 DEF QueueAnchor
<1>2. ASSUME NEW h \in handlers,
             \/ SendTx(h) \/ SendTxFails(h) \/ QueueBtcTx(h) \/ QueueBtcTxFails(h) \/ NackLater(h)
             \/ ConsumeBtcTxMessage(h) \/ ConsumeBtcTxMessageCut(h)
             \/ CreateBtcConfirmBlock(h) \/ CreateBtcConfirmBlockFails(h)
             \/ QueueBtcCStateData(h) \/ QueueBtcCStateDataCut(h)
             \/ ConsumeBtcTxIdMessage(h) \/ ConsumeBtcTxIdMessageFails(h)
      PROVE  UNCHANGED <<dropped, monitor>> /\ BTCTxIds \subseteq BTCTxIds'
  BY <1>2 DEF SendTx, SendTxFails, QueueBtcTx, QueueBtcTxFails, NackLater, ConsumeBtcTxMessage,
              ConsumeBtcTxMessageCut, CreateBtcConfirmBlock, CreateBtcConfirmBlockFails,
              QueueBtcCStateData, QueueBtcCStateDataCut, ConsumeBtcTxIdMessage,
              ConsumeBtcTxIdMessageFails
<1>3. CASE MonitorTransactions \/ MonitorTransactionsFails \/ ChecksComplete
  BY <1>3 DEF MonitorTransactions, MonitorTransactionsFails, ChecksComplete, Idle
<1>4. CASE RemoveTransaction
  BY <1>4 DEF RemoveTransaction
<1>5. CASE RemoveTransactionFails
  BY <1>5 DEF RemoveTransactionFails
<1>6. ASSUME NEW t \in Tx, SkipTransaction(t)
      PROVE  UNCHANGED <<dropped, BTCTxIds>> /\ monitor'.at # "srem"
  BY <1>6 DEF SkipTransaction
<1>7. ASSUME NEW t \in Tx, ReportTransaction(t)
      PROVE  dropped \subseteq dropped' /\ UNCHANGED BTCTxIds
  BY <1>7 DEF ReportTransaction
<1>8. CASE \E t \in Tx : Confirm(t)
  BY <1>8 DEF Confirm
<1>9. ASSUME NEW s \in Service, ConnectionStep(s) \/ LoseConnection(s) \/ Crash(s)
      PROVE  /\ UNCHANGED <<dropped, BTCTxIds>>
             /\ monitor' = monitor \/ monitor'.at # "srem"
  BY <1>9 DEF ConnectionStep, Deliver, CloseChannel, OpenChannel, LoseConnection, Crash, Stop,
              Idle
<1> QED
  BY <1>1, <1>2, <1>3, <1>4, <1>5, <1>6, <1>7, <1>8, <1>9 DEF Next, MonitorStep

LEMMA ReportedStep ==
    ASSUME TypeInv, Next, NEW t \in Tx, Reported(t)
    PROVE  Reported(t)'
<1> CountsGrow /\ Indexed /\ Indexed'
  BY CountsStep, CountsIndexed, CountsIndexedNext DEF TypeInv
<1>1. ASSUME NEW n \in 1..reports[t], InBroker("calendar", MonMsg(t, n))
      PROVE  Reported(t)'
  <2>1. /\ n \in Nat /\ n \in 1..reports'[t] /\ MonMsg(t, n) \in Message
        /\ "calendar" \in Service
    BY WayMessages DEF CountsGrow, Indexed, Service
  <2>2. CASE InBroker("calendar", MonMsg(t, n))'
    BY <2>1, <2>2 DEF Reported
  <2>3. CASE MonMsg(t, n) \in mistaken'
    BY <2>1, <2>3, WayMessages DEF Reported, JobMsgs
  <2>4. ASSUME NEW h \in handlers, h.svc = "calendar", h.msg = MonMsg(t, n), Done(h)
        PROVE  Reported(t)'
    <3>1. <<"btcmon", h.msg.of>> \in states'
      BY <2>4 DEF Done, QueueBtcTx, ConsumeBtcTxMessage, ConsumeBtcTxIdMessage, MonMsg
    <3> QED
      BY <2>4, <3>1 DEF Reported, MonMsg
  <2> QED
    BY <1>1, <2>1, <2>2, <2>3, <2>4, MessageLeaves DEF KeptBy
<1>2. /\ states \subseteq states' /\ dropped \subseteq dropped' /\ mistaken \subseteq mistaken'
      /\ JobMsgs' = JobMsgs
  BY RestStep, MonitorMoves, MistakenGrows DEF JobMsgs
<1> QED
  BY <1>1, <1>2 DEF Reported

LEMMA OnItsWayStep ==
    ASSUME TypeInv, WayInv, Next, NEW t \in Tx, OnItsWay(t)
    PROVE  OnItsWay(t)'
<1> CountsGrow /\ Indexed /\ Indexed' /\ JobMsgs' = JobMsgs
  BY CountsStep, CountsIndexed, CountsIndexedNext DEF TypeInv, JobMsgs
<1>1. Reported(t)' => OnItsWay(t)'
  BY DEF Reported, OnItsWay
<1>2. CASE Reported(t)
  BY <1>1, <1>2, ReportedStep
<1>3. CASE InBroker("calendar", TxMsg(t))
  <2>1. TxMsg(t) \in Message /\ "calendar" \in Service
    BY WayMessages DEF Service
  <2>2. CASE InBroker("calendar", TxMsg(t))'
    BY <2>2 DEF OnItsWay
  <2>3. CASE TxMsg(t) \in mistaken'
    BY <2>3, WayMessages DEF OnItsWay
  <2>4. ASSUME NEW h \in handlers, h.svc = "calendar", h.msg = TxMsg(t), Done(h)
        PROVE  OnItsWay(t)'
    <3>1. h.msg.of = t /\ h.msg.type = "btctx"
      BY <2>4 DEF TxMsg
    <3>2. ~QueueBtcTx(h) /\ ~ConsumeBtcTxIdMessage(h) /\ ~QueueBtcCStateData(h)
      <4>1. h.at = "block" => h.msg.type = "btcmon"
        BY CallMessage DEF CallTyped
      <4> QED
        BY <2>4, <3>1, <4>1 DEF QueueBtcTx, ConsumeBtcTxIdMessage, QueueBtcCStateData
    <3>3. PICK n : TrackTx(t) /\ n = handed[t] + 1 /\ InBroker("btc-mon", TxIdMsg(t, n))'
      BY <2>4, <3>1, <3>2 DEF Done
    <3>4. handed'[t] = handed[t] + 1
      BY <3>3, CountOne DEF TrackTx, TypeInv, CountsTyped, Indexed
    <3>5. n \in 1..handed'[t]
      BY <3>3, <3>4 DEF Indexed
    <3> QED
      BY <3>3, <3>5 DEF OnItsWay
  <2> QED
    BY <1>3, <2>1, <2>2, <2>3, <2>4, MessageLeaves DEF KeptBy
<1>4. ASSUME NEW n \in 1..handed[t], InBroker("btc-mon", TxIdMsg(t, n))
      PROVE  OnItsWay(t)'
  <2>1. /\ n \in Nat /\ n \in 1..handed'[t] /\ TxIdMsg(t, n) \in Message
        /\ "btc-mon" \in Service
    BY WayMessages DEF CountsGrow, Indexed, Service
  <2>2. CASE InBroker("btc-mon", TxIdMsg(t, n))'
    BY <2>1, <2>2 DEF OnItsWay
  <2>3. CASE TxIdMsg(t, n) \in mistaken'
    BY <2>1, <2>3, WayMessages DEF OnItsWay
  <2>4. ASSUME NEW h \in handlers, h.svc = "btc-mon", h.msg = TxIdMsg(t, n), Done(h)
        PROVE  OnItsWay(t)'
    <3>1. ConsumeBtcTxIdMessage(h)
      BY <2>4 DEF Done, QueueBtcTx, ConsumeBtcTxMessage, QueueBtcCStateData
    <3>2. t \in BTCTxIds'
      BY <2>4, <3>1 DEF ConsumeBtcTxIdMessage, TxIdMsg
    <3> QED
      BY <3>2 DEF OnItsWay
  <2> QED
    BY <1>4, <2>1, <2>2, <2>3, <2>4, MessageLeaves DEF KeptBy
<1>5. CASE t \in BTCTxIds
  <2>1. CASE t \in BTCTxIds'
    BY <2>1 DEF OnItsWay
  <2>2. CASE t \notin BTCTxIds'
    <3>1. RemoveTransaction
      BY <1>5, <2>2, MonitorMoves
    <3>2. monitor.at = "srem" /\ monitor.tx = t
      BY <1>5, <2>2, <3>1 DEF RemoveTransaction
    <3> QED
      BY <1>2, <3>2 DEF WayInv
  <2> QED
    BY <2>1, <2>2
<1> QED
  BY <1>2, <1>3, <1>4, <1>5 DEF OnItsWay, Reported

LEMMA SremStep ==
    ASSUME TypeInv, WayInv, Next, monitor'.at = "srem"
    PROVE  Reported(monitor.tx)'
<1>1. CASE monitor' = monitor
  <2>1. Reported(monitor.tx) /\ monitor.tx \in Tx
    BY <1>1 DEF WayInv, TypeInv, MonitorTyped
  <2>2. PICK t \in Tx : t = monitor.tx
    BY <2>1
  <2>3. Reported(t)'
    BY <2>1, <2>2, ReportedStep
  <2> QED
    BY <1>1, <2>2, <2>3
<1>2. ASSUME NEW t \in Tx, ReportTransaction(t)
      PROVE  Reported(monitor.tx)'
  <2>1. monitor'.tx = t
    BY <1>2 DEF ReportTransaction
  <2>2. ASSUME t \in dropped'
        PROVE  Reported(t)'
    BY <2>2 DEF Reported
  <2>3. ASSUME reports' = [reports EXCEPT ![t] = @ + 1],
               queue' = [queue EXCEPT !["calendar"] = @ \cup {MonMsg(t, reports[t] + 1)}]
        PROVE  Reported(t)'
    <3>1. reports'[t] = reports[t] + 1 /\ reports[t] \in Nat
      BY <2>3, CountOne, CountsIndexed DEF TypeInv, CountsTyped, Indexed
    <3>2. PICK n \in 1..reports'[t] : n = reports[t] + 1
      BY <3>1
    <3>3. MonMsg(t, n) \in queue'["calendar"]
      BY <2>3, <3>2 DEF TypeInv, BrokerTyped, Service
    <3> QED
      BY <3>2, <3>3 DEF Reported, InBroker
  <2>4. Reported(t)'
    BY <1>2, <2>2, <2>3 DEF ReportTransaction
  <2> QED
    BY <2>1, <2>4
<1> QED
  BY <1>1, <1>2, MonitorMoves

LEMMA JobStep ==
    ASSUME TypeInv, WayInv, Next, NEW a \in queued'
    PROVE  \/ InBroker("btc-tx", Job(a))'
           \/ Job(a) \in mistaken'
           \/ \E t \in Tx' : sent'[t] = a /\ OnItsWay(t)'
<1> CountsGrow /\ a \in Anchor /\ queued' \subseteq Anchor
  BY CountsStep, RestStep
<1>1. CASE a \notin queued
  <2>1. QueueAnchor(a)
    <3>1. \E b \in Anchor : QueueAnchor(b)
      <4> UNCHANGED queued \/ \E b \in Anchor : QueueAnchor(b)
        BY DEF Next, MonitorStep, ConnectionStep, SendTx, SendTxFails, QueueBtcTx,
               QueueBtcTxFails, NackLater, ConsumeBtcTxMessage, ConsumeBtcTxMessageCut,
               CreateBtcConfirmBlock, CreateBtcConfirmBlockFails, QueueBtcCStateData,
               QueueBtcCStateDataCut, ConsumeBtcTxIdMessage, ConsumeBtcTxIdMessageFails,
               MonitorTransactions, RemoveTransaction, ChecksComplete, SkipTransaction,
               ReportTransaction, MonitorTransactionsFails, RemoveTransactionFails, Confirm,
               Deliver, CloseChannel, OpenChannel, LoseConnection, Crash
      <4> QED
        BY <1>1
    <3> QED
      BY <1>1, <3>1 DEF QueueAnchor
  <2>2. Job(a) \in queue'["btc-tx"]
    BY <2>1 DEF QueueAnchor, TypeInv, BrokerTyped, Service
  <2> QED
    BY <2>2 DEF InBroker
<1>2. ASSUME NEW t \in Tx, sent[t] = a, OnItsWay(t)
      PROVE  \E u \in Tx' : sent'[u] = a /\ OnItsWay(u)'
  BY <1>2, OnItsWayStep DEF CountsGrow
<1>3. CASE Job(a) \in mistaken
  BY <1>3, MistakenGrows
<1>4. CASE InBroker("btc-tx", Job(a))
  <2>1. Job(a) \in Message /\ "btc-tx" \in Service
    BY DEF Job, Message, Service
  <2>2. ASSUME NEW h \in handlers, h.svc = "btc-tx", h.msg = Job(a), Done(h)
        PROVE  \E u \in Tx' : sent'[u] = a /\ OnItsWay(u)'
    <3>1. QueueBtcTx(h) /\ InBroker("calendar", TxMsg(h.tx))' /\ h.at = "sent"
      BY <2>2 DEF Done, QueueBtcTx, ConsumeBtcTxMessage, QueueBtcCStateData,
                  ConsumeBtcTxIdMessage
    <3>2. h.tx \in Tx /\ sent[h.tx] = a
      BY <2>2, <3>1, CallMessage DEF CallTyped, Job
    <3>3. OnItsWay(h.tx)'
      BY <3>1 DEF OnItsWay
    <3> QED
      BY <3>2, <3>3 DEF CountsGrow
  <2> QED
    BY <1>4, <2>1, <2>2, MessageLeaves DEF KeptBy
<1> QED
  BY <1>1, <1>2, <1>3, <1>4 DEF WayInv, SettledJobsAreOnTheirWay

(* A job that btc-tx has settled has a transaction that is on its way to   *)
(* its btc-c block, however often connections are lost, processes stop     *)
(* and calls fail; but for acknowledgements of another handler's delivery  *)
(* and reports written to a dead socket.                                   *)
THEOREM SettledJobsStayOnTheirWay == Spec => []SettledJobsAreOnTheirWay
<1>1. Init => WayInv
  BY DEF Init, WayInv, SettledJobsAreOnTheirWay, Idle
<1>2. TypeInv /\ WayInv /\ [Next]_vars => WayInv'
  <2>1. CASE TypeInv /\ WayInv /\ Next
    BY <2>1, JobStep, SremStep DEF WayInv, SettledJobsAreOnTheirWay
  <2>2. CASE WayInv /\ UNCHANGED vars
    BY <2>2 DEF vars, broker, btcmon, calendar, bitcoin, WayInv, SettledJobsAreOnTheirWay,
                Reported, OnItsWay, InBroker, JobMsgs, Tx
  <2> QED
    BY <2>1, <2>2
<1>3. WayInv => SettledJobsAreOnTheirWay
  BY DEF WayInv
<1> QED
  BY <1>1, <1>2, <1>3, TypeInvariance, PTL DEF Spec


-----------------------------------------------------------------------------
(* As long as nothing fails a message stays in one place.                  *)

Handler(s, msg) == \E h \in handlers : h.svc = s /\ h.msg = msg

(* A call that goes on. *)
LEMMA AdvanceOnePlace ==
    ASSUME OnePlace, NEW h \in handlers, NEW g, g.svc = h.svc, g.tag = h.tag, g.msg = h.msg,
           handlers' = (handlers \ {h}) \cup {g}, UNCHANGED <<queue, out, channel>>
    PROVE  OnePlace' /\ \A s, msg : Held(s, msg)' => Held(s, msg)
<1>1. ASSUME NEW f \in handlers'
      PROVE  \E e \in handlers : /\ e.svc = f.svc /\ e.tag = f.tag /\ e.msg = f.msg
                                 /\ f = IF e = h THEN g ELSE e
  BY <1>1
<1>2. OnePlace'
  <2> SUFFICES ASSUME NEW s \in Service
               PROVE  (/\ channel[s] = "open"
                       /\ \A d, e \in out[s] : d.tag = e.tag => d = e
                       /\ \A f \in handlers : f.svc = s =>
                             /\ [tag |-> f.tag, msg |-> f.msg] \in out[s]
                             /\ f.msg \notin queue[s]
                       /\ \A f, e \in handlers :
                             f.svc = s /\ e.svc = s /\ (f.tag = e.tag \/ f.msg = e.msg) => f = e)'
    BY DEF OnePlace
  <2>1. channel'[s] = "open" /\ \A d, e \in out'[s] : d.tag = e.tag => d = e
    BY DEF OnePlace
  <2>2. ASSUME NEW f \in handlers', f.svc = s
        PROVE  [tag |-> f.tag, msg |-> f.msg] \in out'[s] /\ f.msg \notin queue'[s]
    BY <1>1, <2>2 DEF OnePlace
  <2>3. ASSUME NEW e \in handlers', NEW f \in handlers', e.svc = s, f.svc = s,
               e.tag = f.tag \/ e.msg = f.msg
        PROVE  e = f
    <3>1. PICK x \in handlers : /\ x.svc = e.svc /\ x.tag = e.tag /\ x.msg = e.msg
                                /\ e = IF x = h THEN g ELSE x
      BY <1>1
    <3>2. PICK y \in handlers : /\ y.svc = f.svc /\ y.tag = f.tag /\ y.msg = f.msg
                                /\ f = IF y = h THEN g ELSE y
      BY <1>1
    <3>3. x = y
      BY <2>3, <3>1, <3>2 DEF OnePlace
    <3> QED
      BY <3>1, <3>2, <3>3
  <2> QED
    BY <2>1, <2>2, <2>3
<1>3. \A s, msg : Held(s, msg)' => Held(s, msg)
  BY <1>1 DEF Held
<1> QED
  BY <1>2, <1>3

(* A message that no call has yet. *)
LEMMA PublishOnePlace ==
    ASSUME TypeInv, OnePlace, NEW s \in Service, NEW msg, ~Handler(s, msg),
           queue' = [queue EXCEPT ![s] = @ \cup {msg}], UNCHANGED <<out, channel, handlers>>
    PROVE  /\ OnePlace'
           /\ \A r \in Service : \A x : Held(r, x)' => Held(r, x) \/ (r = s /\ x = msg)
<1>1. \A r \in Service : queue'[r] = queue[r] \cup (IF r = s THEN {msg} ELSE {})
  BY DEF TypeInv, BrokerTyped
<1>2. OnePlace'
  BY <1>1 DEF OnePlace, Handler
<1>3. \A r \in Service : \A x : Held(r, x)' => Held(r, x) \/ (r = s /\ x = msg)
  BY <1>1 DEF Held
<1> QED
  BY <1>2, <1>3

LEMMA DeliverOnePlace ==
    ASSUME TypeInv, OnePlace, NEW s \in Service, Deliver(s)
    PROVE  OnePlace' /\ \A r \in Service : \A x : Held(r, x)' => Held(r, x)
<1>1. PICK msg \in queue[s] :
         /\ queue' = [queue EXCEPT ![s] = @ \ {msg}]
         /\ out' = [out EXCEPT ![s] = @ \cup {[tag |-> lastTag[s] + 1, msg |-> msg]}]
         /\ handlers' = handlers \cup {[svc |-> s, conn |-> conn[s], tag |-> lastTag[s] + 1,
                                        msg |-> msg, at |-> "start", tx |-> 0]}
         /\ UNCHANGED channel
  BY DEF Deliver
<1> DEFINE tag == lastTag[s] + 1
           new == [svc |-> s, conn |-> conn[s], tag |-> tag, msg |-> msg,
                   at |-> "start", tx |-> 0]
<1>2. /\ \A r \in Service : r # s => queue'[r] = queue[r] /\ out'[r] = out[r]
      /\ queue'[s] = queue[s] \ {msg} /\ out'[s] = out[s] \cup {[tag |-> tag, msg |-> msg]}
  BY <1>1 DEF TypeInv, BrokerTyped
<1>3. /\ lastTag[s] \in Nat
      /\ \A d \in out[s] : d.tag # tag
  <2>1. lastTag[s] \in Nat /\ \A d \in out[s] : d.tag \in 1..lastTag[s]
    BY DEF TypeInv, BrokerTyped
  <2> QED
    BY <2>1
<1>4. \A h \in handlers : h.svc = s => h.tag # tag /\ h.msg # msg
  <2> SUFFICES ASSUME NEW h \in handlers, h.svc = s PROVE h.tag # tag /\ h.msg # msg
    OBVIOUS
  <2>1. [tag |-> h.tag, msg |-> h.msg] \in out[s] /\ h.msg \notin queue[s]
    BY DEF OnePlace
  <2>2. [tag |-> h.tag, msg |-> h.msg].tag = h.tag
    OBVIOUS
  <2> QED
    BY <1>3, <2>1, <2>2
<1>5. OnePlace'
  <2> SUFFICES ASSUME NEW r \in Service
               PROVE  (/\ channel[r] = "open"
                       /\ \A d, e \in out[r] : d.tag = e.tag => d = e
                       /\ \A f \in handlers : f.svc = r =>
                             /\ [tag |-> f.tag, msg |-> f.msg] \in out[r]
                             /\ f.msg \notin queue[r]
                       /\ \A f, e \in handlers :
                             f.svc = r /\ e.svc = r /\ (f.tag = e.tag \/ f.msg = e.msg) => f = e)'
    BY DEF OnePlace
  <2>1. channel'[r] = "open"
    BY <1>1 DEF OnePlace
  <2>2. ASSUME NEW d \in out'[r], NEW e \in out'[r], d.tag = e.tag
        PROVE  d = e
    <3>1. CASE d \in out[r] /\ e \in out[r]
      BY <2>2, <3>1 DEF OnePlace
    <3>2. CASE d \notin out[r] \/ e \notin out[r]
      <4>1. r = s
        BY <1>2, <3>2
      <4>2. [tag |-> tag, msg |-> msg].tag = tag
        OBVIOUS
      <4> QED
        BY <1>2, <1>3, <2>2, <3>2, <4>1, <4>2
    <3> QED
      BY <3>1, <3>2
  <2>3. ASSUME NEW f \in handlers', f.svc = r
        PROVE  [tag |-> f.tag, msg |-> f.msg] \in out'[r] /\ f.msg \notin queue'[r]
    <3>1. CASE f \in handlers
      BY <1>2, <2>3, <3>1 DEF OnePlace
    <3>2. CASE f = new
      BY <1>2, <2>3, <3>2
    <3> QED
      BY <1>1, <3>1, <3>2
  <2>4. ASSUME NEW f \in handlers', NEW e \in handlers', f.svc = r, e.svc = r,
               f.tag = e.tag \/ f.msg = e.msg
        PROVE  f = e
    <3>1. CASE f \in handlers /\ e \in handlers
      BY <2>4, <3>1 DEF OnePlace
    <3>2. CASE f = new \/ e = new
      <4>1. new.svc = s /\ new.tag = tag /\ new.msg = msg
        OBVIOUS
      <4> HIDE DEF new
      <4> QED
        BY <1>1, <1>4, <2>4, <3>2, <4>1 DEF new
    <3> QED
      BY <1>1, <3>1, <3>2
  <2> QED
    BY <2>1, <2>2, <2>3, <2>4
<1>6. ASSUME NEW r \in Service, NEW x, Held(r, x)'
      PROVE  Held(r, x)
  <2>1. CASE x \in queue'[r]
    BY <1>2, <2>1 DEF Held
  <2>2. ASSUME NEW f \in handlers', f.svc = r, f.msg = x
        PROVE  Held(r, x)
    BY <1>1, <2>2 DEF Held
  <2> QED
    BY <1>6, <2>1, <2>2 DEF Held
<1> QED
  BY <1>5, <1>6

(* A call that settles its own delivery, after publishing messages that no *)
(* call has yet.                                                           *)
LEMMA AckOnePlace ==
    ASSUME TypeInv, OnePlace, NEW h \in handlers, NEW pubs, Ack(h, pubs), Return(h),
           \A p \in pubs : ~Handler(p.to, p.msg)
    PROVE  /\ OnePlace'
           /\ \A r \in Service : \A x : Held(r, x)' =>
                 \/ Held(r, x) /\ ~(r = h.svc /\ x = h.msg)
                 \/ \E p \in pubs : p.to = r /\ p.msg = x
           /\ \A r \in Service : \A x \in queue'[r] :
                 x \in queue[r] \/ \E p \in pubs : p.to = r /\ p.msg = x
<1> DEFINE s == h.svc
           mine == [tag |-> h.tag, msg |-> h.msg]
           settled == {d \in out[s] : d.tag = h.tag}
<1>1. /\ s \in Service /\ channel[s] = "open" /\ mine \in out[s]
      /\ handlers' = handlers \ {h}
  BY DEF TypeInv, Call, OnePlace, Return
<1>2. settled = {mine}
  <2>1. mine.tag = h.tag
    OBVIOUS
  <2>2. \A d \in out[s] : d.tag = h.tag => d = mine
    BY <1>1, <2>1 DEF OnePlace
  <2> HIDE DEF mine
  <2> QED
    BY <1>1, <2>1, <2>2
<1>3. /\ queue' = [Published(s, pubs) EXCEPT ![s] = @ \cup {}]
      /\ out' = [out EXCEPT ![s] = @ \ settled]
      /\ UNCHANGED channel
  <2>1. SettleWith(s, h.tag, pubs, FALSE)
    BY <1>1 DEF Ack
  <2>2. settled # {}
    BY <1>2
  <2> QED
    BY <2>1, <2>2 DEF SettleWith
<1>4. /\ \A r \in Service : queue'[r] = queue[r] \cup {p.msg : p \in {x \in pubs : x.to = r}}
      /\ \A r \in Service : r # s => out'[r] = out[r]
      /\ out'[s] = out[s] \ {mine}
  BY <1>1, <1>2, <1>3 DEF Published, TypeInv, BrokerTyped
<1>5. \A r \in Service : \A x \in queue'[r] :
         x \in queue[r] \/ \E p \in pubs : p.to = r /\ p.msg = x
  BY <1>4
<1>6. OnePlace'
  <2> SUFFICES ASSUME NEW r \in Service
               PROVE  (/\ channel[r] = "open"
                       /\ \A d, e \in out[r] : d.tag = e.tag => d = e
                       /\ \A f \in handlers : f.svc = r =>
                             /\ [tag |-> f.tag, msg |-> f.msg] \in out[r]
                             /\ f.msg \notin queue[r]
                       /\ \A f, e \in handlers :
                             f.svc = r /\ e.svc = r /\ (f.tag = e.tag \/ f.msg = e.msg) => f = e)'
    BY DEF OnePlace
  <2>1. channel'[r] = "open" /\ \A d, e \in out'[r] : d.tag = e.tag => d = e
    BY <1>3, <1>4 DEF OnePlace
  <2>2. ASSUME NEW f \in handlers', f.svc = r
        PROVE  [tag |-> f.tag, msg |-> f.msg] \in out'[r] /\ f.msg \notin queue'[r]
    <3>1. f \in handlers /\ f # h
      BY <1>1
    <3>2. [tag |-> f.tag, msg |-> f.msg] \in out[r] /\ f.msg \notin queue[r]
      BY <2>2, <3>1 DEF OnePlace
    <3>3. f.msg \notin queue'[r]
      BY <1>5, <2>2, <3>1, <3>2 DEF Handler
    <3>4. r = s => f.tag # h.tag
      BY <2>2, <3>1 DEF OnePlace
    <3>5. r = s => [tag |-> f.tag, msg |-> f.msg] # mine
      BY <3>4
    <3> QED
      BY <1>4, <3>2, <3>3, <3>5
  <2>3. \A f, e \in handlers' :
           f.svc = r /\ e.svc = r /\ (f.tag = e.tag \/ f.msg = e.msg) => f = e
    BY <1>1 DEF OnePlace
  <2> QED
    BY <2>1, <2>2, <2>3
<1>7. ASSUME NEW r \in Service, NEW x, Held(r, x)'
      PROVE  \/ Held(r, x) /\ ~(r = s /\ x = h.msg)
             \/ \E p \in pubs : p.to = r /\ p.msg = x
  <2>1. CASE x \in queue'[r]
    <3>1. h.msg \notin queue[s]
      BY <1>1 DEF OnePlace
    <3> QED
      BY <1>5, <2>1, <3>1 DEF Held
  <2>2. ASSUME NEW f \in handlers', f.svc = r, f.msg = x
        PROVE  Held(r, x) /\ ~(r = s /\ x = h.msg)
    BY <1>1, <2>2 DEF Held, OnePlace
  <2> QED
    BY <1>7, <2>1, <2>2 DEF Held
<1> QED
  BY <1>5, <1>6, <1>7


-----------------------------------------------------------------------------
(* As long as nothing fails everything is done once.                       *)

(* A step that brings nothing new for the jobs, or for a transaction. *)
JobsRest ==
    /\ UNCHANGED sent /\ queued \subseteq queued'
    /\ \A a \in Anchor : /\ Held("btc-tx", Job(a))' => Held("btc-tx", Job(a))
                         /\ Waiting(a)' => Waiting(a)
    /\ \A h \in handlers' : h.at # "failed"

WayRests(t) ==
    /\ Sending(t)' => Sending(t)
    /\ Announced(t)' => Announced(t)
    /\ Tracked(t)' => Tracked(t)
    /\ Unblocked(t)' => Unblocked(t)

LEMMA JobsRestOnce == ASSUME JobsOnce, JobsRest PROVE JobsOnce'
  BY DEF JobsOnce, JobsRest, Tx

LEMMA WayRestsOnce ==
    ASSUME NEW t, TxOnce(t), WayRests(t),
           UNCHANGED <<handed, reports, blocks, BTCTxIds, monitor>>
    PROVE  TxOnce(t)'
  BY DEF TxOnce, WayRests, Reporting

(* What follows from where messages are and from what the calls do. *)
LEMMA HeldRests ==
    ASSUME \A r \in Service : \A x : Held(r, x)' => Held(r, x), NEW t,
           UNCHANGED handed
    PROVE  (Announced(t)' => Announced(t)) /\ (Tracked(t)' => Tracked(t))
  BY DEF Announced, Tracked, Service

LEMMA HeldWork ==
    ASSUME TypeInv, NEW s \in Service, NEW msg, Held(s, msg)
    PROVE  msg \in WorkOf(s)
<1>1. CASE msg \in queue[s]
  BY <1>1 DEF TypeInv, BrokerTyped
<1>2. CASE \E h \in handlers : h.svc = s /\ h.msg = msg
  BY <1>2, CallMessage DEF CallTyped
<1> QED
  BY <1>1, <1>2 DEF Held

LEMMA HeldKinds ==
    ASSUME TypeInv, NEW t, NEW n
    PROVE  /\ Held("calendar", TxMsg(t)) => t \in Tx
           /\ Held("calendar", MonMsg(t, n)) => t \in Tx /\ n \in 1..reports[t]
           /\ Held("btc-mon", TxIdMsg(t, n)) => t \in Tx /\ n \in 1..handed[t]
<1>1. ASSUME Held("calendar", TxMsg(t)) PROVE t \in Tx
  <2>1. TxMsg(t) \in WorkOf("calendar")
    BY <1>1, HeldWork DEF Service
  <2> QED
    BY <2>1, WorkMembers DEF TxMsg, MonMsg
<1>2. ASSUME Held("calendar", MonMsg(t, n)) PROVE t \in Tx /\ n \in 1..reports[t]
  <2>1. MonMsg(t, n) \in WorkOf("calendar")
    BY <1>2, HeldWork DEF Service
  <2>2. PICK u \in Tx : \E m \in 1..reports[u] : MonMsg(t, n) = MonMsg(u, m)
    <3>1. ASSUME NEW u \in Tx PROVE MonMsg(t, n) # TxMsg(u)
      BY DEF TxMsg, MonMsg
    <3> QED
      BY <2>1, <3>1, WorkMembers
  <2> QED
    BY <2>2 DEF MonMsg
<1>3. ASSUME Held("btc-mon", TxIdMsg(t, n)) PROVE t \in Tx /\ n \in 1..handed[t]
  <2>1. TxIdMsg(t, n) \in WorkOf("btc-mon")
    BY <1>3, HeldWork DEF Service
  <2>2. PICK u \in Tx : \E m \in 1..handed[u] : TxIdMsg(t, n) = TxIdMsg(u, m)
    BY <2>1, WorkMembers
  <2> QED
    BY <2>2 DEF TxIdMsg
<1> QED
  BY <1>1, <1>2, <1>3

LEMMA QuietQueueAnchor ==
    ASSUME TypeInv, Quiet, NEW a \in Anchor, QueueAnchor(a)
    PROVE  Quiet'
<1> OnePlace /\ JobsOnce /\ \A t \in Tx : TxOnce(t)
  BY DEF Quiet
<1>1. /\ a \notin queued /\ queued' = queued \cup {a}
      /\ queue' = [queue EXCEPT !["btc-tx"] = @ \cup {Job(a)}]
      /\ UNCHANGED <<out, channel, handlers, sent, handed, reports, blocks, BTCTxIds, monitor>>
  BY DEF QueueAnchor, bitcoin, btcmon, calendar
<1>2. ~Handler("btc-tx", Job(a)) /\ "btc-tx" \in Service
  BY <1>1 DEF JobsOnce, Held, Handler, Service
<1>3. /\ OnePlace'
      /\ \A r \in Service : \A x : Held(r, x)' => Held(r, x) \/ (r = "btc-tx" /\ x = Job(a))
  BY <1>1, <1>2, PublishOnePlace
<1>4. /\ queue'["calendar"] = queue["calendar"]
      /\ queue'["btc-tx"] = queue["btc-tx"] \cup {Job(a)}
  BY <1>1 DEF TypeInv, BrokerTyped, Service
<1>5. \A b \in Anchor : Job(b) = Job(a) => b = a
  BY DEF Job
<1>6. JobsOnce'
  <2>1. \A b \in Anchor : Held("btc-tx", Job(b))' => b \in queued'
    BY <1>1, <1>2, <1>3, <1>5 DEF JobsOnce
  <2>2. \A b \in Anchor : Waiting(b)' => Waiting(b) \/ b = a
    BY <1>1, <1>4, <1>5 DEF Waiting
  <2>3. \A b \in Anchor : Waiting(b)' => \A t \in Tx : sent[t] # b
    BY <1>1, <2>2 DEF JobsOnce
  <2> QED
    BY <1>1, <2>1, <2>3 DEF JobsOnce, Tx
<1>7. ASSUME NEW t \in Tx PROVE TxOnce(t)'
  <2>1. WayRests(t)
    BY <1>1, <1>3, <1>4 DEF WayRests, Sending, Announced, Tracked, Unblocked, Service
  <2> QED
    BY <1>1, <2>1, WayRestsOnce
<1> QED
  BY <1>1, <1>3, <1>6, <1>7 DEF Quiet, Tx

LEMMA QuietSendTx ==
    ASSUME TypeInv, TypeInv', Quiet, NEW h \in handlers, SendTx(h)
    PROVE  Quiet'
<1> OnePlace /\ JobsOnce /\ \A t \in Tx : TxOnce(t)
  BY DEF Quiet
<1> CountsTyped /\ CountsTyped' /\ Indexed /\ Indexed'
  BY CountsIndexed, CountsIndexedNext DEF TypeInv
<1>0. PICK new \in Nat : new = Len(sent) + 1
  BY DEF Indexed
<1> DEFINE g == [h EXCEPT !.at = "sent", !.tx = new]
<1>1. /\ h.svc = "btc-tx" /\ h.at = "start"
      /\ sent' = Append(sent, h.msg.of) /\ reports' = Append(reports, 0)
      /\ handed' = Append(handed, 0) /\ blocks' = Append(blocks, 0)
      /\ handlers' = (handlers \ {h}) \cup {g}
      /\ UNCHANGED <<queued, queue, out, channel, BTCTxIds, monitor>>
  BY <1>0 DEF SendTx, Advance, broker
<1>2. PICK a \in Anchor : h.msg = Job(a)
  BY <1>1, CallMessage
<1>3. h.msg.of = a
  BY <1>2 DEF Job
<1>4. /\ g.svc = h.svc /\ g.tag = h.tag /\ g.msg = h.msg /\ g.at = "sent" /\ g.tx = new
  BY DEF TypeInv, Call
<1> HIDE DEF g
<1>5. OnePlace' /\ \A s, msg : Held(s, msg)' => Held(s, msg)
  BY <1>1, <1>4, AdvanceOnePlace
<1>6. /\ Tx' = Tx \cup {new} /\ new \notin Tx
      /\ sent'[new] = a /\ \A t \in Tx : sent'[t] = sent[t]
  <2>1. Len(sent') = Len(sent) + 1
    BY <1>1, <1>3, AppendProperties DEF CountsTyped
  <2>2. Tx' = Tx \cup {new} /\ new \notin Tx
    BY <1>0, <2>1 DEF Indexed
  <2>3. sent'[new] = a /\ \A t \in Tx : sent'[t] = sent[t]
    BY <1>0, <1>1, <1>3, AppendProperties DEF CountsTyped, Indexed
  <2> QED
    BY <2>2, <2>3
<1>7. ASSUME NEW c \in Seq(Nat), Len(c) = Len(sent)
      PROVE  Append(c, 0)[new] = 0 /\ \A t \in Tx : Append(c, 0)[t] = c[t]
  BY <1>0, <1>7, AppendProperties DEF Indexed
<1>8. /\ reports'[new] = 0 /\ handed'[new] = 0 /\ blocks'[new] = 0
      /\ \A t \in Tx : /\ reports'[t] = reports[t] /\ handed'[t] = handed[t]
                       /\ blocks'[t] = blocks[t]
  BY <1>1, <1>7 DEF CountsTyped
<1>9. Waiting(a) /\ Held("btc-tx", Job(a))
  BY <1>1, <1>2 DEF Waiting, Held
<1>10. JobsOnce'
  <2>1. \A t \in Tx : sent[t] # a
    BY <1>9 DEF JobsOnce
  <2>2. \A t, u \in Tx' : sent'[t] = sent'[u] => t = u
    BY <1>6, <2>1 DEF JobsOnce
  <2>3. \A t \in Tx' : sent'[t] \in queued'
    BY <1>1, <1>6, <1>9 DEF JobsOnce
  <2>4. ASSUME NEW b \in Anchor, Waiting(b)'
        PROVE  Waiting(b) /\ b # a
    <3>1. CASE Job(b) \in queue["btc-tx"]
      <4>1. Job(a) \notin queue["btc-tx"]
        BY <1>1, <1>2 DEF OnePlace, Service
      <4> QED
        BY <3>1, <4>1 DEF Waiting
    <3>2. ASSUME NEW f \in handlers', f.svc = "btc-tx", f.msg = Job(b), f.at = "start"
          PROVE  Waiting(b) /\ b # a
      <4>1. f \in handlers /\ f # h
        BY <1>1, <1>4, <3>2
      <4>2. f.msg # h.msg
        BY <1>1, <3>2, <4>1 DEF OnePlace, Service
      <4> QED
        BY <1>2, <3>2, <4>1, <4>2 DEF Waiting
    <3> QED
      BY <1>1, <2>4, <3>1, <3>2 DEF Waiting
  <2>5. \A b \in Anchor : Waiting(b)' => \A t \in Tx' : sent'[t] # b
    BY <1>6, <2>4 DEF JobsOnce
  <2>6. \A f \in handlers' : f.at # "failed"
    BY <1>1, <1>4 DEF JobsOnce
  <2> QED
    BY <1>1, <1>5, <2>2, <2>3, <2>5, <2>6 DEF JobsOnce
<1>11. ASSUME NEW t \in Tx PROVE TxOnce(t)'
  <2>1. Sending(t)' => Sending(t)
    BY <1>1, <1>4, <1>6 DEF Sending
  <2>2. Unblocked(t)' => Unblocked(t)
    BY <1>1, <1>4, <1>8 DEF Unblocked
  <2>3. (Announced(t)' => Announced(t)) /\ (Tracked(t)' => Tracked(t))
    BY <1>5, <1>8 DEF Announced, Tracked
  <2> QED
    BY <1>1, <1>8, <2>1, <2>2, <2>3 DEF TxOnce, Reporting
<1>12. TxOnce(new)'
  <2>1. ~Announced(new)'
    BY <1>5, <1>6, HeldKinds DEF Announced
  <2>2. new \notin BTCTxIds /\ new \notin monitor.todo
    BY <1>6 DEF TypeInv, MonitorTyped
  <2>3. ~Tracked(new)' /\ ~Unblocked(new)'
    BY <1>8 DEF Tracked, Unblocked
  <2>4. UNCHANGED <<BTCTxIds, monitor>>
    BY <1>1
  <2>5. reports'[new] = 0 /\ handed'[new] = 0 /\ blocks'[new] = 0
    BY <1>8
  <2> QED
    BY <2>1, <2>2, <2>3, <2>4, <2>5 DEF TxOnce
<1> QED
  BY <1>5, <1>6, <1>10, <1>11, <1>12 DEF Quiet


LEMMA QuietQueueBtcTx ==
    ASSUME TypeInv, Quiet, NEW h \in handlers, QueueBtcTx(h)
    PROVE  Quiet'
<1> OnePlace /\ JobsOnce /\ \A t \in Tx : TxOnce(t)
  BY DEF Quiet
<1> DEFINE pubs == {[to |-> "calendar", msg |-> TxMsg(h.tx)]}
<1>1. /\ h.svc = "btc-tx" /\ h.at = "sent" /\ Ack(h, pubs) /\ Return(h)
      /\ handlers' = handlers \ {h}
      /\ UNCHANGED <<queued, sent, handed, reports, blocks, BTCTxIds, monitor>>
  BY DEF QueueBtcTx, Return, bitcoin, btcmon, calendar
<1>2. PICK u \in Tx : u = h.tx
  BY <1>1, CallMessage DEF CallTyped
<1>3. Sending(u) /\ ~Announced(u) /\ handed[u] = 0
  <2>1. Sending(u)
    BY <1>1, <1>2 DEF Sending
  <2> QED
    BY <2>1 DEF TxOnce
<1>4. \A p \in pubs : ~Handler(p.to, p.msg)
  BY <1>2, <1>3 DEF Announced, Held, Handler
<1>5. /\ OnePlace'
      /\ \A r \in Service : \A x : Held(r, x)' =>
            Held(r, x) \/ (r = "calendar" /\ x = TxMsg(u))
      /\ \A r \in Service : \A x \in queue'[r] :
            x \in queue[r] \/ (r = "calendar" /\ x = TxMsg(u))
  <2>1. \A p \in pubs : p.to = "calendar" /\ p.msg = TxMsg(u)
    BY <1>2
  <2> HIDE DEF pubs
  <2> QED
    BY <1>1, <1>4, <2>1, AckOnePlace
<1>6. JobsOnce'
  <2>1. \A a \in Anchor : Held("btc-tx", Job(a))' => Held("btc-tx", Job(a))
    BY <1>5 DEF Service
  <2>2. \A a \in Anchor : Waiting(a)' => Waiting(a)
    BY <1>1, <1>5 DEF Waiting, Service
  <2> QED
    BY <1>1, <2>1, <2>2, JobsRestOnce DEF JobsRest, JobsOnce
<1>7. ASSUME NEW t \in Tx PROVE TxOnce(t)'
  <2>1. Sending(t)' => Sending(t) /\ t # u
    <3> SUFFICES ASSUME NEW f \in handlers', f.at = "sent", f.tx = t
                 PROVE  Sending(t) /\ t # u
      BY DEF Sending
    <3>1. f \in handlers /\ f # h /\ f.svc = "btc-tx"
      BY <1>1, CallMessage DEF CallTyped, Call, Service
    <3>2. f.msg # h.msg
      BY <1>1, <3>1 DEF OnePlace, Service
    <3>3. /\ sent[f.tx] = f.msg.of /\ sent[h.tx] = h.msg.of
          /\ (\E a \in Anchor : f.msg = Job(a)) /\ (\E a \in Anchor : h.msg = Job(a))
      BY <1>1, <3>1, CallMessage DEF CallTyped
    <3>4. f.msg.of # h.msg.of
      BY <3>2, <3>3 DEF Job
    <3> QED
      BY <1>2, <3>1, <3>3, <3>4 DEF Sending
  <2>2. Announced(t)' => Announced(t) \/ t = u
    BY <1>5 DEF Announced, TxMsg, Service
  <2>3. Tracked(t)' => Tracked(t)
    BY <1>1, <1>5 DEF Tracked, Service
  <2>4. Unblocked(t)' => Unblocked(t)
    <3>1. \A n : MonMsg(t, n) # TxMsg(u)
      BY DEF MonMsg, TxMsg
    <3> QED
      BY <1>1, <1>5, <3>1 DEF Unblocked, Service
  <2>5. UNCHANGED <<handed, reports, blocks, BTCTxIds, monitor>>
    BY <1>1
  <2> QED
    BY <1>3, <2>1, <2>2, <2>3, <2>4, <2>5 DEF TxOnce, Reporting
<1> QED
  BY <1>1, <1>5, <1>6, <1>7 DEF Quiet, Tx

LEMMA QuietConsumeBtcTxMessage ==
    ASSUME TypeInv, Quiet, NEW h \in handlers, ConsumeBtcTxMessage(h)
    PROVE  Quiet'
<1> OnePlace /\ JobsOnce /\ \A t \in Tx : TxOnce(t)
  BY DEF Quiet
<1> Indexed
  BY CountsIndexed DEF TypeInv
<1>1. PICK u \in Tx : u = h.msg.of
  BY CallMessage DEF ConsumeBtcTxMessage
<1>2. /\ h.svc = "calendar" /\ h.at = "start" /\ h.msg = TxMsg(u)
      /\ Ack(h, ToBtcMon(u)) /\ TrackTx(u) /\ Return(h)
      /\ handlers' = handlers \ {h}
      /\ UNCHANGED <<queued, sent, reports, blocks, BTCTxIds, monitor>>
  <2>1. h.svc = "calendar" /\ h.at = "start" /\ h.msg.type = "btctx"
    BY DEF ConsumeBtcTxMessage
  <2>2. channel["calendar"] = "open"
    BY DEF OnePlace, Service
  <2>3. h.msg = TxMsg(u)
    BY <1>1, <2>1, CallMessage
  <2> QED
    BY <1>1, <2>1, <2>2, <2>3
       DEF ConsumeBtcTxMessage, TrackTx, Return, bitcoin, btcmon
<1>3. Announced(u) /\ ~Sending(u) /\ handed[u] = 0 /\ u \notin BTCTxIds /\ reports[u] = 0
  <2>1. Announced(u)
    BY <1>2 DEF Announced, Held
  <2> QED
    BY <2>1 DEF TxOnce
<1>4. ~Handler("btc-mon", TxIdMsg(u, 1))
  <2>1. ~Held("btc-mon", TxIdMsg(u, 1))
    BY <1>3, HeldKinds
  <2> QED
    BY <2>1 DEF Held, Handler
<1>5. ToBtcMon(u) = {[to |-> "btc-mon", msg |-> TxIdMsg(u, 1)]}
  BY <1>3 DEF ToBtcMon
<1>6. /\ OnePlace'
      /\ \A r \in Service : \A x : Held(r, x)' =>
            \/ Held(r, x) /\ ~(r = "calendar" /\ x = TxMsg(u))
            \/ r = "btc-mon" /\ x = TxIdMsg(u, 1)
      /\ \A r \in Service : \A x \in queue'[r] :
            x \in queue[r] \/ (r = "btc-mon" /\ x = TxIdMsg(u, 1))
  <2>1. \A p \in ToBtcMon(u) : p.to = "btc-mon" /\ p.msg = TxIdMsg(u, 1)
    BY <1>5
  <2> QED
    BY <1>2, <1>4, <2>1, AckOnePlace
<1>7. JobsOnce'
  <2>1. \A a \in Anchor : Held("btc-tx", Job(a))' => Held("btc-tx", Job(a))
    BY <1>6 DEF Service
  <2>2. \A a \in Anchor : Waiting(a)' => Waiting(a)
    BY <1>2, <1>6 DEF Waiting, Service
  <2> QED
    BY <1>2, <2>1, <2>2, JobsRestOnce DEF JobsRest, JobsOnce
<1>8. handed'[u] = 1 /\ \A t \in Tx : t # u => handed'[t] = handed[t]
  BY <1>2, <1>3, CountOne DEF TrackTx, TypeInv, CountsTyped, Indexed
<1>9. ASSUME NEW t \in Tx PROVE TxOnce(t)'
  <2>1. Sending(t)' => Sending(t)
    BY <1>2 DEF Sending
  <2>2. Announced(t)' => Announced(t) /\ t # u
    BY <1>6 DEF Announced, TxMsg, Service
  <2>3. t # u /\ Tracked(t)' => Tracked(t)
    <3>1. \A n : TxIdMsg(t, n) = TxIdMsg(u, 1) => t = u
      BY DEF TxIdMsg
    <3> QED
      BY <1>6, <1>8, <3>1 DEF Tracked, Service
  <2>4. Unblocked(t)' => Unblocked(t)
    BY <1>2, <1>6 DEF Unblocked, Service
  <2>5. UNCHANGED <<reports, blocks, BTCTxIds, monitor>>
    BY <1>2
  <2>6. CASE t # u
    <3>1. handed'[t] = handed[t]
      BY <1>8, <2>6
    <3> QED
      BY <2>1, <2>2, <2>3, <2>4, <2>5, <2>6, <3>1 DEF TxOnce, Reporting
  <2>7. CASE t = u
    <3>1. handed'[t] = 1
      BY <1>8, <2>7
    <3> QED
      BY <1>3, <2>1, <2>2, <2>4, <2>5, <2>7, <3>1 DEF TxOnce, Reporting
  <2> QED
    BY <2>6, <2>7
<1> QED
  BY <1>2, <1>6, <1>7, <1>9 DEF Quiet, Tx

LEMMA QuietCreateBtcConfirmBlock ==
    ASSUME TypeInv, Quiet, NEW h \in handlers, CreateBtcConfirmBlock(h)
    PROVE  Quiet'
<1> OnePlace /\ JobsOnce /\ \A t \in Tx : TxOnce(t)
  BY DEF Quiet
<1> Indexed
  BY CountsIndexed DEF TypeInv
<1> DEFINE g == [h EXCEPT !.at = "block", !.tx = 0]
<1>1. PICK u \in Tx : u = h.msg.of /\ \E n \in 1..reports[u] : h.msg = MonMsg(u, n)
  BY CallMessage DEF CreateBtcConfirmBlock
<1>2. /\ h.svc = "calendar" /\ h.at = "start"
      /\ blocks' = [blocks EXCEPT ![u] = @ + 1]
      /\ handlers' = (handlers \ {h}) \cup {g}
      /\ UNCHANGED <<queued, queue, out, channel, sent, handed, reports, BTCTxIds, monitor>>
  BY <1>1 DEF CreateBtcConfirmBlock, Advance, broker, bitcoin, btcmon
<1>3. g.svc = h.svc /\ g.tag = h.tag /\ g.msg = h.msg /\ g.at = "block"
  BY DEF TypeInv, Call
<1> HIDE DEF g
<1>4. OnePlace' /\ \A s, msg : Held(s, msg)' => Held(s, msg)
  BY <1>2, <1>3, AdvanceOnePlace
<1>5. Unblocked(u)
  BY <1>1, <1>2 DEF Unblocked
<1>6. blocks[u] = 0 /\ reports[u] = 1
  BY <1>1, <1>5 DEF TxOnce, Indexed
<1>7. h.msg = MonMsg(u, 1)
  BY <1>1, <1>6
<1>8. blocks'[u] = 1 /\ \A t \in Tx : t # u => blocks'[t] = blocks[t]
  BY <1>2, <1>6, CountOne DEF TypeInv, CountsTyped, Indexed
<1>9. JobsOnce'
  <2>1. \A a \in Anchor : Waiting(a)' => Waiting(a)
    BY <1>2, <1>3 DEF Waiting
  <2>2. \A f \in handlers' : f.at # "failed"
    BY <1>2, <1>3 DEF JobsOnce
  <2> QED
    BY <1>2, <1>4, <2>1, <2>2, JobsRestOnce DEF JobsRest
<1>10. ASSUME NEW t \in Tx PROVE TxOnce(t)'
  <2>1. Sending(t)' => Sending(t)
    BY <1>2, <1>3 DEF Sending
  <2>2. (Announced(t)' => Announced(t)) /\ (Tracked(t)' => Tracked(t))
    BY <1>2, <1>4 DEF Announced, Tracked
  <2>3. UNCHANGED <<handed, reports, BTCTxIds, monitor>>
    BY <1>2
  <2>4. CASE t # u
    <3>1. Unblocked(t)' => Unblocked(t)
      BY <1>2, <1>3 DEF Unblocked
    <3>2. blocks'[t] = blocks[t]
      BY <1>8, <2>4
    <3> QED
      BY <2>1, <2>2, <2>3, <3>1, <3>2 DEF TxOnce, Reporting
  <2>5. CASE t = u
    <3>1. ~Unblocked(u)'
      <4>1. \A n \in 1..reports'[u] : n = 1
        BY <1>6, <2>3
      <4>2. MonMsg(u, 1) \notin queue'["calendar"]
        BY <1>2, <1>7 DEF OnePlace, Service
      <4>3. ASSUME NEW f \in handlers', f.svc = "calendar", f.at = "start"
            PROVE  f.msg # MonMsg(u, 1)
        <5>1. f \in handlers /\ f # h
          BY <1>2, <1>3, <4>3
        <5> QED
          BY <1>2, <1>7, <4>3, <5>1 DEF OnePlace, Service
      <4> QED
        BY <4>1, <4>2, <4>3 DEF Unblocked
    <3>2. blocks'[t] = 1
      BY <1>8, <2>5
    <3> QED
      BY <1>6, <2>1, <2>2, <2>3, <2>5, <3>1, <3>2 DEF TxOnce, Reporting
  <2> QED
    BY <2>4, <2>5
<1> QED
  BY <1>2, <1>4, <1>9, <1>10 DEF Quiet, Tx


LEMMA QuietQueueBtcCStateData ==
    ASSUME TypeInv, Quiet, NEW h \in handlers, QueueBtcCStateData(h)
    PROVE  Quiet'
<1> OnePlace /\ JobsOnce /\ \A t \in Tx : TxOnce(t)
  BY DEF Quiet
<1>1. /\ h.svc = "calendar" /\ Ack(h, {}) /\ Return(h) /\ handlers' = handlers \ {h}
      /\ UNCHANGED <<queued, sent, handed, reports, blocks, BTCTxIds, monitor>>
  <2>1. channel["calendar"] = "open"
    BY DEF OnePlace, Service
  <2> QED
    BY <2>1 DEF QueueBtcCStateData, Return, bitcoin, btcmon
<1>2. /\ OnePlace'
      /\ \A r \in Service : \A x : Held(r, x)' => Held(r, x)
      /\ \A r \in Service : queue'[r] \subseteq queue[r]
  BY <1>1, AckOnePlace
<1>3. JobsOnce'
  <2>1. \A a \in Anchor : Waiting(a)' => Waiting(a)
    BY <1>1, <1>2 DEF Waiting, Service
  <2>2. \A a \in Anchor : Held("btc-tx", Job(a))' => Held("btc-tx", Job(a))
    BY <1>2 DEF Service
  <2> QED
    BY <1>1, <2>1, <2>2, JobsRestOnce DEF JobsRest, JobsOnce
<1>4. ASSUME NEW t \in Tx PROVE TxOnce(t)'
  <2>1. Sending(t)' => Sending(t)
    BY <1>1 DEF Sending
  <2>2. Unblocked(t)' => Unblocked(t)
    BY <1>1, <1>2 DEF Unblocked, Service
  <2> QED
    BY <1>1, <1>2, <2>1, <2>2, HeldRests, WayRestsOnce DEF WayRests
<1> QED
  BY <1>1, <1>2, <1>3, <1>4 DEF Quiet, Tx

LEMMA QuietConsumeBtcTxIdMessage ==
    ASSUME TypeInv, Quiet, NEW h \in handlers, ConsumeBtcTxIdMessage(h)
    PROVE  Quiet'
<1> OnePlace /\ JobsOnce /\ \A t \in Tx : TxOnce(t)
  BY DEF Quiet
<1> Indexed
  BY CountsIndexed DEF TypeInv
<1>1. PICK u \in Tx : u = h.msg.of /\ \E n \in 1..handed[u] : h.msg = TxIdMsg(u, n)
  BY CallMessage DEF ConsumeBtcTxIdMessage
<1>2. /\ h.svc = "btc-mon" /\ Ack(h, {}) /\ Return(h) /\ handlers' = handlers \ {h}
      /\ BTCTxIds' = BTCTxIds \cup {u}
      /\ UNCHANGED <<queued, sent, handed, reports, blocks, monitor>>
  <2>1. channel["btc-mon"] = "open"
    BY DEF OnePlace, Service
  <2> QED
    BY <1>1, <2>1 DEF ConsumeBtcTxIdMessage, Return, bitcoin, calendar
<1>3. Tracked(u)
  BY <1>1, <1>2 DEF Tracked, Held
<1>4. u \notin BTCTxIds /\ reports[u] = 0 /\ handed[u] = 1
  BY <1>1, <1>3 DEF TxOnce, Indexed
<1>5. h.msg = TxIdMsg(u, 1)
  BY <1>1, <1>4
<1>6. /\ OnePlace'
      /\ \A r \in Service : \A x : Held(r, x)' =>
            Held(r, x) /\ ~(r = "btc-mon" /\ x = TxIdMsg(u, 1))
      /\ \A r \in Service : queue'[r] \subseteq queue[r]
  BY <1>2, <1>5, AckOnePlace
<1>7. JobsOnce'
  <2>1. \A a \in Anchor : Waiting(a)' => Waiting(a)
    BY <1>2, <1>6 DEF Waiting, Service
  <2>2. \A a \in Anchor : Held("btc-tx", Job(a))' => Held("btc-tx", Job(a))
    BY <1>6 DEF Service
  <2> QED
    BY <1>2, <2>1, <2>2, JobsRestOnce DEF JobsRest, JobsOnce
<1>8. ASSUME NEW t \in Tx PROVE TxOnce(t)'
  <2>1. Sending(t)' => Sending(t)
    BY <1>2 DEF Sending
  <2>2. Unblocked(t)' => Unblocked(t)
    BY <1>2, <1>6 DEF Unblocked, Service
  <2>3. (Announced(t)' => Announced(t)) /\ (Tracked(t)' => Tracked(t))
    BY <1>2, <1>6, HeldRests
  <2>4. ~Tracked(u)'
    BY <1>2, <1>4, <1>6 DEF Tracked, Service
  <2>5. UNCHANGED <<handed, reports, blocks, monitor>>
    BY <1>2
  <2>6. CASE t = u
    BY <1>4, <2>1, <2>2, <2>3, <2>4, <2>5, <2>6 DEF TxOnce, Reporting
  <2>7. CASE t # u
    <3>1. t \in BTCTxIds' <=> t \in BTCTxIds
      BY <1>2, <2>7
    <3> QED
      BY <2>1, <2>2, <2>3, <2>5, <3>1 DEF TxOnce, Reporting
  <2> QED
    BY <2>6, <2>7
<1> QED
  BY <1>2, <1>6, <1>7, <1>8 DEF Quiet, Tx

(* The monitor's own steps leave messages and calls alone. *)
LEMMA QuietMonitor ==
    ASSUME TypeInv, Quiet, MonitorTransactions \/ RemoveTransaction \/ ChecksComplete
                           \/ \E t \in Tx : SkipTransaction(t)
    PROVE  Quiet'
<1> OnePlace /\ JobsOnce /\ (\A t \in Tx : TxOnce(t)) /\ monitor \in Check
  BY DEF Quiet, TypeInv, MonitorTyped
<1>1. UNCHANGED <<queued, queue, out, channel, handlers, sent, handed, reports, blocks>>
  BY DEF MonitorTransactions, RemoveTransaction, ChecksComplete, SkipTransaction, broker,
         bitcoin, calendar
<1>2. OnePlace' /\ JobsOnce'
  BY <1>1 DEF OnePlace, JobsOnce, Held, Waiting, Tx
<1>3. ASSUME NEW t \in Tx
      PROVE  /\ Sending(t)' = Sending(t) /\ Announced(t)' = Announced(t)
             /\ Tracked(t)' = Tracked(t) /\ Unblocked(t)' = Unblocked(t)
  BY <1>1 DEF Sending, Announced, Tracked, Unblocked, Held
<1>4. ASSUME NEW t \in Tx PROVE TxOnce(t)'
  <2> UNCHANGED <<handed, reports, blocks>> /\ TxOnce(t)
    BY <1>1
  <2>1. CASE MonitorTransactions
    <3>1. /\ monitor'.todo = BTCTxIds /\ monitor'.at = "check" /\ monitor.at = "idle"
          /\ UNCHANGED BTCTxIds
      BY <2>1 DEF MonitorTransactions
    <3>2. reports[t] \in Nat
      BY CountsIndexed DEF TypeInv, Indexed
    <3> QED
      BY <1>3, <3>1, <3>2 DEF TxOnce, Reporting
  <2>2. CASE RemoveTransaction
    <3>1. /\ monitor'.todo = monitor.todo /\ monitor'.at = "check" /\ monitor.at = "srem"
          /\ BTCTxIds' = BTCTxIds \ {monitor.tx}
      BY <2>2 DEF RemoveTransaction, Check
    <3> QED
      BY <1>3, <3>1 DEF TxOnce, Reporting
  <2>3. CASE ChecksComplete
    <3>1. monitor'.todo = {} /\ monitor'.at = "idle" /\ monitor.at = "check" /\ UNCHANGED BTCTxIds
      BY <2>3 DEF ChecksComplete, Idle
    <3> QED
      BY <1>3, <3>1 DEF TxOnce, Reporting
  <2>4. ASSUME NEW u \in Tx, SkipTransaction(u)
        PROVE  TxOnce(t)'
    <3>1. /\ monitor'.todo \subseteq monitor.todo /\ monitor'.at = "check"
          /\ monitor.at = "check" /\ UNCHANGED BTCTxIds
      BY <2>4 DEF SkipTransaction, Check
    <3> QED
      BY <1>3, <3>1 DEF TxOnce, Reporting
  <2> QED
    BY <2>1, <2>2, <2>3, <2>4
<1> QED
  BY <1>1, <1>2, <1>4 DEF Quiet, Tx

LEMMA QuietReportTransaction ==
    ASSUME TypeInv, Quiet, NEW u \in Tx, ReportTransaction(u)
    PROVE  Quiet'
<1> OnePlace /\ JobsOnce /\ \A t \in Tx : TxOnce(t)
  BY DEF Quiet
<1> Indexed
  BY CountsIndexed DEF TypeInv
<1>1. channel["btc-mon"] = "open"
  BY DEF OnePlace, Service
<1>2. /\ monitor.at = "check" /\ u \in monitor.todo
      /\ monitor'.at = "srem" /\ monitor'.todo = monitor.todo \ {u} /\ monitor'.tx = u
      /\ reports' = [reports EXCEPT ![u] = @ + 1]
      /\ queue' = [queue EXCEPT !["calendar"] = @ \cup {MonMsg(u, reports[u] + 1)}]
      /\ UNCHANGED <<queued, out, channel, handlers, sent, handed, blocks, BTCTxIds>>
  BY <1>1 DEF ReportTransaction, bitcoin, calendar
<1>3. u \in BTCTxIds /\ reports[u] = 0 /\ ~Tracked(u) /\ handed[u] # 0 /\ blocks[u] = 0
  BY <1>2 DEF TxOnce
<1>4. queue' = [queue EXCEPT !["calendar"] = @ \cup {MonMsg(u, 1)}]
  BY <1>2, <1>3
<1>5. ~Handler("calendar", MonMsg(u, 1))
  <2>1. ~Held("calendar", MonMsg(u, 1))
    BY <1>3, HeldKinds
  <2> QED
    BY <2>1 DEF Held, Handler
<1>6. /\ OnePlace'
      /\ \A r \in Service : \A x : Held(r, x)' =>
            Held(r, x) \/ (r = "calendar" /\ x = MonMsg(u, 1))
  BY <1>2, <1>4, <1>5, PublishOnePlace DEF Service
<1>7. /\ queue'["btc-tx"] = queue["btc-tx"]
      /\ queue'["calendar"] = queue["calendar"] \cup {MonMsg(u, 1)}
  BY <1>4 DEF TypeInv, BrokerTyped, Service
<1>8. JobsOnce'
  <2>1. \A a \in Anchor : Waiting(a)' => Waiting(a)
    BY <1>2, <1>7 DEF Waiting
  <2>2. \A a \in Anchor : Held("btc-tx", Job(a))' => Held("btc-tx", Job(a))
    BY <1>6 DEF Service
  <2> QED
    BY <1>2, <2>1, <2>2, JobsRestOnce DEF JobsRest, JobsOnce
<1>9. reports'[u] = 1 /\ \A t \in Tx : t # u => reports'[t] = reports[t]
  BY <1>2, <1>3, CountOne DEF TypeInv, CountsTyped, Indexed
<1>10. ASSUME NEW t \in Tx PROVE TxOnce(t)'
  <2>1. Sending(t)' => Sending(t)
    BY <1>2 DEF Sending
  <2>2. Announced(t)' => Announced(t)
    BY <1>6 DEF Announced, TxMsg, MonMsg, Service
  <2>3. Tracked(t)' => Tracked(t)
    BY <1>2, <1>6 DEF Tracked, Service
  <2>4. UNCHANGED <<handed, blocks, BTCTxIds>>
    BY <1>2
  <2>5. CASE t = u
    <3>1. reports'[t] = 1 /\ t \notin monitor'.todo /\ Reporting(t)'
      BY <1>2, <1>9, <2>5 DEF Reporting
    <3> QED
      BY <1>3, <2>1, <2>2, <2>3, <2>4, <2>5, <3>1 DEF TxOnce
  <2>6. CASE t # u
    <3>1. reports'[t] = reports[t]
      BY <1>9, <2>6
    <3>2. Unblocked(t)' => Unblocked(t)
      <4>1. \A n : MonMsg(t, n) # MonMsg(u, 1)
        BY <2>6 DEF MonMsg
      <4> QED
        BY <1>2, <1>7, <3>1, <4>1 DEF Unblocked
    <3>3. ~Reporting(t) /\ ~Reporting(t)'
      BY <1>2, <2>6 DEF Reporting
    <3>4. monitor'.todo \subseteq monitor.todo
      BY <1>2
    <3> QED
      BY <2>1, <2>2, <2>3, <2>4, <3>1, <3>2, <3>3, <3>4 DEF TxOnce
  <2> QED
    BY <2>5, <2>6
<1> QED
  BY <1>2, <1>6, <1>8, <1>10 DEF Quiet, Tx

LEMMA QuietDeliver ==
    ASSUME TypeInv, Quiet, NEW s \in Service, Deliver(s)
    PROVE  Quiet'
<1> OnePlace /\ JobsOnce /\ \A t \in Tx : TxOnce(t)
  BY DEF Quiet
<1>1. OnePlace' /\ \A r \in Service : \A x : Held(r, x)' => Held(r, x)
  BY DeliverOnePlace
<1>2. UNCHANGED <<queued, sent, handed, reports, blocks, BTCTxIds, monitor>>
  BY DEF Deliver, bitcoin, btcmon, calendar
<1>3. /\ \A r \in Service : queue'[r] \subseteq queue[r]
      /\ \A f \in handlers' : \/ f \in handlers
                              \/ f.svc = s /\ f.msg \in queue[s] /\ f.at = "start"
  <2>1. PICK msg \in queue[s] :
           /\ queue' = [queue EXCEPT ![s] = @ \ {msg}]
           /\ handlers' = handlers \cup
                 {[svc |-> s, conn |-> conn[s], tag |-> lastTag[s] + 1, msg |-> msg,
                   at |-> "start", tx |-> 0]}
    BY DEF Deliver
  <2> QED
    BY <2>1 DEF TypeInv, BrokerTyped
<1>4. JobsOnce'
  <2>1. \A a \in Anchor : Waiting(a)' => Waiting(a)
    BY <1>3 DEF Waiting, Service
  <2>2. \A a \in Anchor : Held("btc-tx", Job(a))' => Held("btc-tx", Job(a))
    BY <1>1 DEF Service
  <2>3. \A f \in handlers' : f.at # "failed"
    BY <1>3 DEF JobsOnce
  <2> QED
    BY <1>2, <2>1, <2>2, <2>3, JobsRestOnce DEF JobsRest
<1>5. ASSUME NEW t \in Tx PROVE TxOnce(t)'
  <2>1. Sending(t)' => Sending(t)
    BY <1>3 DEF Sending
  <2>2. Unblocked(t)' => Unblocked(t)
    BY <1>2, <1>3 DEF Unblocked, Service
  <2> QED
    BY <1>1, <1>2, <2>1, <2>2, HeldRests, WayRestsOnce DEF WayRests
<1> QED
  BY <1>1, <1>2, <1>4, <1>5 DEF Quiet, Tx

(* The steps that remain when nothing fails. *)
LEMMA QuietMoves ==
    ASSUME TypeInv, Quiet, Next, faults' = faults
    PROVE  \/ \E a \in Anchor : QueueAnchor(a)
           \/ \E h \in handlers : SendTx(h) \/ QueueBtcTx(h) \/ ConsumeBtcTxMessage(h)
                                  \/ CreateBtcConfirmBlock(h) \/ QueueBtcCStateData(h)
                                  \/ ConsumeBtcTxIdMessage(h)
           \/ MonitorTransactions \/ RemoveTransaction \/ ChecksComplete
           \/ \E t \in Tx : SkipTransaction(t) \/ ReportTransaction(t) \/ Confirm(t)
           \/ \E s \in Service : Deliver(s)
<1>1. ~Fault
  BY DEF Fault, TypeInv
<1>2. \A s \in Service : channel[s] = "open"
  BY DEF Quiet, OnePlace
<1>3. ASSUME NEW h \in handlers
      PROVE  ~SendTxFails(h) /\ ~QueueBtcTxFails(h) /\ ~NackLater(h)
  BY <1>1, <1>2 DEF SendTxFails, QueueBtcTxFails, NackLater, Service, Quiet, JobsOnce
<1>4. ASSUME NEW h \in handlers
      PROVE  /\ ~ConsumeBtcTxMessageCut(h) /\ ~CreateBtcConfirmBlockFails(h)
             /\ ~QueueBtcCStateDataCut(h) /\ ~ConsumeBtcTxIdMessageFails(h)
  BY <1>1 DEF ConsumeBtcTxMessageCut, CreateBtcConfirmBlockFails, QueueBtcCStateDataCut,
              ConsumeBtcTxIdMessageFails
<1>5. ~MonitorTransactionsFails /\ ~RemoveTransactionFails
  BY <1>1 DEF MonitorTransactionsFails, RemoveTransactionFails
<1>6. ASSUME NEW s \in Service
      PROVE  ~CloseChannel(s) /\ ~OpenChannel(s) /\ ~LoseConnection(s) /\ ~Crash(s)
  BY <1>1, <1>2 DEF CloseChannel, OpenChannel, LoseConnection, Crash
<1> QED
  BY <1>3, <1>4, <1>5, <1>6 DEF Next, MonitorStep, ConnectionStep

LEMMA QuietStep ==
    ASSUME TypeInv, TypeInv', Quiet, Next, faults' = faults
    PROVE  Quiet'
<1>1. ASSUME NEW t \in Tx, Confirm(t)
      PROVE  Quiet'
  BY <1>1 DEF Confirm, broker, btcmon, calendar, Quiet, OnePlace, JobsOnce, TxOnce, Held,
              Waiting, Sending, Announced, Tracked, Unblocked, Reporting, Tx
<1> QED
  BY <1>1, QuietMoves, QuietQueueAnchor, QuietSendTx, QuietQueueBtcTx,
     QuietConsumeBtcTxMessage, QuietCreateBtcConfirmBlock, QuietQueueBtcCStateData,
     QuietConsumeBtcTxIdMessage, QuietMonitor, QuietReportTransaction, QuietDeliver

(* As long as nothing fails the timers, deliveries and checks may come in  *)
(* any order: an anchor gets one Bitcoin transaction and a transaction one *)
(* btc-c block.                                                            *)
THEOREM DoneOnceUnlessDisturbed == Spec => []OnceUnlessDisturbed
<1>1. Init => Undisturbed
  <2> SUFFICES ASSUME Init PROVE Quiet
    BY DEF Undisturbed
  <2> USE DEF Init
  <2>1. OnePlace
    BY DEF OnePlace
  <2>2. Tx = {}
    BY DEF Tx
  <2>3. JobsOnce
    BY <2>2 DEF JobsOnce, Held, Waiting, Service
  <2> QED
    BY <2>1, <2>2, <2>3 DEF Quiet
<1>2. TypeInv /\ TypeInv' /\ Undisturbed /\ [Next]_vars => Undisturbed'
  <2>1. CASE TypeInv /\ TypeInv' /\ Undisturbed /\ Next
    <3>1. faults' = 0 => faults = 0
      BY <2>1, RestStep, BoundsAssumption DEF TypeInv
    <3> QED
      BY <2>1, <3>1, QuietStep DEF Undisturbed
  <2>2. CASE Undisturbed /\ UNCHANGED vars
    BY <2>2 DEF vars, broker, bitcoin, btcmon, calendar, Undisturbed, Quiet, OnePlace,
                JobsOnce, TxOnce, Held, Waiting, Sending, Announced, Tracked, Unblocked,
                Reporting, Tx
  <2> QED
    BY <2>1, <2>2
<1>3. TypeInv /\ Undisturbed => OnceUnlessDisturbed
  <2> SUFFICES ASSUME TypeInv, Quiet
               PROVE  /\ \A a \in Anchor : Cardinality(TransactionsFor(a)) <= 1
                      /\ \A t \in Tx : blocks[t] <= 1
    BY DEF Undisturbed, OnceUnlessDisturbed
  <2>1. ASSUME NEW a \in Anchor PROVE Cardinality(TransactionsFor(a)) <= 1
    <3>1. \A t, u \in TransactionsFor(a) : t = u
      BY DEF TransactionsFor, Quiet, JobsOnce
    <3>2. CASE TransactionsFor(a) = {}
      BY <3>2, FS_EmptySet
    <3>3. ASSUME NEW t \in TransactionsFor(a)
          PROVE  Cardinality(TransactionsFor(a)) <= 1
      <4>1. TransactionsFor(a) = {t}
        BY <3>1
      <4>2. Cardinality({t}) = 1
        BY FS_Singleton
      <4> QED
        BY <4>1, <4>2
    <3> QED
      BY <3>2, <3>3
  <2>2. \A t \in Tx : blocks[t] <= 1
    BY DEF Quiet, TxOnce
  <2> QED
    BY <2>1, <2>2
<1> QED
  BY <1>1, <1>2, <1>3, TypeInvariance, PTL DEF Spec

=============================================================================
