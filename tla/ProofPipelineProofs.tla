------------------------- MODULE ProofPipelineProofs -------------------------
(***************************************************************************)
(* Proofs about the proof state service and the proof generation service:  *)
(* types, that no calendar batch and no confirmation is forgotten, and     *)
(* that BTC proofs verify.                                                 *)
(*                                                                         *)
(* RowInv says what the tables, the caches and the handlers hold: a row    *)
(* leads to a tree its key is in, and what an acknowledged message stands  *)
(* for has been written, the rows that a confirmation looks up included    *)
(* unless it came early.  GenInv says the same of what a generator has     *)
(* collected; StoredInv and ConfirmInv that nothing is acknowledged before *)
(* it has been handed on, which takes that a message has one handler as    *)
(* long as nothing fails (OneHandler); NothingLost and VerifyInv that a    *)
(* proof is lost only after a fault and a message given up only when       *)
(* something is out of order.                                              *)
(***************************************************************************)
EXTENDS ProofPipeline, TLAPS

USE DEF history

-----------------------------------------------------------------------------
(* What the variables of the generators hold. *)

CalPhase == {"calRows", "calFill", "cals"}
AnchorPhase == {"anchorRows", "anchorFill", "anchors", "txRow", "txFill", "headCache",
                "headRow", "headNull", "headFill", "store"}
HeadPhase == {"headCache", "headRow", "headNull", "headFill", "store"}

Rows(Key, Row) == UNION {[S -> Row \cup {None}] : S \in SUBSET Key}

GenState ==
    [phase : CalPhase \cup AnchorPhase \cup {"ack"}, msg : GenMessage,
     cals : Rows(Agg, Cal), unread : SUBSET (Agg \cup Cal), anchors : Rows(Cal, Anchor),
     anchorId : Anchor \cup {None}, tx : Tx \cup {None, NullEntry}]

(* The rows of a busy generator are those of its message, and only BTC     *)
(* batches come to look for anchors.                                       *)
GenRows(s) ==
    /\ DOMAIN s.cals = s.msg.aggs
    /\ s.phase \in {"calRows", "calFill"} => s.unread \subseteq DOMAIN s.cals
    /\ s.phase \in {"anchorRows", "anchorFill"} => s.unread \subseteq DOMAIN s.anchors
    /\ s.phase \in AnchorPhase => s.msg.type = "btc_batch" /\ DOMAIN s.anchors = Found(s.cals)
    /\ s.phase \in {"txRow", "txFill"} => s.anchorId \in Anchor
    /\ s.phase \in HeadPhase => s.tx \in Tx

GenType == /\ gen \in [Generator -> {IdleGen} \cup GenState]
           /\ \A g \in Generator : gen[g] # IdleGen => GenRows(gen[g])

TypeInv ==
    /\ TypeOK
    /\ handler \in [Handler -> {Idle} \cup HandlerState]
    /\ \A h \in Handler : handler[h] # Idle /\ handler[h].msg.type = "anchor_btc_agg_batch" =>
          handler[h].hashes = {}
    /\ GenType

-----------------------------------------------------------------------------
(* The messages of work.proofstate. *)

CalMsg(c) == [type |-> "cal_batch", id |-> c]
AnchorMsg(x) == [type |-> "anchor_btc_agg_batch", id |-> x]
TxMsg(t) == [type |-> "btctx", id |-> t]
MonMsg(t) == [type |-> "btcmon", id |-> t]

(* A row leads to a tree that its key is in; some keys have their rows. *)
Sound(rows, leaves) == \A k \in DOMAIN rows : rows[k] # None => k \in leaves[rows[k]]
Written(rows, keys) == \A k \in keys : rows[k] # None
TxSound(rows) == \A x \in Anchor : rows[x] \in Tx => TxAnchor[rows[x]] = x

(* The rows that the confirmation of a transaction asks for are written. *)
ConfirmReady(t) ==
    /\ TxMsg(t) \notin queue
    /\ AnchorMsg(TxAnchor[t]) \notin queue
    /\ \A c \in AnchorLeaves[TxAnchor[t]] : CalMsg(c) \notin queue

TablesSound ==
    /\ Sound(calState, CalLeaves) /\ Sound(calCache, CalLeaves)
    /\ Sound(anchorState, AnchorLeaves) /\ Sound(anchorCache, AnchorLeaves)
    /\ TxSound(txState) /\ TxSound(txCache)

(* ... and with them the rows of a transaction that is not known as early. *)
ReadyOrEarly(t) == t \notin early => ConfirmReady(t)

AckedWritten ==
    /\ \A c \in Cal : CalMsg(c) \notin queue => Written(calState, CalLeaves[c])
    /\ \A x \in Anchor : AnchorMsg(x) \notin queue => Written(anchorState, AnchorLeaves[x])
    /\ \A t \in Tx : TxMsg(t) \notin queue => txState[TxAnchor[t]] # None
    /\ \A t \in Tx : MonMsg(t) \notin queue => ReadyOrEarly(t)

(* A handler's rows are those of its message, and so are its hashes. *)
CalWork(s) ==
    /\ s.rest \cup s.batch \subseteq CalLeaves[s.msg.id]
    /\ s.hashes = CalLeaves[s.msg.id]
    /\ Written(calState, CalLeaves[s.msg.id] \ s.rest)

AnchorWork(s) ==
    /\ s.rest \cup s.batch \subseteq AnchorLeaves[s.msg.id]
    /\ s.hashes = {}
    /\ Written(anchorState, AnchorLeaves[s.msg.id] \ s.rest)

TxWork(s) ==
    /\ s.rest = {} /\ s.hashes = {}
    /\ s.phase # "insert" => txState[TxAnchor[s.msg.id]] # None

MonWork(s) ==
    /\ s.rest = {}
    /\ ReadyOrEarly(s.msg.id)
    /\ \A a \in s.hashes : LeadsTo(a, TxAnchor[s.msg.id])

HandlerWork(s) ==
    /\ s.msg.type = "cal_batch" => CalWork(s)
    /\ s.msg.type = "anchor_btc_agg_batch" => AnchorWork(s)
    /\ s.msg.type = "btctx" => TxWork(s)
    /\ s.msg.type = "btcmon" => MonWork(s)
    /\ s.phase = "publish" => s.rest = {}

RowInv ==
    /\ TablesSound
    /\ AckedWritten
    /\ \A h \in Handler : Busy(h) => HandlerWork(handler[h])

-----------------------------------------------------------------------------
(* What a 'proof ready' message of a transaction promises, and what the    *)
(* generator makes of it.                                                  *)

ReadyMsg(m) ==
    m.type = "btc_batch" =>
        /\ m.id \in Tx
        /\ m.aggs # {}
        /\ ReadyOrEarly(m.id)
        /\ \A a \in m.aggs : LeadsTo(a, TxAnchor[m.id])

OneAnchorEach == \A a \in Agg : OneAnchor(a)

(* The calendar rows of the hashes, and the anchor rows of those. *)
CalsInv(s) ==
    /\ Sound(s.cals, CalLeaves)
    /\ s.msg.type = "btc_batch" /\ s.phase # "calRows" => Missing(s.cals) = {}

AnchorsInv(s) ==
    s.phase \in AnchorPhase =>
        /\ Sound(s.anchors, AnchorLeaves)
        /\ s.phase # "anchorRows" /\ s.msg.id \notin early =>
              \A c \in Missing(s.anchors) : c \notin AnchorLeaves[TxAnchor[s.msg.id]]

(* The transaction belongs to one of the anchors found. *)
TxInv(s) ==
    /\ s.phase \in {"txRow", "txFill"} => s.anchorId \in Found(s.anchors)
    /\ s.phase = "txFill" /\ s.tx \in Tx => TxAnchor[s.tx] = s.anchorId
    /\ s.phase = "txFill" /\ OneAnchorEach /\ early = {} => s.tx # None /\ s.tx # NullEntry
    /\ s.phase \in HeadPhase => TxAnchor[s.tx] \in Found(s.anchors)

GenOK(s) == ReadyMsg(s.msg) /\ CalsInv(s) /\ AnchorsInv(s) /\ TxInv(s)

GenInv ==
    /\ \A m \in genQueue : ReadyMsg(m)
    /\ \A g \in Generator : gen[g] # IdleGen => GenOK(gen[g])
    /\ OneAnchorEach /\ early = {} => \A x \in Anchor : txCache[x] # NullEntry

-----------------------------------------------------------------------------
(* Nothing is acknowledged before it is handed on. *)

CalHandled(a) ==
    \/ \E d \in Cal : <<a, d>> \in calProofs
    \/ InProgress("cal_batch", a)
    \/ <<"cal_batch", a>> \in lost
BtcHandled(a) ==
    \/ \E p \in btcProofs : p.agg = a
    \/ InProgress("btc_batch", a)
    \/ <<"btc_batch", a>> \in lost
    \/ \E m \in abandoned : m.type = "btc_batch" /\ a \in m.aggs

StoredInv ==
    \A g \in Generator : gen[g].phase = "ack" => \A a \in gen[g].msg.aggs :
        \/ <<gen[g].msg.type, a>> \in lost
        \/ gen[g].msg.type = "cal_batch" /\ \E d \in Cal : <<a, d>> \in calProofs
        \/ gen[g].msg.type = "btc_batch" /\ \E p \in btcProofs : p.agg = a

(* Without a fault a message has one handler, which acknowledges it. *)
OneHandler ==
    faults = 0 =>
        /\ \A h \in Handler : Busy(h) => handler[h].msg \in queue
        /\ \A h, k \in Handler : Busy(h) /\ Busy(k) /\ handler[h].msg = handler[k].msg => h = k

(* The confirmation of the transaction that the table holds for an anchor, *)
(* if it was not early, finds all of its hashes: its row is not replaced   *)
(* any more.                                                               *)
Stable(x) == faults = 0 \/ OneTx(x)

ConfirmInv ==
    \A x \in Anchor : Stable(x) => \A t \in Tx : txState[x] = t /\ t \notin early =>
        /\ \A h \in Handler : Busy(h) /\ handler[h].msg = MonMsg(t) =>
              \A a \in Agg : LeadsTo(a, x) => a \in handler[h].hashes
        /\ MonMsg(t) \notin queue => \A a \in Agg : LeadsTo(a, x) => BtcHandled(a)

(* Without a fault no proof is lost; where all is in order, no message is  *)
(* given up.                                                               *)
NothingLost == faults = 0 => lost = {}

VerifyInv ==
    /\ OneAnchorEach => \A p \in btcProofs : Verifies(p)
    /\ InOrder => abandoned = {}

-----------------------------------------------------------------------------
(* Facts about the operators. *)

LEMMA RowsIntro ==
    ASSUME NEW Key, NEW Row, NEW S \in SUBSET Key, NEW f \in [S -> Row \cup {None}]
    PROVE  f \in Rows(Key, Row)
BY DEF Rows

LEMMA RowsElim ==
    ASSUME NEW Key, NEW Row, NEW f \in Rows(Key, Row)
    PROVE  DOMAIN f \in SUBSET Key /\ f \in [DOMAIN f -> Row \cup {None}]
BY DEF Rows

LEMMA MessageKinds ==
    ASSUME NEW m \in Message
    PROVE  \/ m.type = "cal_batch" /\ m.id \in Cal /\ m = CalMsg(m.id)
           \/ m.type = "anchor_btc_agg_batch" /\ m.id \in Anchor /\ m = AnchorMsg(m.id)
           \/ m.type = "btctx" /\ m.id \in Tx /\ m = TxMsg(m.id)
           \/ m.type = "btcmon" /\ m.id \in Tx /\ m = MonMsg(m.id)
BY DEF Message, CalMsg, AnchorMsg, TxMsg, MonMsg

LEMMA LeavesOf ==
    ASSUME NEW m \in Message
    PROVE  /\ Leaves(m) \in SUBSET (Agg \cup Cal)
           /\ HashIds(m) \in SUBSET Agg
           /\ m.type = "cal_batch" => Leaves(m) = CalLeaves[m.id] /\ HashIds(m) = CalLeaves[m.id]
           /\ m.type = "anchor_btc_agg_batch" => Leaves(m) = AnchorLeaves[m.id] /\ HashIds(m) = {}
           /\ m.type = "btctx" => Leaves(m) = {} /\ HashIds(m) = {}
           /\ m.type = "btcmon" => Leaves(m) = {} /\ HashIds(m) = HashIdsByBtcTx(m.id)
<1>1. CASE m.type = "cal_batch"
  BY <1>1, MessageKinds, TreesAssumption DEF Leaves, HashIds
<1>2. CASE m.type = "anchor_btc_agg_batch"
  BY <1>2, MessageKinds, TreesAssumption DEF Leaves, HashIds
<1>3. CASE m.type = "btctx"
  BY <1>3, MessageKinds, TreesAssumption DEF Leaves, HashIds
<1>4. CASE m.type = "btcmon"
  BY <1>4, MessageKinds, TreesAssumption DEF Leaves, HashIds, HashIdsByBtcTx
<1> QED BY <1>1, <1>2, <1>3, <1>4, MessageKinds

LEMMA FirstOfSome ==
    ASSUME NEW S, NEW size, NEW B \in FirstOf(S, size)
    PROVE  B \subseteq S
BY DEF FirstOf, kSubset

(* The 'proof ready' messages of a handler, and what they hold. *)
LEMMA ReadyMessagesOf ==
    ASSUME NEW m \in Message, NEW S \in SUBSET Agg, NEW P \in Batches(S)
    PROVE  /\ (m.type = "anchor_btc_agg_batch" => S = {}) =>
                ReadyMessages(m, P) \subseteq GenMessage
           /\ \A r \in ReadyMessages(m, P) :
                /\ r.id = m.id /\ r.aggs \subseteq S /\ r.aggs # {}
                /\ r.type = IF m.type = "cal_batch" THEN "cal_batch" ELSE "btc_batch"
           /\ S = {} => ReadyMessages(m, P) = {}
           /\ \A a \in S : \E r \in ReadyMessages(m, P) : a \in r.aggs
<1>0. /\ \A B \in P : B \subseteq S /\ B # {}
      /\ \A a \in S : \E B \in P : a \in B
  <2>1. P \in SUBSET ((SUBSET S) \ {{}}) /\ UNION P = S
    BY DEF Batches
  <2>2. \A a \in S : \E B \in P : a \in B
    BY <2>1
  <2>3. \A B \in P : B \subseteq S /\ B # {}
    BY <2>1
  <2> QED BY <2>2, <2>3
<1> DEFINE r(B) == [type |-> IF m.type = "cal_batch" THEN "cal_batch" ELSE "btc_batch",
                    id |-> m.id, aggs |-> B]
<1>a. \/ m.type = "cal_batch" /\ m.id \in Cal
      \/ m.type \in {"btctx", "btcmon"} /\ m.id \in Tx
      \/ m.type = "anchor_btc_agg_batch" /\ m.id \in Anchor
  BY MessageKinds
<1>2. ReadyMessages(m, P) = {r(B) : B \in P}
  BY DEF ReadyMessages
<1>3. \A B \in P : r(B).id = m.id /\ r(B).aggs = B
                   /\ r(B).type = IF m.type = "cal_batch" THEN "cal_batch" ELSE "btc_batch"
  OBVIOUS
<1>6. m.type # "anchor_btc_agg_batch" => \A B \in P : r(B) \in GenMessage
  BY <1>0, <1>a DEF GenMessage
<1> HIDE DEF r
<1>4. \A x \in ReadyMessages(m, P) : \E B \in P : x = r(B)
  BY <1>2
<1>5. \A B \in P : r(B) \in ReadyMessages(m, P)
  BY <1>2
<1> QED BY <1>0, <1>3, <1>4, <1>5, <1>6


-----------------------------------------------------------------------------
(* Types. *)

LEMMA InsertNewType ==
    ASSUME NEW K, NEW V, NEW table \in [K -> V], NEW keys, NEW value \in V
    PROVE  InsertNew(table, keys, value) \in [K -> V]
BY DEF InsertNew

LEMMA InitTypes == Init => TypeInv
<1> SUFFICES ASSUME Init PROVE TypeInv
  OBVIOUS
<1> USE DEF Init, InitState
<1>1. /\ queue \subseteq Message /\ genQueue \subseteq GenMessage
      /\ handler \in [Handler -> {Idle} \cup HandlerState]
      /\ \A h \in Handler : handler[h] = Idle
  OBVIOUS
<1>2. /\ calState \in [Agg -> Cal \cup {None}]
      /\ anchorState \in [Cal -> Anchor \cup {None}]
      /\ txState \in [Anchor -> Tx \cup {None}]
      /\ headState \in [Tx -> Tx \cup {None}]
      /\ calCache \in [Agg -> Cal \cup {None}]
      /\ anchorCache \in [Cal -> Anchor \cup {None}]
      /\ txCache \in [Anchor -> Tx \cup {None, NullEntry}]
      /\ headCache \in [Tx -> Tx \cup {None, NullEntry}]
      /\ redis \in [Service -> {"up", "failing", "null"}]
  OBVIOUS
<1>3. faults \in 0..MaxFaults /\ early \subseteq Tx
  BY BatchAssumption
<1>4. GenType
  BY DEF GenType
<1> QED BY <1>1, <1>2, <1>3, <1>4 DEF TypeInv, TypeOK

(* What the state service's steps need of the types. *)
StateTypes ==
    /\ queue \subseteq Message
    /\ handler \in [Handler -> {Idle} \cup HandlerState]
    /\ \A h \in Handler : handler[h] # Idle /\ handler[h].msg.type = "anchor_btc_agg_batch" =>
          handler[h].hashes = {}
    /\ genQueue \subseteq GenMessage
    /\ calState \in [Agg -> Cal \cup {None}]
    /\ anchorState \in [Cal -> Anchor \cup {None}]
    /\ txState \in [Anchor -> Tx \cup {None}]
    /\ headState \in [Tx -> Tx \cup {None}]
    /\ calCache \in [Agg -> Cal \cup {None}]
    /\ anchorCache \in [Cal -> Anchor \cup {None}]
    /\ txCache \in [Anchor -> Tx \cup {None, NullEntry}]
    /\ headCache \in [Tx -> Tx \cup {None, NullEntry}]
    /\ redis \in [Service -> {"up", "failing", "null"}]
    /\ faults \in 0..MaxFaults
    /\ early \subseteq Tx

ResultTypes ==
    /\ calProofs \subseteq Agg \X Cal
    /\ btcProofs \subseteq [agg : Agg, cal : Cal, anchor : Anchor, tx : Tx]
    /\ lost \subseteq {"cal_batch", "btc_batch"} \X Agg
    /\ abandoned \subseteq GenMessage

LEMMA TypeParts == TypeInv <=> StateTypes /\ ResultTypes /\ GenType
BY DEF TypeInv, TypeOK, StateTypes, ResultTypes

LEMMA BusyState ==
    ASSUME StateTypes, NEW h \in Handler, Busy(h)
    PROVE  /\ handler[h] \in HandlerState
           /\ handler[h] # Idle
           /\ handler[h].msg \in Message
           /\ handler[h].hashes \in SUBSET Agg
           /\ handler[h].msg.type = "anchor_btc_agg_batch" => handler[h].hashes = {}
BY DEF StateTypes, HandlerState, Busy, Idle

LEMMA StateIsBusy ==
    ASSUME NEW s \in HandlerState
    PROVE  s # Idle /\ s.phase # "idle"
BY DEF HandlerState, Idle

LEMMA FaultType ==
    ASSUME StateTypes, Fault
    PROVE  faults' \in 0..MaxFaults /\ faults' > 0
BY BatchAssumption DEF StateTypes, Fault

LEMMA HandlerTypes ==
    ASSUME StateTypes, NEW h \in Handler, NEW s \in HandlerState,
           s.msg.type = "anchor_btc_agg_batch" => s.hashes = {},
           handler' = [handler EXCEPT ![h] = s] \/ handler' = [handler EXCEPT ![h] = Idle]
    PROVE  /\ handler' \in [Handler -> {Idle} \cup HandlerState]
           /\ \A k \in Handler : handler'[k] # Idle /\
                handler'[k].msg.type = "anchor_btc_agg_batch" => handler'[k].hashes = {}
BY DEF StateTypes

LEMMA TypeTake ==
    ASSUME StateTypes, NEW h \in Handler, NEW m \in queue, TakeMessage(h, m)
    PROVE  StateTypes'
<1> DEFINE s == [phase |-> "insert", msg |-> m, rest |-> Leaves(m), batch |-> {},
                 hashes |-> HashIds(m)]
<1>1. m \in Message
  BY DEF StateTypes
<1>2. s \in HandlerState /\ (s.msg.type = "anchor_btc_agg_batch" => s.hashes = {})
  BY <1>1, LeavesOf DEF HandlerState
<1>3. handler' = [handler EXCEPT ![h] = s]
  BY DEF TakeMessage
<1>4. UNCHANGED <<queue, genQueue, tables, caches, redis>>
  BY DEF TakeMessage
<1>5. faults' \in 0..MaxFaults /\ early' \subseteq Tx
  <2>1. faults' \in 0..MaxFaults
    BY FaultType DEF TakeMessage, StateTypes
  <2>2. Prerequisites(m) = {} \/ m.id \in Tx
    BY <1>1, MessageKinds DEF Prerequisites
  <2> QED BY <2>1, <2>2 DEF TakeMessage, StateTypes
<1> HIDE DEF s
<1>6. /\ handler' \in [Handler -> {Idle} \cup HandlerState]
      /\ \A k \in Handler : handler'[k] # Idle /\
           handler'[k].msg.type = "anchor_btc_agg_batch" => handler'[k].hashes = {}
  BY <1>2, <1>3, HandlerTypes
<1> QED BY <1>4, <1>5, <1>6 DEF StateTypes, tables, caches

LEMMA TypeInsert ==
    ASSUME StateTypes, NEW h \in Handler, InsertBatch(h)
    PROVE  StateTypes'
<1> DEFINE m == handler[h].msg
<1>1. Busy(h)
  BY DEF InsertBatch, Busy
<1>2. handler[h] \in HandlerState /\ m \in Message
      /\ (m.type = "anchor_btc_agg_batch" => handler[h].hashes = {})
  BY <1>1, BusyState
<1>3. PICK batch \in FirstOf(handler[h].rest, WriteBatch) :
        /\ handler' = [handler EXCEPT ![h].phase = "cache", ![h].batch = batch,
                                      ![h].rest = @ \ batch]
        /\ \/ /\ m.type = "cal_batch"
              /\ calState' = InsertNew(calState, batch, m.id)
              /\ UNCHANGED anchorState
           \/ /\ m.type = "anchor_btc_agg_batch"
              /\ anchorState' = InsertNew(anchorState, batch, m.id)
              /\ UNCHANGED calState
  BY DEF InsertBatch
<1>4. UNCHANGED <<queue, genQueue, txState, headState, caches, redis, faults, early>>
  BY DEF InsertBatch
<1> DEFINE s == [handler[h] EXCEPT !.phase = "cache", !.batch = batch, !.rest = @ \ batch]
<1>5. batch \subseteq handler[h].rest
  BY FirstOfSome
<1>6. s \in HandlerState
  BY <1>2, <1>5 DEF HandlerState
<1>7. s.msg.type = "anchor_btc_agg_batch" => s.hashes = {}
  BY <1>2 DEF HandlerState
<1>8. handler' = [handler EXCEPT ![h] = s]
  BY <1>3 DEF StateTypes
<1> HIDE DEF s
<1>9. /\ handler' \in [Handler -> {Idle} \cup HandlerState]
      /\ \A k \in Handler : handler'[k] # Idle /\
           handler'[k].msg.type = "anchor_btc_agg_batch" => handler'[k].hashes = {}
  BY <1>6, <1>7, <1>8, HandlerTypes
<1>10. calState' \in [Agg -> Cal \cup {None}] /\ anchorState' \in [Cal -> Anchor \cup {None}]
  <2>1. CASE m.type = "cal_batch"
    <3>1. m.id \in Cal
      BY <1>2, <2>1, MessageKinds
    <3>2. calState' = InsertNew(calState, batch, m.id) /\ UNCHANGED anchorState
      BY <1>3, <2>1
    <3>3. calState \in [Agg -> Cal \cup {None}] /\ anchorState \in [Cal -> Anchor \cup {None}]
      BY DEF StateTypes
    <3> QED BY <3>1, <3>2, <3>3, InsertNewType
  <2>2. CASE m.type = "anchor_btc_agg_batch"
    <3>1. m.id \in Anchor
      BY <1>2, <2>2, MessageKinds
    <3>2. anchorState' = InsertNew(anchorState, batch, m.id) /\ UNCHANGED calState
      BY <1>3, <2>2
    <3>3. calState \in [Agg -> Cal \cup {None}] /\ anchorState \in [Cal -> Anchor \cup {None}]
      BY DEF StateTypes
    <3> QED BY <3>1, <3>2, <3>3, InsertNewType
  <2> QED BY <1>3, <2>1, <2>2
<1> QED BY <1>4, <1>9, <1>10 DEF StateTypes, caches

LEMMA TypeUpsert ==
    ASSUME StateTypes, NEW h \in Handler, Upsert(h)
    PROVE  StateTypes'
<1> DEFINE m == handler[h].msg
<1>1. Busy(h)
  BY DEF Upsert, Busy
<1>2. handler[h] \in HandlerState /\ m \in Message
      /\ (m.type = "anchor_btc_agg_batch" => handler[h].hashes = {})
  BY <1>1, BusyState
<1> DEFINE s == [handler[h] EXCEPT !.phase = "cache"]
<1>3. s \in HandlerState
  BY <1>2 DEF HandlerState
<1>4. s.msg.type = "anchor_btc_agg_batch" => s.hashes = {}
  BY <1>2 DEF HandlerState
<1>5. handler' = [handler EXCEPT ![h] = s]
  BY DEF Upsert, StateTypes
<1> HIDE DEF s
<1>6. /\ handler' \in [Handler -> {Idle} \cup HandlerState]
      /\ \A k \in Handler : handler'[k] # Idle /\
           handler'[k].msg.type = "anchor_btc_agg_batch" => handler'[k].hashes = {}
  BY <1>3, <1>4, <1>5, HandlerTypes
<1>7. m.id \in Tx /\ TxAnchor[m.id] \in Anchor
  BY <1>2, MessageKinds, TreesAssumption DEF Upsert
<1>8. txState' \in [Anchor -> Tx \cup {None}] /\ headState' \in [Tx -> Tx \cup {None}]
  BY <1>7 DEF Upsert, StateTypes
<1> QED BY <1>6, <1>8 DEF Upsert, StateTypes, caches

LEMMA TypeCache ==
    ASSUME StateTypes, NEW h \in Handler, CacheRows(h)
    PROVE  StateTypes'
<1> DEFINE m == handler[h].msg
           batch == handler[h].batch
           s == [handler[h] EXCEPT !.phase = IF handler[h].rest = {} THEN "publish" ELSE "insert"]
<1>1. Busy(h)
  BY DEF CacheRows, Busy
<1>2. handler[h] \in HandlerState /\ m \in Message
      /\ (m.type = "anchor_btc_agg_batch" => handler[h].hashes = {})
  BY <1>1, BusyState
<1>3. s \in HandlerState
  BY <1>2 DEF HandlerState
<1>4. s.msg.type = "anchor_btc_agg_batch" => s.hashes = {}
  BY <1>2 DEF HandlerState
<1>5. handler' = [handler EXCEPT ![h] = s]
  BY DEF CacheRows, StateTypes
<1> HIDE DEF s
<1>6. /\ handler' \in [Handler -> {Idle} \cup HandlerState]
      /\ \A k \in Handler : handler'[k] # Idle /\
           handler'[k].msg.type = "anchor_btc_agg_batch" => handler'[k].hashes = {}
  BY <1>3, <1>4, <1>5, HandlerTypes
<1>7. /\ calCache' \in [Agg -> Cal \cup {None}]
      /\ anchorCache' \in [Cal -> Anchor \cup {None}]
      /\ txCache' \in [Anchor -> Tx \cup {None, NullEntry}]
      /\ headCache' \in [Tx -> Tx \cup {None, NullEntry}]
  <2>1. CASE redis["state"] # "up" /\ UNCHANGED caches
    BY <2>1 DEF caches, StateTypes
  <2>2. CASE /\ m.type = "cal_batch" /\ calCache' = InsertNew(calCache, batch, m.id)
             /\ UNCHANGED <<anchorCache, txCache, headCache>>
    <3>1. m.id \in Cal
      BY <1>2, <2>2, MessageKinds
    <3> QED BY <2>2, <3>1, InsertNewType DEF StateTypes
  <2>3. CASE /\ m.type = "anchor_btc_agg_batch"
             /\ anchorCache' = InsertNew(anchorCache, batch, m.id)
             /\ UNCHANGED <<calCache, txCache, headCache>>
    <3>1. m.id \in Anchor
      BY <1>2, <2>3, MessageKinds
    <3> QED BY <2>3, <3>1, InsertNewType DEF StateTypes
  <2>4. CASE m.type = "btctx" /\ txCache' = [txCache EXCEPT ![TxAnchor[m.id]] = m.id]
             /\ UNCHANGED <<calCache, anchorCache, headCache>>
    <3>1. m.id \in Tx
      BY <1>2, <2>4, MessageKinds
    <3> QED BY <2>4, <3>1 DEF StateTypes
  <2>5. CASE m.type = "btcmon" /\ headCache' = [headCache EXCEPT ![m.id] = m.id]
             /\ UNCHANGED <<calCache, anchorCache, txCache>>
    <3>1. m.id \in Tx
      BY <1>2, <2>5, MessageKinds
    <3> QED BY <2>5, <3>1 DEF StateTypes
  <2> QED BY <2>1, <2>2, <2>3, <2>4, <2>5 DEF CacheRows
<1>8. UNCHANGED <<queue, genQueue, tables, redis, faults, early>>
  BY DEF CacheRows
<1> QED BY <1>6, <1>7, <1>8 DEF StateTypes, tables

LEMMA TypePublish ==
    ASSUME StateTypes, NEW h \in Handler, PublishAndAck(h) \/ AbortHandler(h)
    PROVE  StateTypes'
<1> DEFINE m == handler[h].msg
<1>1. Busy(h)
  BY DEF PublishAndAck, AbortHandler, Busy
<1>2. /\ handler[h] \in HandlerState /\ m \in Message /\ handler[h].hashes \in SUBSET Agg
      /\ (m.type = "anchor_btc_agg_batch" => handler[h].hashes = {})
  BY <1>1, BusyState
<1>3. handler' = [handler EXCEPT ![h] = Idle]
  BY DEF PublishAndAck, AbortHandler
<1>4. /\ handler' \in [Handler -> {Idle} \cup HandlerState]
      /\ \A k \in Handler : handler'[k] # Idle /\
           handler'[k].msg.type = "anchor_btc_agg_batch" => handler'[k].hashes = {}
  BY <1>2, <1>3, HandlerTypes
<1>5. genQueue' \subseteq GenMessage
  <2>1. PICK P \in Batches(handler[h].hashes) : genQueue' \subseteq genQueue \cup ReadyMessages(m, P)
    BY DEF PublishAndAck, AbortHandler
  <2>2. ReadyMessages(m, P) \subseteq GenMessage
    BY <1>2, ReadyMessagesOf
  <2> QED BY <2>1, <2>2 DEF StateTypes
<1>6. queue' \subseteq Message
  BY DEF PublishAndAck, AbortHandler, StateTypes
<1>7. faults' \in 0..MaxFaults
  BY FaultType DEF PublishAndAck, AbortHandler, StateTypes
<1>8. UNCHANGED <<tables, caches, redis, early>>
  BY DEF PublishAndAck, AbortHandler
<1> QED BY <1>4, <1>5, <1>6, <1>7, <1>8 DEF StateTypes, tables, caches

LEMMA TypeRedis ==
    ASSUME StateTypes, NEW s \in Service, FailRedis(s) \/ DropRedis(s) \/ OpenRedis(s)
    PROVE  StateTypes'
<1>1. UNCHANGED <<queue, handler, genQueue, tables, caches, early>>
  BY DEF FailRedis, DropRedis, OpenRedis
<1>2. redis' \in [Service -> {"up", "failing", "null"}]
  BY DEF FailRedis, DropRedis, OpenRedis, StateTypes
<1>3. faults' \in 0..MaxFaults
  BY FaultType DEF FailRedis, DropRedis, OpenRedis, StateTypes
<1> QED BY <1>1, <1>2, <1>3 DEF StateTypes, tables, caches

LEMMA TypeStateStep ==
    ASSUME TypeInv, StateStep, UNCHANGED <<gen, results>>
    PROVE  TypeInv'
<1>1. StateTypes
  BY TypeParts
<1>2. StateTypes'
  BY <1>1, TypeTake, TypeInsert, TypeUpsert, TypeCache, TypePublish, TypeRedis
     DEF StateStep, HandlerStep
<1>3. ResultTypes' /\ GenType'
  BY TypeParts DEF ResultTypes, results, GenType, GenRows
<1> QED BY <1>2, <1>3, TypeParts DEF TypeInv, TypeOK, StateTypes, ResultTypes

(* The bulk reads of the generator. *)
LEMMA TableReadType ==
    ASSUME NEW Key, NEW Row, NEW table \in [Key -> Row \cup {None}], NEW rows \in Rows(Key, Row)
    PROVE  FromTable(rows, table) \in Rows(Key, Row)
           /\ DOMAIN FromTable(rows, table) = DOMAIN rows
<1>1. DOMAIN rows \in SUBSET Key /\ rows \in [DOMAIN rows -> Row \cup {None}]
  BY RowsElim
<1>2. FromTable(rows, table) \in [DOMAIN rows -> Row \cup {None}]
  BY <1>1 DEF FromTable
<1> QED BY <1>1, <1>2, RowsIntro

LEMMA FillType ==
    ASSUME NEW Key, NEW Row, NEW cache \in [Key -> Row \cup {None}], NEW rows \in Rows(Key, Row),
           NEW keys, keys \subseteq DOMAIN rows
    PROVE  Fill(cache, keys, rows) \in [Key -> Row \cup {None}]
<1>1. DOMAIN rows \in SUBSET Key /\ rows \in [DOMAIN rows -> Row \cup {None}]
  BY RowsElim
<1> QED BY <1>1 DEF Fill

LEMMA FoundType ==
    ASSUME NEW Key, NEW Row, NEW rows \in Rows(Key, Row)
    PROVE  /\ Found(rows) \in SUBSET Row
           /\ Missing(rows) \in SUBSET (DOMAIN rows)
<1>1. DOMAIN rows \in SUBSET Key /\ rows \in [DOMAIN rows -> Row \cup {None}]
  BY RowsElim
<1> QED BY <1>1 DEF Found, Missing

LEMMA GenStateTypes ==
    ASSUME GenType, NEW g \in Generator, NEW s,
           s = IdleGen \/ (s \in GenState /\ GenRows(s)),
           gen' = [gen EXCEPT ![g] = s]
    PROVE  GenType'
<1>1. GenType' <=> /\ gen' \in [Generator -> {IdleGen} \cup GenState]
                   /\ \A k \in Generator : gen'[k] # IdleGen => GenRows(gen'[k])
  BY DEF GenType, GenRows
<1> QED BY <1>1 DEF GenType

LEMMA BusyGen ==
    ASSUME GenType, NEW g \in Generator, gen[g].phase # "idle"
    PROVE  /\ gen[g] \in GenState /\ GenRows(gen[g]) /\ gen[g] # IdleGen
           /\ gen[g].msg \in GenMessage /\ gen[g].msg.aggs \in SUBSET Agg
           /\ gen[g].cals \in Rows(Agg, Cal) /\ gen[g].anchors \in Rows(Cal, Anchor)
           /\ gen[g].unread \in SUBSET (Agg \cup Cal)
           /\ gen[g].phase \in CalPhase \cup AnchorPhase \cup {"ack"}
<1>1. gen[g] # IdleGen
  BY DEF IdleGen
<1>2. gen[g] \in GenState /\ GenRows(gen[g])
  BY <1>1 DEF GenType
<1>3. gen[g].msg \in GenMessage
  BY <1>2 DEF GenState
<1>4. gen[g].msg.aggs \in SUBSET Agg
  BY <1>3 DEF GenMessage
<1> QED BY <1>1, <1>2, <1>3, <1>4 DEF GenState

LEMMA GenIsBusy ==
    ASSUME NEW s \in GenState
    PROVE  s # IdleGen /\ s.phase # "idle"
BY DEF GenState, IdleGen, CalPhase, AnchorPhase

(* The next phase of a generator. *)
LEMMA PhaseTypes ==
    ASSUME NEW s \in GenState, GenRows(s), NEW p \in CalPhase \cup AnchorPhase \cup {"ack"},
           p \in AnchorPhase => s.phase \in AnchorPhase,
           p \notin {"calRows", "calFill", "anchorRows", "anchorFill", "txRow", "txFill"},
           p \in HeadPhase => s.tx \in Tx
    PROVE  [s EXCEPT !.phase = p] \in GenState /\ GenRows([s EXCEPT !.phase = p])
<1> DEFINE r == [s EXCEPT !.phase = p]
<1>1. r \in GenState
  BY DEF GenState
<1>2. r.phase = p /\ r.msg = s.msg /\ r.cals = s.cals /\ r.anchors = s.anchors /\ r.tx = s.tx
  BY DEF GenState
<1> HIDE DEF r
<1>3. GenRows(r)
  BY <1>2 DEF GenRows
<1> QED BY <1>1, <1>3 DEF r

LEMMA GotoTypes ==
    ASSUME GenType, NEW g \in Generator, gen[g].phase # "idle",
           NEW p \in CalPhase \cup AnchorPhase \cup {"ack"}, Goto(g, p),
           p \in AnchorPhase => gen[g].phase \in AnchorPhase,
           p \notin {"calRows", "calFill", "anchorRows", "anchorFill", "txRow", "txFill"},
           p \in HeadPhase => gen[g].tx \in Tx
    PROVE  GenType'
<1> DEFINE r == [gen[g] EXCEPT !.phase = p]
<1>1. r \in GenState /\ GenRows(r)
  BY BusyGen, PhaseTypes
<1>2. gen' = [gen EXCEPT ![g] = r]
  BY DEF Goto, GenType
<1> HIDE DEF r
<1> QED BY <1>1, <1>2, GenStateTypes

LEMMA BackTypes ==
    ASSUME GenType, NEW g \in Generator, Ack(g) \/ Nack(g)
    PROVE  GenType' /\ genQueue' \subseteq genQueue
<1>1. gen' = [gen EXCEPT ![g] = IdleGen] /\ genQueue' \subseteq genQueue
  BY DEF Ack, Nack
<1>2. GenType' <=> /\ gen' \in [Generator -> {IdleGen} \cup GenState]
                   /\ \A k \in Generator : gen'[k] # IdleGen => GenRows(gen'[k])
  BY DEF GenType, GenRows
<1> QED BY <1>1, <1>2 DEF GenType

LEMMA TypeTakeReady ==
    ASSUME TypeInv, NEW g \in Generator, NEW m \in genQueue, TakeReady(g, m)
    PROVE  TypeInv'
<1> DEFINE rows == FromCache(calCache, m.aggs)
           s == [phase |-> IF Missing(rows) = {} THEN "cals" ELSE "calRows", msg |-> m,
                 cals |-> rows, unread |-> Missing(rows), anchors |-> [c \in {} |-> None],
                 anchorId |-> None, tx |-> None]
<1>1. GenType /\ m \in GenMessage /\ m.aggs \in SUBSET Agg
      /\ calCache \in [Agg -> Cal \cup {None}]
  BY DEF TypeInv, TypeOK, GenMessage
<1>2. [c \in {} |-> None] \in Rows(Cal, Anchor)
  <2>1. [c \in {} |-> None] \in [{} -> Anchor \cup {None}]
    OBVIOUS
  <2> QED BY <2>1, RowsIntro
<1>3. rows \in [m.aggs -> Cal \cup {None}]
  BY <1>1 DEF FromCache
<1>4. rows \in Rows(Agg, Cal) /\ DOMAIN rows = m.aggs /\ Missing(rows) \subseteq m.aggs
  BY <1>1, <1>3, RowsIntro DEF Missing
<1>5. gen' = [gen EXCEPT ![g] = s] /\ UNCHANGED <<stateVars, results>>
  BY DEF TakeReady
<1> HIDE DEF rows
<1>6. s \in GenState
  BY <1>1, <1>2, <1>4 DEF GenState, CalPhase
<1>7. GenRows(s)
  BY <1>4 DEF GenRows, AnchorPhase, HeadPhase
<1> HIDE DEF s
<1>8. GenType'
  BY <1>1, <1>5, <1>6, <1>7, GenStateTypes
<1> QED BY <1>5, <1>8 DEF TypeInv, TypeOK, stateVars, results, tables, caches

LEMMA TypeCalRows ==
    ASSUME TypeInv, NEW g \in Generator, GetCalRows(g)
    PROVE  TypeInv'
<1> DEFINE rows == FromTable(gen[g].cals, calState)
           s == [gen[g] EXCEPT !.cals = rows, !.phase = "calFill"]
<1>1. gen[g].phase = "calRows" /\ GenType /\ calState \in [Agg -> Cal \cup {None}]
  BY DEF GetCalRows, TypeInv, TypeOK
<1>2. /\ gen[g] \in GenState /\ GenRows(gen[g]) /\ gen[g].cals \in Rows(Agg, Cal)
      /\ gen[g].unread \in SUBSET (Agg \cup Cal)
  BY <1>1, BusyGen
<1>3. rows \in Rows(Agg, Cal) /\ DOMAIN rows = DOMAIN gen[g].cals
  BY <1>1, <1>2, TableReadType
<1> HIDE DEF rows
<1>4. s \in GenState
  BY <1>2, <1>3 DEF GenState, CalPhase
<1>5. s.phase = "calFill" /\ s.cals = rows /\ s.msg = gen[g].msg /\ s.unread = gen[g].unread
  BY <1>2 DEF GenState
<1>6. gen' = [gen EXCEPT ![g] = s] /\ UNCHANGED <<stateVars, results>>
  BY <1>1 DEF GetCalRows, GenType, rows
<1> HIDE DEF s
<1>7. GenRows(s)
  BY <1>1, <1>2, <1>3, <1>5 DEF GenRows, AnchorPhase, HeadPhase
<1>8. GenType'
  BY <1>1, <1>4, <1>6, <1>7, GenStateTypes
<1> QED BY <1>6, <1>8 DEF TypeInv, TypeOK, stateVars, results, tables, caches

LEMMA TypeCalFill ==
    ASSUME TypeInv, NEW g \in Generator, FillCalCache(g)
    PROVE  TypeInv'
<1>1. gen[g].phase = "calFill" /\ GenType /\ calCache \in [Agg -> Cal \cup {None}]
  BY DEF FillCalCache, TypeInv, TypeOK
<1>2. /\ GenRows(gen[g]) /\ gen[g].cals \in Rows(Agg, Cal)
  BY <1>1, BusyGen
<1>3. gen[g].unread \subseteq DOMAIN gen[g].cals /\ DOMAIN gen[g].cals \in SUBSET Agg
  BY <1>1, <1>2, RowsElim DEF GenRows
<1>4. calCache' \in [Agg -> Cal \cup {None}]
  BY <1>1, <1>2, <1>3, FillType DEF FillCalCache
<1>5. GenType' /\ UNCHANGED genQueue
  BY <1>1, GotoTypes DEF FillCalCache, CalPhase, AnchorPhase, HeadPhase, Goto
<1> QED BY <1>4, <1>5 DEF FillCalCache, TypeInv, TypeOK, results, tables

LEMMA TypeAnchorCache ==
    ASSUME TypeInv, NEW g \in Generator, GetAnchorCache(g)
    PROVE  TypeInv'
<1> DEFINE rows == FromCache(anchorCache, Found(gen[g].cals))
           s == [gen[g] EXCEPT !.anchors = rows, !.unread = Missing(rows),
                    !.phase = IF Missing(rows) = {} THEN "anchors" ELSE "anchorRows"]
<1>1. /\ gen[g].phase = "cals" /\ gen[g].msg.type = "btc_batch" /\ GenType
      /\ calState \in [Agg -> Cal \cup {None}]
      /\ anchorCache \in [Cal -> Anchor \cup {None}]
  BY DEF GetAnchorCache, TypeInv, TypeOK
<1>2. gen[g] \in GenState /\ GenRows(gen[g]) /\ gen[g].cals \in Rows(Agg, Cal)
  BY <1>1, BusyGen
<1>3. Found(gen[g].cals) \in SUBSET Cal
  BY <1>2, FoundType
<1>4. rows \in [Found(gen[g].cals) -> Anchor \cup {None}]
  BY <1>1, <1>3 DEF FromCache
<1>5. /\ rows \in Rows(Cal, Anchor) /\ Missing(rows) \subseteq DOMAIN rows /\ DOMAIN rows \subseteq Cal
      /\ DOMAIN rows = Found(gen[g].cals)
  BY <1>3, <1>4, RowsIntro DEF Missing
<1> HIDE DEF rows
<1>6. s \in GenState
  BY <1>2, <1>5 DEF GenState, AnchorPhase
<1>7. /\ s.phase \in {"anchors", "anchorRows"} /\ s.anchors = rows /\ s.unread = Missing(rows)
      /\ s.msg = gen[g].msg /\ s.cals = gen[g].cals
  BY <1>2 DEF GenState
<1>8. genQueue' = genQueue /\ UNCHANGED <<queue, handler, tables, early, caches, redis, faults, results>>
  BY DEF GetAnchorCache, Nack
<1>9. CASE Nack(g)
  BY <1>1, <1>8, <1>9, BackTypes DEF TypeInv, TypeOK, results, tables, caches
<1>10. CASE ~Nack(g)
  <2>1. gen' = [gen EXCEPT ![g] = s]
    BY <1>10, <1>1 DEF GetAnchorCache, GenType, rows
  <2> HIDE DEF s
  <2>2. GenRows(s)
    BY <1>1, <1>2, <1>5, <1>7 DEF GenRows, HeadPhase
  <2>3. GenType'
    BY <1>1, <1>6, <2>1, <2>2, GenStateTypes
  <2> QED BY <1>8, <2>3 DEF TypeInv, TypeOK, results, tables, caches
<1> QED BY <1>9, <1>10

LEMMA TypeAnchorRows ==
    ASSUME TypeInv, NEW g \in Generator, GetAnchorRows(g)
    PROVE  TypeInv'
<1> DEFINE rows == FromTable(gen[g].anchors, anchorState)
           s == [gen[g] EXCEPT !.anchors = rows, !.phase = "anchorFill"]
<1>1. gen[g].phase = "anchorRows" /\ GenType /\ anchorState \in [Cal -> Anchor \cup {None}]
  BY DEF GetAnchorRows, TypeInv, TypeOK
<1>2. /\ gen[g] \in GenState /\ GenRows(gen[g]) /\ gen[g].anchors \in Rows(Cal, Anchor)
  BY <1>1, BusyGen
<1>3. rows \in Rows(Cal, Anchor) /\ DOMAIN rows = DOMAIN gen[g].anchors
  BY <1>1, <1>2, TableReadType
<1> HIDE DEF rows
<1>4. s \in GenState
  BY <1>2, <1>3 DEF GenState, AnchorPhase
<1>5. /\ s.phase = "anchorFill" /\ s.anchors = rows /\ s.msg = gen[g].msg
      /\ s.cals = gen[g].cals /\ s.unread = gen[g].unread
  BY <1>2 DEF GenState
<1>6. gen' = [gen EXCEPT ![g] = s] /\ UNCHANGED <<stateVars, results>>
  BY <1>1 DEF GetAnchorRows, GenType, rows
<1> HIDE DEF s
<1>7. GenRows(s)
  BY <1>1, <1>2, <1>3, <1>5 DEF GenRows, AnchorPhase, HeadPhase
<1>8. GenType'
  BY <1>1, <1>4, <1>6, <1>7, GenStateTypes
<1> QED BY <1>6, <1>8 DEF TypeInv, TypeOK, stateVars, results, tables, caches

LEMMA TypeAnchorFill ==
    ASSUME TypeInv, NEW g \in Generator, FillAnchorCache(g)
    PROVE  TypeInv'
<1>1. gen[g].phase = "anchorFill" /\ GenType /\ anchorCache \in [Cal -> Anchor \cup {None}]
  BY DEF FillAnchorCache, TypeInv, TypeOK
<1>2. /\ GenRows(gen[g]) /\ gen[g].anchors \in Rows(Cal, Anchor)
  BY <1>1, BusyGen
<1>3. gen[g].unread \subseteq DOMAIN gen[g].anchors /\ DOMAIN gen[g].anchors \in SUBSET Cal
  BY <1>1, <1>2, RowsElim DEF GenRows
<1>4. anchorCache' \in [Cal -> Anchor \cup {None}]
  BY <1>1, <1>2, <1>3, FillType DEF FillAnchorCache
<1>5. GenType' /\ UNCHANGED genQueue
  BY <1>1, GotoTypes DEF FillAnchorCache, CalPhase, AnchorPhase, HeadPhase, Goto
<1> QED BY <1>4, <1>5 DEF FillAnchorCache, TypeInv, TypeOK, results, tables

LEMMA FailTypes ==
    ASSUME TypeInv, Fault
    PROVE  faults' \in 0..MaxFaults
BY FaultType, TypeParts

LEMMA AbandonTypes ==
    ASSUME TypeInv, NEW g \in Generator, gen[g].phase # "idle", Abandon(g)
    PROVE  GenType' /\ genQueue' \subseteq genQueue /\ abandoned' \subseteq GenMessage
<1>1. GenType /\ abandoned \subseteq GenMessage
  BY DEF TypeInv, TypeOK
<1>2. gen[g].msg \in GenMessage
  BY <1>1, BusyGen
<1> QED BY <1>1, <1>2, BackTypes DEF Abandon

(* The use of a row of transaction by a generator that is looking for one. *)
LEMMA UseTxTypes ==
    ASSUME TypeInv, NEW g \in Generator, gen[g].phase \in {"anchors", "txFill"}, NEW row, UseTx(g, row)
    PROVE  GenType' /\ genQueue' \subseteq genQueue /\ abandoned' \subseteq GenMessage
<1>1. GenType /\ abandoned \subseteq GenMessage
  BY DEF TypeInv, TypeOK
<1>2. /\ gen[g] \in GenState /\ GenRows(gen[g]) /\ gen[g].msg.type = "btc_batch"
      /\ DOMAIN gen[g].anchors = Found(gen[g].cals)
  BY <1>1, BusyGen DEF GenRows, AnchorPhase
<1>3. CASE Abandon(g)
  BY <1>3, AbandonTypes
<1>4. CASE /\ row \in Tx
           /\ gen' = [gen EXCEPT ![g].tx = row, ![g].phase = "headCache"]
           /\ UNCHANGED <<genQueue, abandoned>>
  <2> DEFINE s == [gen[g] EXCEPT !.tx = row, !.phase = "headCache"]
  <2>1. gen' = [gen EXCEPT ![g] = s]
    BY <1>1, <1>4 DEF GenType
  <2>2. s \in GenState
    BY <1>2, <1>4 DEF GenState, AnchorPhase
  <2>3. s.phase = "headCache" /\ s.tx = row /\ s.msg = gen[g].msg /\ s.cals = gen[g].cals
        /\ s.anchors = gen[g].anchors
    BY <1>2 DEF GenState
  <2> HIDE DEF s
  <2>4. GenRows(s)
    BY <1>2, <1>4, <2>3 DEF GenRows, HeadPhase
  <2> QED BY <1>1, <1>4, <2>1, <2>2, <2>4, GenStateTypes
<1> QED BY <1>3, <1>4 DEF UseTx

LEMMA TypeTxCache ==
    ASSUME TypeInv, NEW g \in Generator, GetTxCache(g)
    PROVE  TypeInv'
<1> DEFINE ids == Found(gen[g].anchors)
<1>1. gen[g].phase = "anchors" /\ GenType /\ abandoned \subseteq GenMessage
  BY DEF GetTxCache, TypeInv, TypeOK
<1>2. gen[g] \in GenState /\ GenRows(gen[g]) /\ gen[g].anchors \in Rows(Cal, Anchor)
      /\ gen[g].msg.type = "btc_batch" /\ DOMAIN gen[g].anchors = Found(gen[g].cals)
  BY <1>1, BusyGen DEF GenRows, AnchorPhase
<1>3. ids \in SUBSET Anchor
  BY <1>2, FoundType
<1> HIDE DEF ids
<1>4. GenType' /\ genQueue' \subseteq genQueue /\ abandoned' \subseteq GenMessage
  <2>1. CASE Abandon(g)
    BY <1>1, <2>1, AbandonTypes
  <2>2. ASSUME NEW x \in ids, UseTx(g, txCache[x])
        PROVE  GenType' /\ genQueue' \subseteq genQueue /\ abandoned' \subseteq GenMessage
    BY <1>1, <2>2, UseTxTypes
  <2>3. ASSUME NEW x \in ids, gen' = [gen EXCEPT ![g].anchorId = x, ![g].phase = "txRow"],
               UNCHANGED <<genQueue, abandoned>>
        PROVE  GenType' /\ genQueue' \subseteq genQueue /\ abandoned' \subseteq GenMessage
    <3> DEFINE s == [gen[g] EXCEPT !.anchorId = x, !.phase = "txRow"]
    <3>1. gen' = [gen EXCEPT ![g] = s]
      BY <1>1, <2>3 DEF GenType
    <3>2. s \in GenState
      BY <1>2, <1>3 DEF GenState, AnchorPhase
    <3>3. s.phase = "txRow" /\ s.anchorId = x /\ s.msg = gen[g].msg /\ s.cals = gen[g].cals
          /\ s.anchors = gen[g].anchors
      BY <1>2 DEF GenState
    <3> HIDE DEF s
    <3>4. GenRows(s)
      BY <1>2, <1>3, <3>3 DEF GenRows, HeadPhase
    <3> QED BY <1>1, <2>3, <3>1, <3>2, <3>4, GenStateTypes
  <2> QED BY <2>1, <2>2, <2>3 DEF GetTxCache, ids
<1> QED BY <1>4 DEF GetTxCache, TypeInv, TypeOK, tables, caches

LEMMA TypeTxRow ==
    ASSUME TypeInv, NEW g \in Generator, GetTxRow(g)
    PROVE  TypeInv'
<1> DEFINE s == [gen[g] EXCEPT !.tx = txState[gen[g].anchorId], !.phase = "txFill"]
<1>1. gen[g].phase = "txRow" /\ GenType /\ txState \in [Anchor -> Tx \cup {None}]
  BY DEF GetTxRow, TypeInv, TypeOK
<1>2. gen[g] \in GenState /\ GenRows(gen[g]) /\ gen[g].msg.type = "btc_batch"
      /\ gen[g].anchorId \in Anchor /\ DOMAIN gen[g].anchors = Found(gen[g].cals)
  BY <1>1, BusyGen DEF GenRows, AnchorPhase
<1>3. s \in GenState
  BY <1>1, <1>2 DEF GenState, AnchorPhase
<1>4. /\ s.phase = "txFill" /\ s.anchorId = gen[g].anchorId /\ s.msg = gen[g].msg
      /\ s.cals = gen[g].cals /\ s.anchors = gen[g].anchors
  BY <1>2 DEF GenState
<1>5. gen' = [gen EXCEPT ![g] = s] /\ UNCHANGED <<stateVars, results>>
  BY <1>1 DEF GetTxRow, GenType
<1> HIDE DEF s
<1>6. GenRows(s)
  BY <1>2, <1>4 DEF GenRows, HeadPhase
<1>7. GenType'
  BY <1>1, <1>3, <1>5, <1>6, GenStateTypes
<1> QED BY <1>5, <1>7 DEF TypeInv, TypeOK, stateVars, results, tables, caches

LEMMA TypeTxFill ==
    ASSUME TypeInv, NEW g \in Generator, FillTxCache(g)
    PROVE  TypeInv'
<1>1. /\ gen[g].phase = "txFill" /\ GenType
      /\ txCache \in [Anchor -> Tx \cup {None, NullEntry}]
  BY DEF FillTxCache, TypeInv, TypeOK
<1>2. gen[g].tx \in Tx \cup {None, NullEntry}
  BY <1>1, BusyGen DEF GenState
<1>3. txCache' \in [Anchor -> Tx \cup {None, NullEntry}]
  BY <1>1, <1>2 DEF FillTxCache, Entry
<1>4. GenType' /\ genQueue' \subseteq genQueue /\ abandoned' \subseteq GenMessage
  BY <1>1, UseTxTypes DEF FillTxCache
<1> QED BY <1>3, <1>4 DEF FillTxCache, TypeInv, TypeOK, tables

LEMMA UseHeadTypes ==
    ASSUME TypeInv, NEW g \in Generator, gen[g].phase \in HeadPhase, NEW row, UseHead(g, row)
    PROVE  GenType' /\ genQueue' \subseteq genQueue
<1>1. GenType
  BY DEF TypeInv
<1>2. gen[g].phase # "idle" /\ gen[g].phase \in AnchorPhase
  BY DEF HeadPhase, AnchorPhase
<1>3. GenRows(gen[g]) /\ gen[g].msg.type = "btc_batch" /\ gen[g].tx \in Tx
  BY <1>1, <1>2, BusyGen DEF GenRows
<1>4. CASE Goto(g, "store")
  BY <1>1, <1>2, <1>3, <1>4, GotoTypes DEF AnchorPhase, Goto
<1>5. CASE Nack(g)
  BY <1>1, <1>5, BackTypes
<1> QED BY <1>4, <1>5 DEF UseHead

LEMMA TypeHeadCache ==
    ASSUME TypeInv, NEW g \in Generator, GetHeadCache(g)
    PROVE  TypeInv'
<1>1. gen[g].phase = "headCache" /\ GenType
  BY DEF GetHeadCache, TypeInv
<1>2. GenRows(gen[g]) /\ gen[g].msg.type = "btc_batch" /\ gen[g].tx \in Tx
  BY <1>1, BusyGen DEF GenRows, AnchorPhase, HeadPhase
<1>3. GenType' /\ genQueue' \subseteq genQueue
  <2>1. CASE Goto(g, "headRow")
    BY <1>1, <1>2, <2>1, GotoTypes DEF AnchorPhase, Goto
  <2>2. CASE UseHead(g, headCache[gen[g].tx])
    BY <1>1, <2>2, UseHeadTypes DEF HeadPhase
  <2> QED BY <2>1, <2>2 DEF GetHeadCache
<1> QED BY <1>3 DEF GetHeadCache, TypeInv, TypeOK, tables, caches, results

LEMMA TypeHeadRow ==
    ASSUME TypeInv, NEW g \in Generator, GetHeadRow(g)
    PROVE  TypeInv'
<1>1. gen[g].phase = "headRow" /\ GenType
  BY DEF GetHeadRow, TypeInv
<1>2. GenRows(gen[g]) /\ gen[g].msg.type = "btc_batch" /\ gen[g].tx \in Tx
  BY <1>1, BusyGen DEF GenRows, AnchorPhase, HeadPhase
<1>3. PICK p \in {"headNull", "headFill"} : Goto(g, p)
  BY DEF GetHeadRow
<1>4. GenType' /\ genQueue' = genQueue
  BY <1>1, <1>2, <1>3, GotoTypes DEF AnchorPhase, Goto
<1> QED BY <1>4 DEF GetHeadRow, TypeInv, TypeOK, tables, caches, results

LEMMA TypeHeadFill ==
    ASSUME TypeInv, NEW g \in Generator, FillHeadCache(g)
    PROVE  TypeInv'
<1> DEFINE t == gen[g].tx
           row == IF gen[g].phase = "headFill" THEN t ELSE None
<1>1. /\ gen[g].phase \in {"headNull", "headFill"} /\ GenType
      /\ headCache \in [Tx -> Tx \cup {None, NullEntry}]
  BY DEF FillHeadCache, TypeInv, TypeOK
<1>2. gen[g].tx \in Tx
  BY <1>1, BusyGen DEF GenRows, HeadPhase
<1>3. Entry(row) \in Tx \cup {NullEntry}
  BY <1>2 DEF Entry
<1>4. headCache' \in [Tx -> Tx \cup {None, NullEntry}]
  BY <1>1, <1>2, <1>3 DEF FillHeadCache
<1>5. GenType' /\ genQueue' \subseteq genQueue
  BY <1>1, UseHeadTypes DEF FillHeadCache, HeadPhase
<1> QED BY <1>4, <1>5 DEF FillHeadCache, TypeInv, TypeOK, tables, results

LEMMA TypeFailTx ==
    ASSUME TypeInv, NEW g \in Generator, FailTxRead(g)
    PROVE  TypeInv'
<1>1. gen[g].phase # "idle" /\ Abandon(g)
  BY DEF FailTxRead
<1>2. GenType' /\ genQueue' \subseteq genQueue /\ abandoned' \subseteq GenMessage
  BY <1>1, AbandonTypes
<1>3. faults' \in 0..MaxFaults
  BY FailTypes DEF FailTxRead, TypeInv, TypeOK
<1> QED BY <1>2, <1>3 DEF FailTxRead, TypeInv, TypeOK, tables, caches

LEMMA TypeStore ==
    ASSUME TypeInv, NEW g \in Generator, StoreProofs(g)
    PROVE  TypeInv'
<1> DEFINE m == gen[g].msg
<1>1. gen[g].phase \in {"cals", "store"} /\ GenType
  BY DEF StoreProofs, Building, TypeInv
<1>2. /\ gen[g] \in GenState /\ GenRows(gen[g]) /\ m \in GenMessage /\ m.aggs \in SUBSET Agg
      /\ gen[g].cals \in Rows(Agg, Cal) /\ gen[g].anchors \in Rows(Cal, Anchor)
  BY <1>1, BusyGen
<1>3. GenType' /\ UNCHANGED genQueue
  BY <1>1, GotoTypes DEF StoreProofs, Goto, CalPhase, AnchorPhase, HeadPhase
<1>4. PICK failed \in SUBSET m.aggs :
        /\ lost' = lost \cup {<<m.type, a>> : a \in failed}
        /\ \/ /\ m.type = "cal_batch"
              /\ calProofs' = calProofs \cup {<<a, gen[g].cals[a]>> : a \in m.aggs \ failed}
              /\ UNCHANGED btcProofs
           \/ /\ m.type = "btc_batch"
              /\ btcProofs' = btcProofs \cup {BtcProof(g, a) : a \in m.aggs \ failed}
              /\ UNCHANGED calProofs
  BY DEF StoreProofs
<1>5. m.type \in {"cal_batch", "btc_batch"}
  BY <1>4
<1>6. lost' \subseteq {"cal_batch", "btc_batch"} \X Agg
  BY <1>2, <1>4, <1>5 DEF TypeInv, TypeOK
<1>7. gen[g].cals \in [m.aggs -> Cal \cup {None}] /\ \A a \in m.aggs : gen[g].cals[a] # None
  <2>1. DOMAIN gen[g].cals = m.aggs
    BY <1>2 DEF GenRows
  <2>2. gen[g].cals \in [m.aggs -> Cal \cup {None}]
    BY <1>2, <2>1, RowsElim
  <2>3. Missing(gen[g].cals) = {}
    BY DEF StoreProofs, Complete
  <2> QED BY <2>1, <2>2, <2>3 DEF Missing
<1>8. calProofs' \subseteq Agg \X Cal
  BY <1>2, <1>4, <1>7 DEF TypeInv, TypeOK
<1>9. btcProofs' \subseteq [agg : Agg, cal : Cal, anchor : Anchor, tx : Tx]
  <2>1. CASE UNCHANGED btcProofs
    BY <2>1 DEF TypeInv, TypeOK
  <2>2. CASE m.type = "btc_batch"
    <3>1. gen[g].phase = "store" /\ Missing(gen[g].anchors) = {}
      BY <2>2 DEF StoreProofs, Building, Complete
    <3>2. gen[g].tx \in Tx
      BY <1>2, <3>1 DEF GenRows, HeadPhase
    <3>3. DOMAIN gen[g].anchors = Found(gen[g].cals)
      BY <1>2, <3>1 DEF GenRows, AnchorPhase
    <3>4. gen[g].anchors \in [Found(gen[g].cals) -> Anchor \cup {None}]
      BY <1>2, <3>3, RowsElim
    <3>5. ASSUME NEW a \in m.aggs
          PROVE  BtcProof(g, a) \in [agg : Agg, cal : Cal, anchor : Anchor, tx : Tx]
      <4>1. gen[g].cals[a] \in Found(gen[g].cals) /\ gen[g].cals[a] \in Cal
        BY <1>7 DEF Found
      <4>2. gen[g].anchors[gen[g].cals[a]] \in Anchor
        BY <3>1, <3>4, <4>1 DEF Missing
      <4> QED BY <1>2, <3>2, <4>1, <4>2 DEF BtcProof
    <3>6. btcProofs' = btcProofs \cup {BtcProof(g, a) : a \in m.aggs \ failed}
      BY <1>4, <2>2
    <3> QED BY <3>5, <3>6 DEF TypeInv, TypeOK
  <2> QED BY <1>4, <2>1, <2>2
<1> QED BY <1>3, <1>6, <1>8, <1>9 DEF StoreProofs, TypeInv, TypeOK, tables, caches

LEMMA TypeEnd ==
    ASSUME TypeInv, NEW g \in Generator, RefuseProofs(g) \/ AckProofs(g) \/ AbortGenerator(g)
    PROVE  TypeInv'
<1>1. Ack(g) \/ Nack(g)
  BY DEF RefuseProofs, AckProofs, AbortGenerator
<1>2. GenType' /\ genQueue' \subseteq genQueue
  BY <1>1, BackTypes DEF TypeInv
<1>3. faults' \in 0..MaxFaults
  BY FailTypes DEF RefuseProofs, AckProofs, AbortGenerator, TypeInv, TypeOK
<1>4. UNCHANGED <<queue, handler, tables, early, caches, redis, results>>
  BY DEF RefuseProofs, AckProofs, AbortGenerator
<1> QED BY <1>2, <1>3, <1>4 DEF TypeInv, TypeOK, tables, caches, results

LEMMA TypeGeneratorStep ==
    ASSUME TypeInv, NEW g \in Generator, GeneratorStep(g) \/ FailTxRead(g) \/ AbortGenerator(g)
    PROVE  TypeInv'
BY TypeTakeReady, TypeCalRows, TypeCalFill, TypeAnchorCache, TypeAnchorRows, TypeAnchorFill,
   TypeTxCache, TypeTxRow, TypeTxFill, TypeHeadCache, TypeHeadRow, TypeHeadFill, TypeFailTx,
   TypeStore, TypeEnd DEF GeneratorStep

LEMMA TypeStep ==
    ASSUME TypeInv, [Next]_vars
    PROVE  TypeInv'
<1>1. CASE UNCHANGED vars
  BY <1>1 DEF TypeInv, TypeOK, GenType, vars, stateVars, results, tables, caches
<1>2. CASE Next
  BY <1>2, TypeStateStep, TypeGeneratorStep DEF Next
<1> QED BY <1>1, <1>2

(* The tables, the caches and the work in progress hold values of the      *)
(* right kind, whatever calls fail.                                        *)
THEOREM TypeCorrect == Spec => []TypeOK
<1>1. Init => TypeInv
  BY InitTypes
<1>2. TypeInv /\ [Next]_vars => TypeInv'
  BY TypeStep
<1>3. TypeInv => TypeOK
  BY DEF TypeInv
<1> QED BY <1>1, <1>2, <1>3, PTL DEF Spec

-----------------------------------------------------------------------------
(* What is written stays written, and what is acknowledged stays so. *)

LEMMA NoneIsNoRow ==
    /\ None \notin Cal /\ None \notin Anchor /\ None \notin Tx
    /\ NullEntry \notin Cal /\ NullEntry \notin Anchor /\ NullEntry \notin Tx
    /\ None # NullEntry
BY NoneAssumption

RowsKept ==
    /\ queue' \subseteq queue
    /\ early \subseteq early'
    /\ \A a \in Agg : calState[a] # None => calState'[a] = calState[a]
    /\ \A c \in Cal : anchorState[c] # None => anchorState'[c] = anchorState[c]
    /\ \A x \in Anchor : txState[x] # None => txState'[x] # None

LEMMA InsertKeeps ==
    ASSUME NEW table, NEW keys, NEW value
    PROVE  /\ \A k \in DOMAIN table :
                table[k] # None => InsertNew(table, keys, value)[k] = table[k]
           /\ \A k \in DOMAIN table :
                k \in keys /\ value # None => InsertNew(table, keys, value)[k] # None
BY DEF InsertNew

LEMMA KeptByState ==
    ASSUME TypeInv, StateStep
    PROVE  RowsKept
<1>0. /\ calState \in [Agg -> Cal \cup {None}]
      /\ anchorState \in [Cal -> Anchor \cup {None}]
      /\ txState \in [Anchor -> Tx \cup {None}]
      /\ StateTypes
  BY TypeParts DEF TypeInv, TypeOK
<1>1. ASSUME NEW h \in Handler, NEW m \in queue, TakeMessage(h, m) PROVE RowsKept
  BY <1>1 DEF TakeMessage, RowsKept, tables
<1>2. ASSUME NEW h \in Handler, InsertBatch(h) PROVE RowsKept
  <2>1. PICK batch :
          \/ /\ calState' = InsertNew(calState, batch, handler[h].msg.id)
             /\ UNCHANGED anchorState
          \/ /\ anchorState' = InsertNew(anchorState, batch, handler[h].msg.id)
             /\ UNCHANGED calState
    BY <1>2 DEF InsertBatch
  <2>2. UNCHANGED <<queue, txState, early>>
    BY <1>2 DEF InsertBatch
  <2> DEFINE v == handler[h].msg.id
  <2>a. \A a \in Agg : calState[a] # None => InsertNew(calState, batch, v)[a] = calState[a]
    BY <1>0, InsertKeeps
  <2>b. \A c \in Cal : anchorState[c] # None =>
           InsertNew(anchorState, batch, v)[c] = anchorState[c]
    BY <1>0, InsertKeeps
  <2>3. \A a \in Agg : calState[a] # None => calState'[a] = calState[a]
    BY <2>1, <2>a
  <2>4. \A c \in Cal : anchorState[c] # None => anchorState'[c] = anchorState[c]
    BY <2>1, <2>b
  <2> QED BY <2>2, <2>3, <2>4 DEF RowsKept
<1>3. ASSUME NEW h \in Handler, Upsert(h) PROVE RowsKept
  <2>1. Busy(h)
    BY <1>3 DEF Upsert, Busy
  <2>2. handler[h].msg.id \in Tx
    BY <1>0, <1>3, <2>1, BusyState, MessageKinds DEF Upsert
  <2>3. \A x \in Anchor : txState[x] # None => txState'[x] # None
    BY <1>0, <1>3, <2>2, NoneIsNoRow DEF Upsert
  <2> QED BY <1>3, <2>3 DEF Upsert, RowsKept
<1>4. ASSUME NEW h \in Handler, CacheRows(h) PROVE RowsKept
  BY <1>4 DEF CacheRows, RowsKept, tables
<1>5. ASSUME NEW h \in Handler, PublishAndAck(h) PROVE RowsKept
  BY <1>5 DEF PublishAndAck, RowsKept, tables
<1>6. ASSUME NEW h \in Handler, AbortHandler(h) PROVE RowsKept
  BY <1>6 DEF AbortHandler, RowsKept, tables
<1>7. ASSUME NEW s \in Service, FailRedis(s) \/ DropRedis(s) \/ OpenRedis(s) PROVE RowsKept
  BY <1>7 DEF FailRedis, DropRedis, OpenRedis, RowsKept, tables
<1> QED BY <1>1, <1>2, <1>3, <1>4, <1>5, <1>6, <1>7 DEF StateStep, HandlerStep

(* The generators leave the messages, the handlers and the tables alone. *)
LEMMA GeneratorsOnlyRead ==
    ASSUME NEW g \in Generator, GeneratorStep(g) \/ FailTxRead(g) \/ AbortGenerator(g)
    PROVE  UNCHANGED <<queue, handler, tables, early, redis>>
<1>1. CASE \/ \E m \in genQueue : TakeReady(g, m)
           \/ GetCalRows(g) \/ FillCalCache(g)
  BY <1>1 DEF TakeReady, GetCalRows, FillCalCache, stateVars, tables
<1>2. CASE GetAnchorCache(g) \/ GetAnchorRows(g) \/ FillAnchorCache(g)
  BY <1>2 DEF GetAnchorCache, GetAnchorRows, FillAnchorCache, stateVars, tables
<1>3. CASE GetTxCache(g) \/ GetTxRow(g) \/ FillTxCache(g)
  BY <1>3 DEF GetTxCache, GetTxRow, FillTxCache, stateVars, tables
<1>4. CASE GetHeadCache(g) \/ GetHeadRow(g) \/ FillHeadCache(g)
  BY <1>4 DEF GetHeadCache, GetHeadRow, FillHeadCache, stateVars, tables
<1>5. CASE StoreProofs(g) \/ RefuseProofs(g) \/ AckProofs(g) \/ FailTxRead(g) \/ AbortGenerator(g)
  BY <1>5 DEF StoreProofs, RefuseProofs, AckProofs, FailTxRead, AbortGenerator, tables
<1> QED BY <1>1, <1>2, <1>3, <1>4, <1>5 DEF GeneratorStep

LEMMA KeptByGenerator ==
    ASSUME UNCHANGED <<queue, handler, tables, early, redis>>
    PROVE  RowsKept
BY DEF RowsKept, tables

LEMMA KeptByStep ==
    ASSUME TypeInv, [Next]_vars
    PROVE  RowsKept
<1>1. CASE UNCHANGED vars
  BY <1>1 DEF vars, stateVars, tables, RowsKept
<1> QED BY <1>1, KeptByState, GeneratorsOnlyRead, KeptByGenerator DEF Next

(* So what holds of the tables of a message holds for good. *)
LEMMA ReadyKept ==
    ASSUME RowsKept, NEW t \in Tx, ConfirmReady(t)
    PROVE  ConfirmReady(t)'
BY DEF RowsKept, ConfirmReady

LEMMA EarlyKept ==
    ASSUME RowsKept, NEW t \in Tx, ReadyOrEarly(t)
    PROVE  ReadyOrEarly(t)'
BY ReadyKept DEF RowsKept, ReadyOrEarly

LEMMA LeadsKept ==
    ASSUME RowsKept, NEW a \in Agg, NEW x \in Anchor, LeadsTo(a, x)
    PROVE  LeadsTo(a, x)'
BY NoneIsNoRow DEF RowsKept, LeadsTo

LEMMA MessageKept ==
    ASSUME RowsKept, NEW m \in GenMessage, ReadyMsg(m)
    PROVE  ReadyMsg(m)'
<1> SUFFICES ASSUME m.type = "btc_batch" PROVE ReadyMsg(m)'
  BY DEF ReadyMsg
<1>1. m.id \in Tx /\ m.aggs # {} /\ ReadyOrEarly(m.id) /\ m.aggs \in SUBSET Agg
      /\ TxAnchor[m.id] \in Anchor
  BY TreesAssumption DEF ReadyMsg, GenMessage
<1>2. ReadyOrEarly(m.id)'
  BY <1>1, EarlyKept
<1>3. \A a \in m.aggs : LeadsTo(a, TxAnchor[m.id])'
  BY <1>1, LeadsKept DEF ReadyMsg
<1> QED BY <1>1, <1>2, <1>3 DEF ReadyMsg

LEMMA WorkKept ==
    ASSUME RowsKept, NEW s \in HandlerState, HandlerWork(s)
    PROVE  HandlerWork(s)'
<1>0. s.msg \in Message /\ s.hashes \in SUBSET Agg
  BY DEF HandlerState
<1>1. CASE s.msg.type = "cal_batch"
  <2>1. s.msg.id \in Cal /\ CalLeaves[s.msg.id] \in SUBSET Agg
    BY <1>0, <1>1, MessageKinds, TreesAssumption
  <2>2. CalWork(s) /\ (s.phase = "publish" => s.rest = {})
    BY <1>1 DEF HandlerWork
  <2>3. CalWork(s)'
    BY <2>1, <2>2 DEF CalWork, Written, RowsKept
  <2> QED BY <1>1, <2>2, <2>3 DEF HandlerWork
<1>2. CASE s.msg.type = "anchor_btc_agg_batch"
  <2>1. s.msg.id \in Anchor /\ AnchorLeaves[s.msg.id] \in SUBSET Cal
    BY <1>0, <1>2, MessageKinds, TreesAssumption
  <2>2. AnchorWork(s) /\ (s.phase = "publish" => s.rest = {})
    BY <1>2 DEF HandlerWork
  <2>3. AnchorWork(s)'
    BY <2>1, <2>2 DEF AnchorWork, Written, RowsKept
  <2> QED BY <1>2, <2>2, <2>3 DEF HandlerWork
<1>3. CASE s.msg.type = "btctx"
  <2>1. s.msg.id \in Tx /\ TxAnchor[s.msg.id] \in Anchor
    BY <1>0, <1>3, MessageKinds, TreesAssumption
  <2>2. TxWork(s) /\ (s.phase = "publish" => s.rest = {})
    BY <1>3 DEF HandlerWork
  <2>3. TxWork(s)'
    BY <2>1, <2>2 DEF TxWork, RowsKept
  <2> QED BY <1>3, <2>2, <2>3 DEF HandlerWork
<1>4. CASE s.msg.type = "btcmon"
  <2>1. s.msg.id \in Tx /\ TxAnchor[s.msg.id] \in Anchor
    BY <1>0, <1>4, MessageKinds, TreesAssumption
  <2>2. MonWork(s) /\ (s.phase = "publish" => s.rest = {})
    BY <1>4 DEF HandlerWork
  <2>3. ReadyOrEarly(s.msg.id)'
    BY <2>1, <2>2, EarlyKept DEF MonWork
  <2>4. \A a \in s.hashes : LeadsTo(a, TxAnchor[s.msg.id])'
    BY <1>0, <2>1, <2>2, LeadsKept DEF MonWork
  <2>5. MonWork(s)'
    BY <2>2, <2>3, <2>4 DEF MonWork
  <2> QED BY <1>4, <2>2, <2>5 DEF HandlerWork
<1> QED BY <1>0, <1>1, <1>2, <1>3, <1>4, MessageKinds

(* One handler moves; the others' work is what it was. *)
LEMMA HandlersKept ==
    ASSUME TypeInv, RowsKept, NEW h \in Handler, NEW s,
           handler' = [handler EXCEPT ![h] = s],
           s = Idle \/ HandlerWork(s)',
           \A k \in Handler : Busy(k) => HandlerWork(handler[k])
    PROVE  \A k \in Handler : Busy(k)' => HandlerWork(handler[k])'
<1> TAKE k \in Handler
<1> SUFFICES ASSUME Busy(k)' PROVE HandlerWork(handler[k])'
  OBVIOUS
<1>0. handler \in [Handler -> {Idle} \cup HandlerState] /\ StateTypes
  BY TypeParts DEF TypeInv
<1>1. CASE k = h
  <2>1. handler'[k] = s /\ s # Idle
    BY <1>0, <1>1 DEF Busy, Idle
  <2> QED BY <2>1
<1>2. CASE k # h
  <2>1. handler'[k] = handler[k]
    BY <1>0, <1>2
  <2>2. Busy(k)
    BY <2>1 DEF Busy
  <2>3. \A r \in HandlerState : HandlerWork(r) => HandlerWork(r)'
    BY WorkKept
  <2>4. handler[k] \in HandlerState
    BY <1>0, <2>2, BusyState
  <2> QED BY <2>1, <2>2, <2>3, <2>4
<1> QED BY <1>1, <1>2

-----------------------------------------------------------------------------
(* Rows lead to trees their keys are in. *)

LEMMA SoundInsert ==
    ASSUME NEW table, NEW leaves, Sound(table, leaves),
           NEW keys, NEW value, keys \subseteq leaves[value]
    PROVE  Sound(InsertNew(table, keys, value), leaves)
BY DEF Sound, InsertNew

LEMMA SoundRead ==
    ASSUME NEW table, NEW leaves, Sound(table, leaves), NEW keys \in SUBSET (DOMAIN table)
    PROVE  Sound(FromCache(table, keys), leaves)
BY DEF Sound, FromCache

LEMMA SoundReadTable ==
    ASSUME NEW table, NEW leaves, Sound(table, leaves),
           NEW rows, DOMAIN rows \subseteq DOMAIN table, Sound(rows, leaves)
    PROVE  Sound(FromTable(rows, table), leaves)
BY DEF Sound, FromTable

LEMMA SoundFill ==
    ASSUME NEW cache, NEW leaves, Sound(cache, leaves),
           NEW rows, Sound(rows, leaves), NEW keys, keys \subseteq DOMAIN rows
    PROVE  Sound(Fill(cache, keys, rows), leaves)
BY DEF Sound, Fill

(* The state service. *)

LEMMA RowsTake ==
    ASSUME TypeInv, RowInv, NEW h \in Handler, NEW m \in queue, TakeMessage(h, m)
    PROVE  RowInv'
<1>0. PICK s : s = [phase |-> "insert", msg |-> m, rest |-> Leaves(m), batch |-> {},
                    hashes |-> HashIds(m)]
  OBVIOUS
<1>1. /\ m \in Message
      /\ handler' = [handler EXCEPT ![h] = s]
      /\ UNCHANGED <<queue, genQueue, tables, caches, redis>>
      /\ early' = IF Prerequisites(m) \cap queue = {} THEN early ELSE early \cup {m.id}
  BY <1>0 DEF TakeMessage, TypeInv, TypeOK
<1>2. RowsKept
  BY <1>1 DEF RowsKept, tables
<1>3. s.phase = "insert" /\ s.msg = m /\ s.rest = Leaves(m) /\ s.batch = {} /\ s.hashes = HashIds(m)
  BY <1>0
<1>4. HandlerWork(s)'
  <2>1. CASE m.type = "cal_batch"
    BY <1>1, <1>3, <2>1, LeavesOf DEF HandlerWork, CalWork, Written
  <2>2. CASE m.type = "anchor_btc_agg_batch"
    BY <1>1, <1>3, <2>2, LeavesOf DEF HandlerWork, AnchorWork, Written
  <2>3. CASE m.type = "btctx"
    BY <1>1, <1>3, <2>3, LeavesOf DEF HandlerWork, TxWork
  <2>4. CASE m.type = "btcmon"
    <3>1. m.id \in Tx /\ TxAnchor[m.id] \in Anchor
      BY <1>1, <2>4, MessageKinds, TreesAssumption
    <3>2. ReadyOrEarly(m.id)'
      BY <1>1, <2>4, <3>1
         DEF Prerequisites, ReadyOrEarly, ConfirmReady, CalMsg, TxMsg, AnchorMsg
    <3>3. \A a \in HashIdsByBtcTx(m.id) : LeadsTo(a, TxAnchor[m.id])
      BY <3>1 DEF HashIdsByBtcTx, LeadsTo, RowInv, TablesSound, TxSound
    <3>4. \A a \in HashIdsByBtcTx(m.id) : LeadsTo(a, TxAnchor[m.id])'
      BY <1>1, <3>3 DEF LeadsTo, tables
    <3> QED BY <1>1, <1>3, <2>4, <3>2, <3>4, LeavesOf DEF HandlerWork, MonWork
  <2> QED BY <1>1, <2>1, <2>2, <2>3, <2>4, MessageKinds
<1>5. \A k \in Handler : Busy(k)' => HandlerWork(handler[k])'
  BY <1>1, <1>2, <1>4, HandlersKept DEF RowInv
<1>6. AckedWritten'
  BY <1>1 DEF RowInv, AckedWritten, ReadyOrEarly, ConfirmReady, Written, tables
<1> QED BY <1>1, <1>5, <1>6 DEF RowInv, TablesSound, tables, caches

LEMMA RowsInsert ==
    ASSUME TypeInv, RowInv, NEW h \in Handler, InsertBatch(h), RowsKept
    PROVE  RowInv'
<1> DEFINE m == handler[h].msg
<1>1. Busy(h) /\ handler[h].phase = "insert"
  BY DEF InsertBatch, Busy
<1>2. handler[h] \in HandlerState /\ m \in Message
  BY <1>1, BusyState, TypeParts
<1>3. PICK batch \in FirstOf(handler[h].rest, WriteBatch) :
        /\ handler' = [handler EXCEPT ![h].phase = "cache", ![h].batch = batch,
                                      ![h].rest = @ \ batch]
        /\ \/ /\ m.type = "cal_batch"
              /\ calState' = InsertNew(calState, batch, m.id)
              /\ UNCHANGED anchorState
           \/ /\ m.type = "anchor_btc_agg_batch"
              /\ anchorState' = InsertNew(anchorState, batch, m.id)
              /\ UNCHANGED calState
  BY DEF InsertBatch
<1>4. UNCHANGED <<queue, genQueue, txState, headState, caches, redis, faults, early>>
  BY DEF InsertBatch
<1>0. PICK s : s = [handler[h] EXCEPT !.phase = "cache", !.batch = batch, !.rest = @ \ batch]
  OBVIOUS
<1>5. batch \subseteq handler[h].rest
  BY FirstOfSome
<1>6. /\ s.phase = "cache" /\ s.msg = m /\ s.batch = batch /\ s.rest = handler[h].rest \ batch
      /\ s.hashes = handler[h].hashes
  BY <1>0, <1>2 DEF HandlerState
<1>7. handler' = [handler EXCEPT ![h] = s]
  BY <1>0, <1>3 DEF TypeInv
<1>8. /\ calState \in [Agg -> Cal \cup {None}] /\ anchorState \in [Cal -> Anchor \cup {None}]
  BY DEF TypeInv, TypeOK
<1>9. HandlerWork(handler[h])
  BY <1>1 DEF RowInv
<1>10. HandlerWork(s)' /\ Sound(calState, CalLeaves)' /\ Sound(anchorState, AnchorLeaves)'
  <2>1. CASE m.type = "cal_batch"
    <3>1. m.id \in Cal /\ CalLeaves[m.id] \in SUBSET Agg
      BY <1>2, <2>1, MessageKinds, TreesAssumption
    <3>2. /\ handler[h].rest \subseteq CalLeaves[m.id]
          /\ handler[h].hashes = CalLeaves[m.id]
          /\ Written(calState, CalLeaves[m.id] \ handler[h].rest)
      BY <1>9, <2>1 DEF HandlerWork, CalWork
    <3>3. calState' = InsertNew(calState, batch, m.id) /\ UNCHANGED anchorState
      BY <1>3, <2>1
    <3>a. m.id # None /\ DOMAIN calState = Agg
      BY <1>8, <3>1, NoneIsNoRow
    <3>4. \A a \in batch : a \in Agg => calState'[a] # None
      BY <3>a, <3>3, InsertKeeps
    <3>5. Written(calState', CalLeaves[m.id] \ (handler[h].rest \ batch))
      BY <3>1, <3>2, <3>4, <1>5 DEF Written, RowsKept
    <3>6. CalWork(s)'
      BY <1>5, <1>6, <3>2, <3>5 DEF CalWork, Written
    <3>7. Sound(calState', CalLeaves)
      BY <1>5, <1>8, <3>2, <3>3, SoundInsert DEF RowInv, TablesSound
    <3> QED BY <1>6, <2>1, <3>3, <3>6, <3>7 DEF HandlerWork, Sound, RowInv, TablesSound
  <2>2. CASE m.type = "anchor_btc_agg_batch"
    <3>1. m.id \in Anchor /\ AnchorLeaves[m.id] \in SUBSET Cal
      BY <1>2, <2>2, MessageKinds, TreesAssumption
    <3>2. /\ handler[h].rest \subseteq AnchorLeaves[m.id]
          /\ handler[h].hashes = {}
          /\ Written(anchorState, AnchorLeaves[m.id] \ handler[h].rest)
      BY <1>9, <2>2 DEF HandlerWork, AnchorWork
    <3>3. anchorState' = InsertNew(anchorState, batch, m.id) /\ UNCHANGED calState
      BY <1>3, <2>2
    <3>a. m.id # None /\ DOMAIN anchorState = Cal
      BY <1>8, <3>1, NoneIsNoRow
    <3>4. \A c \in batch : c \in Cal => anchorState'[c] # None
      BY <3>a, <3>3, InsertKeeps
    <3>5. Written(anchorState', AnchorLeaves[m.id] \ (handler[h].rest \ batch))
      BY <3>1, <3>2, <3>4, <1>5 DEF Written, RowsKept
    <3>6. AnchorWork(s)'
      BY <1>5, <1>6, <3>2, <3>5 DEF AnchorWork, Written
    <3>7. Sound(anchorState', AnchorLeaves)
      BY <1>5, <1>8, <3>2, <3>3, SoundInsert DEF RowInv, TablesSound
    <3> QED BY <1>6, <2>2, <3>3, <3>6, <3>7 DEF HandlerWork, Sound, RowInv, TablesSound
  <2> QED BY <1>3, <2>1, <2>2
<1>11. \A k \in Handler : Busy(k)' => HandlerWork(handler[k])'
  BY <1>7, <1>10, HandlersKept DEF RowInv
<1>12. TablesSound'
  BY <1>4, <1>10 DEF RowInv, TablesSound, Sound, TxSound, caches
<1>13. AckedWritten'
  BY <1>4, TreesAssumption DEF RowInv, AckedWritten, Written, ReadyOrEarly, ConfirmReady, RowsKept
<1> QED BY <1>11, <1>12, <1>13 DEF RowInv

LEMMA RowsUpsert ==
    ASSUME TypeInv, RowInv, NEW h \in Handler, Upsert(h), RowsKept
    PROVE  RowInv'
<1>1. Busy(h) /\ handler[h].phase = "insert"
  BY DEF Upsert, Busy
<1>2. handler[h] \in HandlerState /\ handler[h].msg \in Message
  BY <1>1, BusyState, TypeParts
<1>0. PICK s : s = [handler[h] EXCEPT !.phase = "cache"]
  OBVIOUS
<1>a. PICK m : m = handler[h].msg
  OBVIOUS
<1>3. /\ s.phase = "cache" /\ s.msg = m /\ s.rest = handler[h].rest
      /\ s.hashes = handler[h].hashes
  BY <1>0, <1>2, <1>a DEF HandlerState
<1>4. handler' = [handler EXCEPT ![h] = s]
  BY <1>0 DEF Upsert, TypeInv
<1>5. m.id \in Tx /\ TxAnchor[m.id] \in Anchor /\ m.type \in {"btctx", "btcmon"}
  BY <1>2, <1>a, MessageKinds, TreesAssumption DEF Upsert
<1>6. txState \in [Anchor -> Tx \cup {None}]
  BY DEF TypeInv, TypeOK
<1>7. /\ UNCHANGED <<queue, genQueue, calState, anchorState, caches, redis, faults>>
      /\ \/ m.type = "btctx" /\ txState' = [txState EXCEPT ![TxAnchor[m.id]] = m.id]
         \/ m.type = "btcmon" /\ UNCHANGED txState
  BY <1>a DEF Upsert
<1>8. HandlerWork(handler[h])
  BY <1>1 DEF RowInv
<1>9. HandlerWork(s)'
  <2>1. CASE m.type = "btctx"
    <3>1. txState'[TxAnchor[m.id]] # None
      BY <1>5, <1>6, <1>7, <2>1, NoneIsNoRow
    <3>2. s.rest = {} /\ s.hashes = {}
      BY <1>3, <1>8, <1>a, <2>1 DEF HandlerWork, TxWork
    <3> QED BY <1>3, <2>1, <3>1, <3>2 DEF HandlerWork, TxWork
  <2>2. CASE m.type = "btcmon"
    <3>1. /\ s.rest = {} /\ ReadyOrEarly(m.id)
          /\ \A a \in s.hashes : LeadsTo(a, TxAnchor[m.id])
      BY <1>3, <1>8, <1>a, <2>2 DEF HandlerWork, MonWork
    <3>2. ReadyOrEarly(m.id)'
      BY <1>5, <3>1, EarlyKept
    <3>3. \A a \in s.hashes : LeadsTo(a, TxAnchor[m.id])'
      BY <1>7, <3>1 DEF LeadsTo
    <3> QED BY <1>3, <2>2, <3>1, <3>2, <3>3 DEF HandlerWork, MonWork
  <2> QED BY <1>5, <2>1, <2>2
<1>10. \A k \in Handler : Busy(k)' => HandlerWork(handler[k])'
  BY <1>4, <1>9, HandlersKept DEF RowInv
<1>11. TxSound(txState')
  BY <1>5, <1>6, <1>7 DEF RowInv, TablesSound, TxSound
<1>12. TablesSound'
  BY <1>7, <1>11 DEF RowInv, TablesSound, Sound, TxSound, caches
<1>13. AckedWritten'
  BY <1>7, TreesAssumption DEF RowInv, AckedWritten, Written, ReadyOrEarly, ConfirmReady, RowsKept
<1> QED BY <1>10, <1>12, <1>13 DEF RowInv

LEMMA RowsCache ==
    ASSUME TypeInv, RowInv, NEW h \in Handler, CacheRows(h), RowsKept
    PROVE  RowInv'
<1>1. Busy(h) /\ handler[h].phase = "cache"
  BY DEF CacheRows, Busy
<1>2. handler[h] \in HandlerState /\ handler[h].msg \in Message
  BY <1>1, BusyState, TypeParts
<1>0. PICK s : s = [handler[h] EXCEPT !.phase = IF handler[h].rest = {} THEN "publish" ELSE "insert"]
  OBVIOUS
<1>a. PICK m : m = handler[h].msg
  OBVIOUS
<1>3. /\ s.msg = m /\ s.rest = handler[h].rest /\ s.batch = handler[h].batch
      /\ s.hashes = handler[h].hashes
      /\ s.phase = "publish" => s.rest = {}
      /\ s \in HandlerState
  BY <1>0, <1>2, <1>a DEF HandlerState
<1>4. handler' = [handler EXCEPT ![h] = s]
  BY <1>0 DEF CacheRows, TypeInv
<1>5. UNCHANGED <<queue, genQueue, tables, redis, faults, early>>
  BY DEF CacheRows
<1>6. HandlerWork(handler[h])
  BY <1>1 DEF RowInv
<1>7. HandlerWork(s)
  BY <1>1, <1>3, <1>6, <1>a DEF HandlerWork, CalWork, AnchorWork, TxWork, MonWork
<1>8. HandlerWork(s)'
  BY <1>3, <1>7, WorkKept
<1>9. \A k \in Handler : Busy(k)' => HandlerWork(handler[k])'
  BY <1>4, <1>8, HandlersKept DEF RowInv
<1>10. /\ calCache \in [Agg -> Cal \cup {None}] /\ anchorCache \in [Cal -> Anchor \cup {None}]
       /\ txCache \in [Anchor -> Tx \cup {None, NullEntry}]
       /\ Sound(calCache, CalLeaves) /\ Sound(anchorCache, AnchorLeaves) /\ TxSound(txCache)
  BY DEF TypeInv, TypeOK, RowInv, TablesSound
<1>11. Sound(calCache', CalLeaves) /\ Sound(anchorCache', AnchorLeaves) /\ TxSound(txCache')
  <2>1. CASE UNCHANGED caches
    BY <1>10, <2>1 DEF caches
  <2>2. CASE /\ m.type = "cal_batch" /\ calCache' = InsertNew(calCache, s.batch, m.id)
             /\ UNCHANGED <<anchorCache, txCache, headCache>>
    <3>1. s.batch \subseteq CalLeaves[m.id]
      BY <1>3, <1>7, <2>2 DEF HandlerWork, CalWork
    <3> QED BY <1>10, <2>2, <3>1, SoundInsert
  <2>3. CASE /\ m.type = "anchor_btc_agg_batch"
             /\ anchorCache' = InsertNew(anchorCache, s.batch, m.id)
             /\ UNCHANGED <<calCache, txCache, headCache>>
    <3>1. s.batch \subseteq AnchorLeaves[m.id]
      BY <1>3, <1>7, <2>3 DEF HandlerWork, AnchorWork
    <3> QED BY <1>10, <2>3, <3>1, SoundInsert
  <2>4. CASE m.type = "btctx" /\ txCache' = [txCache EXCEPT ![TxAnchor[m.id]] = m.id]
             /\ UNCHANGED <<calCache, anchorCache, headCache>>
    <3>1. m.id \in Tx
      BY <1>2, <1>a, <2>4, MessageKinds
    <3> QED BY <1>10, <2>4, <3>1 DEF TxSound
  <2>5. CASE UNCHANGED <<calCache, anchorCache, txCache>>
    BY <1>10, <2>5
  <2> QED BY <1>3, <1>a, <2>1, <2>2, <2>3, <2>4, <2>5 DEF CacheRows
<1>12. TablesSound'
  BY <1>5, <1>11 DEF RowInv, TablesSound, Sound, TxSound, tables
<1>13. AckedWritten'
  BY <1>5 DEF RowInv, AckedWritten, Written, ReadyOrEarly, ConfirmReady, tables
<1> QED BY <1>9, <1>12, <1>13 DEF RowInv

LEMMA RowsPublish ==
    ASSUME TypeInv, RowInv, NEW h \in Handler, PublishAndAck(h) \/ AbortHandler(h)
    PROVE  RowInv'
<1>1. Busy(h)
  BY DEF PublishAndAck, AbortHandler, Busy
<1>2. handler[h] \in HandlerState /\ handler[h].msg \in Message
  BY <1>1, BusyState, TypeParts
<1>a. PICK m : m = handler[h].msg
  OBVIOUS
<1>3. /\ handler' = [handler EXCEPT ![h] = Idle]
      /\ UNCHANGED <<tables, caches, redis, early>>
      /\ \/ UNCHANGED queue
         \/ queue' = queue \ {m} /\ handler[h].phase = "publish"
  BY <1>a DEF PublishAndAck, AbortHandler
<1>4. RowsKept
  BY <1>3 DEF RowsKept, tables
<1>5. \A k \in Handler : Busy(k)' => HandlerWork(handler[k])'
  <2>1. PICK s : s = Idle
    OBVIOUS
  <2>2. handler' = [handler EXCEPT ![h] = s]
    BY <1>3, <2>1
  <2> QED BY <1>4, <2>1, <2>2, HandlersKept DEF RowInv
<1>6. TablesSound'
  BY <1>3 DEF RowInv, TablesSound, Sound, TxSound, tables, caches
<1>7. HandlerWork(handler[h])
  BY <1>1 DEF RowInv
<1>8. handler[h].phase = "publish" =>
        /\ m.type = "cal_batch" => Written(calState, CalLeaves[m.id])
        /\ m.type = "anchor_btc_agg_batch" => Written(anchorState, AnchorLeaves[m.id])
        /\ m.type = "btctx" => txState[TxAnchor[m.id]] # None
        /\ m.type = "btcmon" => ReadyOrEarly(m.id)
  <2> SUFFICES ASSUME handler[h].phase = "publish"
               PROVE  /\ m.type = "cal_batch" => Written(calState, CalLeaves[m.id])
                      /\ m.type = "anchor_btc_agg_batch" => Written(anchorState, AnchorLeaves[m.id])
                      /\ m.type = "btctx" => txState[TxAnchor[m.id]] # None
                      /\ m.type = "btcmon" => ReadyOrEarly(m.id)
    OBVIOUS
  <2>1. handler[h].rest = {}
    BY <1>7 DEF HandlerWork
  <2>2. m.type = "cal_batch" => Written(calState, CalLeaves[m.id])
    BY <1>7, <1>a, <2>1 DEF HandlerWork, CalWork, Written
  <2>3. m.type = "anchor_btc_agg_batch" => Written(anchorState, AnchorLeaves[m.id])
    BY <1>7, <1>a, <2>1 DEF HandlerWork, AnchorWork, Written
  <2>4. m.type = "btctx" => txState[TxAnchor[m.id]] # None
    BY <1>7, <1>a DEF HandlerWork, TxWork
  <2>5. m.type = "btcmon" => ReadyOrEarly(m.id)
    BY <1>7, <1>a DEF HandlerWork, MonWork
  <2> QED BY <2>2, <2>3, <2>4, <2>5
<1>9. /\ \A c \in Cal : CalMsg(c) = m => m.type = "cal_batch" /\ m.id = c
      /\ \A x \in Anchor : AnchorMsg(x) = m => m.type = "anchor_btc_agg_batch" /\ m.id = x
      /\ \A t \in Tx : TxMsg(t) = m => m.type = "btctx" /\ m.id = t
      /\ \A t \in Tx : MonMsg(t) = m => m.type = "btcmon" /\ m.id = t
  BY DEF CalMsg, AnchorMsg, TxMsg, MonMsg
<1>10. AckedWritten'
  <2> USE <1>3, <1>8, <1>9 DEF tables
  <2>1. \A c \in Cal : CalMsg(c) \notin queue' => Written(calState', CalLeaves[c])
    BY DEF RowInv, AckedWritten
  <2>2. \A x \in Anchor : AnchorMsg(x) \notin queue' => Written(anchorState', AnchorLeaves[x])
    BY DEF RowInv, AckedWritten
  <2>3. \A t \in Tx : TxMsg(t) \notin queue' => txState'[TxAnchor[t]] # None
    BY DEF RowInv, AckedWritten
  <2>4. \A t \in Tx : MonMsg(t) \notin queue' => ReadyOrEarly(t)
    BY DEF RowInv, AckedWritten
  <2>5. \A t \in Tx : MonMsg(t) \notin queue' => ReadyOrEarly(t)'
    BY <1>4, <2>4, EarlyKept
  <2> QED BY <2>1, <2>2, <2>3, <2>5 DEF AckedWritten, CalMsg, AnchorMsg, TxMsg, MonMsg, Written
<1> QED BY <1>5, <1>6, <1>10 DEF RowInv

LEMMA RowsRedis ==
    ASSUME TypeInv, RowInv, UNCHANGED <<queue, handler, tables, early, caches>>
    PROVE  RowInv'
<1>1. TablesSound' /\ AckedWritten'
  BY DEF RowInv, TablesSound, Sound, TxSound, AckedWritten, Written, ReadyOrEarly, ConfirmReady, tables, caches
<1>2. \A k \in Handler : Busy(k)' => HandlerWork(handler[k])'
  BY DEF RowInv, Busy, HandlerWork, CalWork, AnchorWork, TxWork, MonWork, Written,
         ReadyOrEarly, ConfirmReady, LeadsTo, tables
<1> QED BY <1>1, <1>2 DEF RowInv

LEMMA RowsStateStep ==
    ASSUME TypeInv, RowInv, StateStep
    PROVE  RowInv'
<1>1. RowsKept
  BY KeptByState
<1>2. ASSUME NEW s \in Service, FailRedis(s) \/ DropRedis(s) \/ OpenRedis(s) PROVE RowInv'
  <2>1. UNCHANGED <<queue, handler, tables, early, caches>>
    BY <1>2 DEF FailRedis, DropRedis, OpenRedis
  <2> QED BY <2>1, RowsRedis
<1> QED BY <1>1, <1>2, RowsTake, RowsInsert, RowsUpsert, RowsCache, RowsPublish
        DEF StateStep, HandlerStep

(* The generators. *)

LEMMA RowsByGenerator ==
    ASSUME TypeInv, RowInv, UNCHANGED <<queue, handler, tables, early>>,
           Sound(calCache', CalLeaves), Sound(anchorCache', AnchorLeaves), TxSound(txCache')
    PROVE  RowInv'
<1>1. TablesSound' /\ AckedWritten'
  BY DEF RowInv, TablesSound, Sound, TxSound, AckedWritten, Written, ReadyOrEarly, ConfirmReady, tables
<1>2. \A k \in Handler : Busy(k)' => HandlerWork(handler[k])'
  BY DEF RowInv, Busy, HandlerWork, CalWork, AnchorWork, TxWork, MonWork, Written,
         ReadyOrEarly, ConfirmReady, LeadsTo, tables
<1> QED BY <1>1, <1>2 DEF RowInv

LEMMA RowsCachesSame ==
    ASSUME TypeInv, RowInv, UNCHANGED <<queue, handler, tables, early, calCache, anchorCache, txCache>>
    PROVE  RowInv'
BY RowsByGenerator DEF RowInv, TablesSound

LEMMA MessageSame ==
    ASSUME NEW m \in GenMessage, UNCHANGED <<queue, tables, early>>, ReadyMsg(m)
    PROVE  ReadyMsg(m)'
BY DEF ReadyMsg, ReadyOrEarly, ConfirmReady, LeadsTo, tables

LEMMA GensKept ==
    ASSUME TypeInv, GenInv, NEW g \in Generator, NEW s, s # IdleGen => s \in GenState /\ GenOK(s),
           gen' = [gen EXCEPT ![g] = s], genQueue' \subseteq genQueue, UNCHANGED <<queue, tables, early>>,
           OneAnchorEach /\ early' = {} => \A x \in Anchor : txCache'[x] # NullEntry
    PROVE  GenInv'
<1>1. \A m \in genQueue' : ReadyMsg(m)'
  BY MessageSame DEF GenInv, TypeInv, TypeOK
<1>2. ASSUME NEW k \in Generator, gen'[k] # IdleGen PROVE GenOK(gen[k])'
  <2>0. gen \in [Generator -> {IdleGen} \cup GenState]
    BY DEF TypeInv, GenType
  <2>1. PICK r : r = gen'[k]
    OBVIOUS
  <2>2. r \in GenState /\ GenOK(r)
    BY <1>2, <2>0, <2>1 DEF GenInv
  <2>3. r.msg \in GenMessage
    BY <2>2 DEF GenState
  <2>4. ReadyMsg(r.msg)' /\ CalsInv(r) /\ AnchorsInv(r)' /\ TxInv(r)'
    BY <2>2, <2>3, MessageSame DEF GenOK, AnchorsInv, TxInv
  <2> QED BY <2>1, <2>4 DEF GenOK, AnchorsInv, TxInv
<1>3. OneAnchorEach /\ early' = {} => \A x \in Anchor : txCache'[x] # NullEntry
  OBVIOUS
<1> QED BY <1>1, <1>2, <1>3 DEF GenInv

(* A generator is done with a message, or hands it back. *)
LEMMA BackOK ==
    ASSUME TypeInv, GenInv, NEW g \in Generator, Ack(g) \/ Nack(g), UNCHANGED <<queue, tables, early>>,
           OneAnchorEach /\ early' = {} => \A x \in Anchor : txCache'[x] # NullEntry
    PROVE  GenInv'
<1>1. PICK s : s = IdleGen
  OBVIOUS
<1>2. gen' = [gen EXCEPT ![g] = s] /\ genQueue' \subseteq genQueue
  BY <1>1 DEF Ack, Nack
<1> QED BY <1>1, <1>2, GensKept

LEMMA GotoOK ==
    ASSUME TypeInv, GenInv, NEW g \in Generator, gen[g].phase \notin {"idle", "calRows", "anchorRows"},
           NEW p \in CalPhase \cup AnchorPhase \cup {"ack"}, Goto(g, p),
           p \in AnchorPhase => gen[g].phase \in AnchorPhase,
           p \notin {"anchorRows", "txRow", "txFill"},
           p \in HeadPhase => gen[g].phase \in HeadPhase,
           UNCHANGED <<queue, tables, early>>,
           OneAnchorEach /\ early' = {} => \A x \in Anchor : txCache'[x] # NullEntry
    PROVE  GenInv'
<1>1. /\ gen[g] \in GenState /\ gen[g] # IdleGen
      /\ gen \in [Generator -> {IdleGen} \cup GenState]
  BY BusyGen DEF TypeInv, GenType
<1>2. PICK r : r = [gen[g] EXCEPT !.phase = p]
  OBVIOUS
<1>3. r \in GenState
  BY <1>1, <1>2 DEF GenState
<1>4. /\ r.phase = p /\ r.msg = gen[g].msg /\ r.cals = gen[g].cals
      /\ r.anchors = gen[g].anchors /\ r.anchorId = gen[g].anchorId /\ r.tx = gen[g].tx
  BY <1>1, <1>2 DEF GenState
<1>5. gen' = [gen EXCEPT ![g] = r] /\ UNCHANGED genQueue
  BY <1>1, <1>2 DEF Goto
<1>6. GenOK(gen[g])
  BY <1>1 DEF GenInv
<1>7. ReadyMsg(r.msg) /\ CalsInv(r)
  BY <1>4, <1>6 DEF GenOK, CalsInv
<1>8. AnchorsInv(r)
  BY <1>4, <1>6 DEF GenOK, AnchorsInv
<1>9. TxInv(r)
  BY <1>4, <1>6 DEF GenOK, TxInv
<1>10. GenOK(r)
  BY <1>7, <1>8, <1>9 DEF GenOK
<1> QED BY <1>3, <1>5, <1>10, GensKept

(* The trees above a hash: what a generator has found and what the tables  *)
(* say lead to the same anchor, if there is but one.                       *)
LEMMA OnlyAnchor ==
    ASSUME TypeInv, RowInv, OneAnchorEach, NEW s \in GenState, GenRows(s), GenOK(s),
           s.phase \in AnchorPhase, NEW x \in Found(s.anchors)
    PROVE  x = TxAnchor[s.msg.id]
<1> DEFINE X == TxAnchor[s.msg.id]
<1>1. /\ s.msg.type = "btc_batch" /\ DOMAIN s.anchors = Found(s.cals)
      /\ DOMAIN s.cals = s.msg.aggs
  BY DEF GenRows
<1>2. /\ s.msg.id \in Tx /\ \A a \in s.msg.aggs : LeadsTo(a, X)
      /\ Sound(s.cals, CalLeaves) /\ Sound(s.anchors, AnchorLeaves)
  BY <1>1 DEF GenOK, ReadyMsg, CalsInv, AnchorsInv
<1>3. s.msg.aggs \in SUBSET Agg /\ X \in Anchor /\ x \in Anchor
  <2>1. s.msg.aggs \in SUBSET Agg /\ s.anchors \in Rows(Cal, Anchor)
    BY DEF GenState, GenMessage
  <2> QED BY <1>2, <2>1, FoundType, TreesAssumption
<1>4. PICK c \in DOMAIN s.anchors : s.anchors[c] = x /\ x # None
  BY DEF Found
<1>5. PICK a \in s.msg.aggs : s.cals[a] = c /\ c # None
  BY <1>1 DEF Found
<1>6. Under(a, x)
  BY <1>1, <1>2, <1>4, <1>5 DEF Sound, Under
<1>7. PICK d \in Cal : calState[a] = d /\ anchorState[d] = X
  BY <1>2 DEF LeadsTo
<1>8. Under(a, X)
  <2>1. /\ calState \in [Agg -> Cal \cup {None}] /\ anchorState \in [Cal -> Anchor \cup {None}]
        /\ Sound(calState, CalLeaves) /\ Sound(anchorState, AnchorLeaves)
    BY DEF TypeInv, TypeOK, RowInv, TablesSound
  <2>2. a \in CalLeaves[d]
    BY <1>3, <1>7, <2>1, NoneIsNoRow DEF Sound
  <2>3. d \in AnchorLeaves[X]
    BY <1>3, <1>7, <2>1, NoneIsNoRow DEF Sound
  <2> QED BY <2>2, <2>3 DEF Under
<1>9. OneAnchor(a)
  BY <1>3 DEF OneAnchorEach
<1> QED BY <1>3, <1>6, <1>8, <1>9 DEF OneAnchor

LEMMA StepsTake ==
    ASSUME TypeInv, RowInv, GenInv, NEW g \in Generator, NEW m \in genQueue, TakeReady(g, m),
           GenType'
    PROVE  RowInv' /\ GenInv'
<1> DEFINE rows == FromCache(calCache, m.aggs)
<1>0. PICK s : s = [phase |-> IF Missing(rows) = {} THEN "cals" ELSE "calRows", msg |-> m,
                    cals |-> rows, unread |-> Missing(rows), anchors |-> [c \in {} |-> None],
                    anchorId |-> None, tx |-> None]
  OBVIOUS
<1>1. gen' = [gen EXCEPT ![g] = s] /\ UNCHANGED <<stateVars, results>>
  BY <1>0 DEF TakeReady
<1>2. /\ s.phase \in {"cals", "calRows"} /\ s.msg = m /\ s.cals = rows
      /\ s.phase # "calRows" => Missing(rows) = {}
  BY <1>0
<1>3. m \in GenMessage /\ m.aggs \in SUBSET Agg /\ ReadyMsg(m)
      /\ calCache \in [Agg -> Cal \cup {None}] /\ Sound(calCache, CalLeaves)
      /\ gen \in [Generator -> {IdleGen} \cup GenState]
  BY DEF TypeInv, TypeOK, GenInv, GenMessage, GenType, RowInv, TablesSound
<1>4. s \in GenState
  <2>1. s # IdleGen
    BY <1>2 DEF IdleGen
  <2>2. gen'[g] = s
    BY <1>1, <1>3
  <2> QED BY <2>1, <2>2 DEF GenType
<1>5. Sound(rows, CalLeaves)
  BY <1>3, SoundRead
<1> HIDE DEF rows
<1>6. CalsInv(s)
  BY <1>2, <1>5 DEF CalsInv
<1>7. AnchorsInv(s) /\ TxInv(s)
  BY <1>2 DEF AnchorsInv, TxInv, AnchorPhase, HeadPhase
<1>8. UNCHANGED <<queue, handler, tables, early, calCache, anchorCache, txCache, genQueue>>
  BY <1>1 DEF stateVars, caches
<1>9. OneAnchorEach /\ early' = {} => \A x \in Anchor : txCache'[x] # NullEntry
  BY <1>8 DEF GenInv
<1>10. GenInv'
  BY <1>1, <1>2, <1>3, <1>4, <1>6, <1>7, <1>8, <1>9, GensKept DEF GenOK
<1> QED BY <1>8, <1>10, RowsCachesSame

LEMMA StepsCalRows ==
    ASSUME TypeInv, RowInv, GenInv, NEW g \in Generator, GetCalRows(g), GenType'
    PROVE  RowInv' /\ GenInv'
<1> DEFINE rows == FromTable(gen[g].cals, calState)
<1>0. PICK s : s = [gen[g] EXCEPT !.cals = rows, !.phase = "calFill"]
  OBVIOUS
<1>1. /\ gen[g].phase = "calRows" /\ calState \in [Agg -> Cal \cup {None}]
      /\ Sound(calState, CalLeaves) /\ gen \in [Generator -> {IdleGen} \cup GenState]
  BY DEF GetCalRows, TypeInv, TypeOK, GenType, RowInv, TablesSound
<1>2. /\ gen[g] \in GenState /\ GenRows(gen[g]) /\ gen[g].cals \in Rows(Agg, Cal)
      /\ gen[g].msg.aggs \in SUBSET Agg /\ gen[g] # IdleGen
  BY <1>1, BusyGen DEF TypeInv
<1>3. gen' = [gen EXCEPT ![g] = s] /\ UNCHANGED <<stateVars, results>>
  BY <1>0, <1>1 DEF GetCalRows
<1>4. s.phase = "calFill" /\ s.cals = rows /\ s.msg = gen[g].msg
  BY <1>0, <1>2 DEF GenState
<1>5. s \in GenState
  <2>1. s # IdleGen
    BY <1>4 DEF IdleGen
  <2>2. gen'[g] = s
    BY <1>1, <1>3
  <2> QED BY <2>1, <2>2 DEF GenType
<1>6. GenOK(gen[g])
  BY <1>2 DEF GenInv
<1>7. DOMAIN gen[g].cals = gen[g].msg.aggs
  BY <1>2 DEF GenRows
<1>8. Sound(rows, CalLeaves)
  BY <1>1, <1>2, <1>6, <1>7, SoundReadTable DEF GenOK, CalsInv
<1>9. s.msg.type = "btc_batch" => Missing(rows) = {}
  <2> SUFFICES ASSUME s.msg.type = "btc_batch" PROVE Missing(rows) = {}
    OBVIOUS
  <2>1. \A a \in gen[g].msg.aggs : calState[a] # None
    BY <1>4, <1>6, NoneIsNoRow DEF GenOK, ReadyMsg, LeadsTo
  <2> QED BY <1>7, <2>1 DEF Missing, FromTable
<1> HIDE DEF rows
<1>10. CalsInv(s)
  BY <1>4, <1>8, <1>9 DEF CalsInv
<1>11. AnchorsInv(s) /\ TxInv(s) /\ ReadyMsg(s.msg)
  BY <1>4, <1>6 DEF AnchorsInv, TxInv, AnchorPhase, HeadPhase, GenOK
<1>12. UNCHANGED <<queue, handler, tables, early, calCache, anchorCache, txCache, genQueue>>
  BY <1>3 DEF stateVars, caches
<1>13. OneAnchorEach /\ early' = {} => \A x \in Anchor : txCache'[x] # NullEntry
  BY <1>12 DEF GenInv
<1>14. GenInv'
  BY <1>3, <1>5, <1>10, <1>11, <1>12, <1>13, GensKept DEF GenOK
<1> QED BY <1>12, <1>14, RowsCachesSame

LEMMA StepsCalFill ==
    ASSUME TypeInv, RowInv, GenInv, NEW g \in Generator, FillCalCache(g)
    PROVE  RowInv' /\ GenInv'
<1>1. gen[g].phase = "calFill" /\ Sound(calCache, CalLeaves)
  BY DEF FillCalCache, RowInv, TablesSound
<1>2. GenRows(gen[g]) /\ gen[g] # IdleGen
  BY <1>1, BusyGen DEF TypeInv
<1>3. gen[g].unread \subseteq DOMAIN gen[g].cals /\ Sound(gen[g].cals, CalLeaves)
  BY <1>1, <1>2 DEF GenRows, GenInv, GenOK, CalsInv
<1>4. Sound(calCache', CalLeaves)
  BY <1>1, <1>3, SoundFill DEF FillCalCache
<1>5. UNCHANGED <<queue, handler, tables, early, anchorCache, txCache>> /\ Goto(g, "cals")
  BY DEF FillCalCache
<1>6. RowInv'
  BY <1>4, <1>5, RowsByGenerator DEF RowInv, TablesSound
<1>7. OneAnchorEach /\ early' = {} => \A x \in Anchor : txCache'[x] # NullEntry
  BY <1>5 DEF GenInv
<1>8. GenInv'
  BY <1>1, <1>5, <1>7, GotoOK DEF CalPhase, AnchorPhase, HeadPhase
<1> QED BY <1>6, <1>8

LEMMA StepsAnchorCache ==
    ASSUME TypeInv, RowInv, GenInv, NEW g \in Generator, GetAnchorCache(g), GenType'
    PROVE  RowInv' /\ GenInv'
<1> DEFINE rows == FromCache(anchorCache, Found(gen[g].cals))
<1>0. PICK s : s = [gen[g] EXCEPT !.anchors = rows, !.unread = Missing(rows),
                       !.phase = IF Missing(rows) = {} THEN "anchors" ELSE "anchorRows"]
  OBVIOUS
<1>1. /\ gen[g].phase = "cals" /\ gen[g].msg.type = "btc_batch"
      /\ anchorCache \in [Cal -> Anchor \cup {None}]
      /\ Sound(anchorCache, AnchorLeaves) /\ gen \in [Generator -> {IdleGen} \cup GenState]
  BY DEF GetAnchorCache, TypeInv, TypeOK, GenType, RowInv, TablesSound
<1>2. /\ gen[g] \in GenState /\ GenRows(gen[g]) /\ gen[g].cals \in Rows(Agg, Cal)
      /\ gen[g] # IdleGen
  BY <1>1, BusyGen DEF TypeInv
<1>3. UNCHANGED <<queue, handler, tables, early, caches, redis, faults, results, genQueue>>
  BY DEF GetAnchorCache, Nack
<1>4. OneAnchorEach /\ early' = {} => \A x \in Anchor : txCache'[x] # NullEntry
  BY <1>3 DEF GenInv, caches
<1>5. RowInv'
  BY <1>3, RowsCachesSame DEF caches
<1>6. CASE Nack(g)
  BY <1>3, <1>4, <1>5, <1>6, BackOK
<1>7. CASE ~Nack(g)
  <2>1. gen' = [gen EXCEPT ![g] = s]
    BY <1>0, <1>1, <1>7 DEF GetAnchorCache
  <2>2. /\ s.phase \in {"anchors", "anchorRows"} /\ s.anchors = rows /\ s.msg = gen[g].msg
        /\ s.cals = gen[g].cals
        /\ s.phase # "anchorRows" => Missing(rows) = {}
    BY <1>0, <1>2 DEF GenState
  <2>3. s \in GenState
    <3>1. s # IdleGen
      BY <2>2 DEF IdleGen
    <3>2. gen'[g] = s
      BY <1>1, <2>1
    <3> QED BY <3>1, <3>2 DEF GenType
  <2>4. GenOK(gen[g])
    BY <1>2 DEF GenInv
  <2>5. Sound(rows, AnchorLeaves)
    <3>1. Found(gen[g].cals) \in SUBSET Cal
      BY <1>2, FoundType
    <3> QED BY <1>1, <3>1, SoundRead
  <2> HIDE DEF rows
  <2>6. CalsInv(s) /\ ReadyMsg(s.msg)
    BY <1>1, <2>2, <2>4 DEF GenOK, CalsInv
  <2>7. AnchorsInv(s) /\ TxInv(s)
    BY <2>2, <2>5 DEF AnchorsInv, TxInv, HeadPhase
  <2> QED BY <1>3, <1>4, <1>5, <2>1, <2>3, <2>6, <2>7, GensKept DEF GenOK
<1> QED BY <1>6, <1>7

LEMMA StepsAnchorRows ==
    ASSUME TypeInv, RowInv, GenInv, NEW g \in Generator, GetAnchorRows(g), GenType'
    PROVE  RowInv' /\ GenInv'
<1> DEFINE rows == FromTable(gen[g].anchors, anchorState)
<1>0. PICK s : s = [gen[g] EXCEPT !.anchors = rows, !.phase = "anchorFill"]
  OBVIOUS
<1>1. /\ gen[g].phase = "anchorRows" /\ anchorState \in [Cal -> Anchor \cup {None}]
      /\ Sound(anchorState, AnchorLeaves) /\ gen \in [Generator -> {IdleGen} \cup GenState]
  BY DEF GetAnchorRows, TypeInv, TypeOK, GenType, RowInv, TablesSound
<1>2. /\ gen[g] \in GenState /\ GenRows(gen[g]) /\ gen[g].anchors \in Rows(Cal, Anchor)
      /\ gen[g] # IdleGen /\ gen[g].msg.type = "btc_batch"
  BY <1>1, BusyGen DEF TypeInv, GenRows, AnchorPhase
<1>3. gen' = [gen EXCEPT ![g] = s] /\ UNCHANGED <<stateVars, results>>
  BY <1>0, <1>1 DEF GetAnchorRows
<1>4. s.phase = "anchorFill" /\ s.anchors = rows /\ s.cals = gen[g].cals /\ s.msg = gen[g].msg
  BY <1>0, <1>2 DEF GenState
<1>5. s \in GenState
  <2>1. s # IdleGen
    BY <1>4 DEF IdleGen
  <2>2. gen'[g] = s
    BY <1>1, <1>3
  <2> QED BY <2>1, <2>2 DEF GenType
<1>6. GenOK(gen[g])
  BY <1>2 DEF GenInv
<1>7. DOMAIN gen[g].anchors \in SUBSET Cal
  BY <1>2, RowsElim
<1>8. Sound(rows, AnchorLeaves)
  BY <1>1, <1>6, <1>7, SoundReadTable DEF GenOK, AnchorsInv, AnchorPhase
<1>9. s.msg.id \notin early =>
        \A c \in Missing(rows) : c \notin AnchorLeaves[TxAnchor[s.msg.id]]
  <2> SUFFICES ASSUME s.msg.id \notin early
               PROVE  \A c \in Missing(rows) : c \notin AnchorLeaves[TxAnchor[s.msg.id]]
    OBVIOUS
  <2>1. s.msg.id \in Tx /\ ConfirmReady(s.msg.id)
    BY <1>2, <1>4, <1>6 DEF GenOK, ReadyMsg, ReadyOrEarly
  <2>2. Written(anchorState, AnchorLeaves[TxAnchor[s.msg.id]])
    BY <2>1, TreesAssumption DEF ConfirmReady, RowInv, AckedWritten
  <2>3. \A c \in Missing(rows) : anchorState[c] = None
    BY DEF Missing, FromTable
  <2> QED BY <2>2, <2>3 DEF Written
<1> HIDE DEF rows
<1>10. CalsInv(s) /\ ReadyMsg(s.msg)
  BY <1>1, <1>4, <1>6 DEF CalsInv, GenOK
<1>11. AnchorsInv(s) /\ TxInv(s)
  BY <1>4, <1>8, <1>9 DEF AnchorsInv, TxInv, HeadPhase
<1>12. UNCHANGED <<queue, handler, tables, early, calCache, anchorCache, txCache, genQueue>>
  BY <1>3 DEF stateVars, caches
<1>13. OneAnchorEach /\ early' = {} => \A x \in Anchor : txCache'[x] # NullEntry
  BY <1>12 DEF GenInv
<1>14. GenInv'
  BY <1>3, <1>5, <1>10, <1>11, <1>12, <1>13, GensKept DEF GenOK
<1> QED BY <1>12, <1>14, RowsCachesSame

LEMMA StepsAnchorFill ==
    ASSUME TypeInv, RowInv, GenInv, NEW g \in Generator, FillAnchorCache(g)
    PROVE  RowInv' /\ GenInv'
<1>1. gen[g].phase = "anchorFill" /\ Sound(anchorCache, AnchorLeaves)
  BY DEF FillAnchorCache, RowInv, TablesSound
<1>2. GenRows(gen[g]) /\ gen[g] # IdleGen
  BY <1>1, BusyGen DEF TypeInv
<1>3. gen[g].unread \subseteq DOMAIN gen[g].anchors /\ Sound(gen[g].anchors, AnchorLeaves)
  BY <1>1, <1>2 DEF GenRows, GenInv, GenOK, AnchorsInv, AnchorPhase
<1>4. Sound(anchorCache', AnchorLeaves)
  BY <1>1, <1>3, SoundFill DEF FillAnchorCache
<1>5. UNCHANGED <<queue, handler, tables, early, calCache, txCache>> /\ Goto(g, "anchors")
  BY DEF FillAnchorCache
<1>6. RowInv'
  BY <1>4, <1>5, RowsByGenerator DEF RowInv, TablesSound
<1>7. OneAnchorEach /\ early' = {} => \A x \in Anchor : txCache'[x] # NullEntry
  BY <1>5 DEF GenInv
<1>8. GenInv'
  BY <1>1, <1>5, <1>7, GotoOK DEF AnchorPhase, HeadPhase
<1> QED BY <1>6, <1>8

(* A generator takes the row of a transaction of one of its anchors. *)
LEMMA UseTxOK ==
    ASSUME TypeInv, RowInv, GenInv, NEW g \in Generator, gen[g].phase \in {"anchors", "txFill"},
           NEW row, UseTx(g, row), row \in Tx => TxAnchor[row] \in Found(gen[g].anchors), GenType',
           UNCHANGED <<queue, tables, early>>,
           OneAnchorEach /\ early' = {} => \A x \in Anchor : txCache'[x] # NullEntry
    PROVE  GenInv'
<1>1. CASE Abandon(g)
  BY <1>1, BackOK DEF Abandon
<1>2. CASE /\ row \in Tx
           /\ gen' = [gen EXCEPT ![g].tx = row, ![g].phase = "headCache"]
           /\ UNCHANGED <<genQueue, abandoned>>
  <2>0. PICK s : s = [gen[g] EXCEPT !.tx = row, !.phase = "headCache"]
    OBVIOUS
  <2>1. /\ gen[g] \in GenState /\ gen[g] # IdleGen
        /\ gen \in [Generator -> {IdleGen} \cup GenState]
    BY BusyGen DEF TypeInv, GenType
  <2>2. gen' = [gen EXCEPT ![g] = s]
    BY <1>2, <2>0, <2>1
  <2>3. /\ s.phase = "headCache" /\ s.tx = row /\ s.msg = gen[g].msg /\ s.cals = gen[g].cals
        /\ s.anchors = gen[g].anchors
    BY <2>0, <2>1 DEF GenState
  <2>4. s \in GenState
    <3>1. s # IdleGen
      BY <2>3 DEF IdleGen
    <3>2. gen'[g] = s
      BY <2>1, <2>2
    <3> QED BY <3>1, <3>2 DEF GenType
  <2>5. GenOK(gen[g])
    BY <2>1 DEF GenInv
  <2>6. CalsInv(s) /\ ReadyMsg(s.msg)
    BY <2>3, <2>5 DEF GenOK, CalsInv
  <2>7. AnchorsInv(s)
    BY <2>3, <2>5 DEF GenOK, AnchorsInv, AnchorPhase
  <2>8. TxInv(s)
    BY <1>2, <2>3 DEF TxInv
  <2> QED BY <1>2, <2>2, <2>4, <2>6, <2>7, <2>8, GensKept DEF GenOK
<1> QED BY <1>1, <1>2 DEF UseTx

LEMMA StepsTxCache ==
    ASSUME TypeInv, RowInv, GenInv, NEW g \in Generator, GetTxCache(g), GenType'
    PROVE  RowInv' /\ GenInv'
<1> DEFINE ids == Found(gen[g].anchors)
<1>1. /\ gen[g].phase = "anchors" /\ gen \in [Generator -> {IdleGen} \cup GenState]
      /\ UNCHANGED <<queue, handler, tables, early, caches, redis, faults, calProofs, btcProofs, lost>>
  BY DEF GetTxCache, TypeInv, GenType
<1>2. /\ gen[g] \in GenState /\ GenRows(gen[g]) /\ gen[g] # IdleGen
      /\ gen[g].anchors \in Rows(Cal, Anchor)
  BY <1>1, BusyGen DEF TypeInv
<1>3. ids \in SUBSET Anchor
  BY <1>2, FoundType
<1>4. OneAnchorEach /\ early' = {} => \A x \in Anchor : txCache'[x] # NullEntry
  BY <1>1 DEF GenInv, caches
<1>5. RowInv'
  BY <1>1, RowsCachesSame DEF caches
<1>6. CASE Abandon(g)
  BY <1>1, <1>4, <1>5, <1>6, BackOK DEF Abandon
<1>7. ASSUME NEW x \in ids, UseTx(g, txCache[x]) PROVE GenInv'
  <2>1. txCache[x] \in Tx => TxAnchor[txCache[x]] = x
    BY <1>3 DEF RowInv, TablesSound, TxSound
  <2>2. txCache[x] \in Tx => TxAnchor[txCache[x]] \in Found(gen[g].anchors)
    BY <2>1
  <2>3. PICK row : row = txCache[x]
    OBVIOUS
  <2> QED BY <1>1, <1>4, <1>7, <2>2, <2>3, UseTxOK
<1>8. ASSUME NEW x \in ids, gen' = [gen EXCEPT ![g].anchorId = x, ![g].phase = "txRow"],
             UNCHANGED <<genQueue, abandoned>>
      PROVE  GenInv'
  <2>0. PICK s : s = [gen[g] EXCEPT !.anchorId = x, !.phase = "txRow"]
    OBVIOUS
  <2>2. gen' = [gen EXCEPT ![g] = s]
    BY <1>1, <1>8, <2>0
  <2>3. /\ s.phase = "txRow" /\ s.anchorId = x /\ s.msg = gen[g].msg /\ s.cals = gen[g].cals
        /\ s.anchors = gen[g].anchors
    BY <1>2, <2>0 DEF GenState
  <2>4. s \in GenState
    <3>1. s # IdleGen
      BY <2>3 DEF IdleGen
    <3>2. gen'[g] = s
      BY <1>1, <2>2
    <3> QED BY <3>1, <3>2 DEF GenType
  <2>5. GenOK(gen[g])
    BY <1>2 DEF GenInv
  <2>6. CalsInv(s) /\ ReadyMsg(s.msg)
    BY <1>1, <2>3, <2>5 DEF GenOK, CalsInv
  <2>7. AnchorsInv(s)
    BY <1>1, <2>3, <2>5 DEF GenOK, AnchorsInv, AnchorPhase
  <2>8. TxInv(s)
    BY <2>3 DEF TxInv, HeadPhase
  <2> QED BY <1>1, <1>4, <1>8, <2>2, <2>4, <2>6, <2>7, <2>8, GensKept DEF GenOK
<1> HIDE DEF ids
<1>9. GenInv'
  <2>1. \/ Abandon(g)
        \/ \E x \in ids : \/ UseTx(g, txCache[x])
                          \/ /\ gen' = [gen EXCEPT ![g].anchorId = x, ![g].phase = "txRow"]
                             /\ UNCHANGED <<genQueue, abandoned>>
    BY DEF GetTxCache, ids
  <2>2. CASE Abandon(g)
    BY <1>1, <1>4, <2>2, BackOK DEF Abandon
  <2> QED BY <1>7, <1>8, <2>1, <2>2
<1> QED BY <1>5, <1>9

LEMMA StepsTxRow ==
    ASSUME TypeInv, RowInv, GenInv, NEW g \in Generator, GetTxRow(g), GenType'
    PROVE  RowInv' /\ GenInv'
<1>0. PICK s : s = [gen[g] EXCEPT !.tx = txState[gen[g].anchorId], !.phase = "txFill"]
  OBVIOUS
<1>1. /\ gen[g].phase = "txRow" /\ txState \in [Anchor -> Tx \cup {None}]
      /\ TxSound(txState) /\ gen \in [Generator -> {IdleGen} \cup GenState]
  BY DEF GetTxRow, TypeInv, TypeOK, GenType, RowInv, TablesSound
<1>2. /\ gen[g] \in GenState /\ GenRows(gen[g]) /\ gen[g] # IdleGen
      /\ gen[g].msg.type = "btc_batch" /\ gen[g].anchorId \in Anchor
  BY <1>1, BusyGen DEF TypeInv, GenRows, AnchorPhase
<1>3. gen' = [gen EXCEPT ![g] = s] /\ UNCHANGED <<stateVars, results>>
  BY <1>0, <1>1 DEF GetTxRow
<1>4. /\ s.phase = "txFill" /\ s.tx = txState[gen[g].anchorId] /\ s.anchorId = gen[g].anchorId
      /\ s.anchors = gen[g].anchors /\ s.cals = gen[g].cals /\ s.msg = gen[g].msg
  BY <1>0, <1>2 DEF GenState
<1>5. s \in GenState
  <2>1. s # IdleGen
    BY <1>4 DEF IdleGen
  <2>2. gen'[g] = s
    BY <1>1, <1>3
  <2> QED BY <2>1, <2>2 DEF GenType
<1>6. GenOK(gen[g])
  BY <1>2 DEF GenInv
<1>7. CalsInv(s) /\ ReadyMsg(s.msg)
  BY <1>1, <1>4, <1>6 DEF CalsInv, GenOK
<1>8. AnchorsInv(s)
  BY <1>1, <1>4, <1>6 DEF GenOK, AnchorsInv, AnchorPhase
<1>9. OneAnchorEach /\ early = {} => s.tx # None
  <2> SUFFICES ASSUME OneAnchorEach, early = {} PROVE s.tx # None
    OBVIOUS
  <2>1. s.anchorId \in Found(gen[g].anchors)
    BY <1>1, <1>4, <1>6 DEF GenOK, TxInv
  <2>2. s.anchorId = TxAnchor[gen[g].msg.id]
    BY <1>1, <1>2, <1>6, <2>1, OnlyAnchor DEF AnchorPhase
  <2>3. gen[g].msg.id \in Tx /\ TxMsg(gen[g].msg.id) \notin queue
    BY <1>2, <1>6 DEF GenOK, ReadyMsg, ReadyOrEarly, ConfirmReady
  <2> QED BY <1>4, <2>2, <2>3 DEF RowInv, AckedWritten
<1>10. TxInv(s)
  <2>1. s.anchorId \in Found(s.anchors)
    BY <1>1, <1>4, <1>6 DEF GenOK, TxInv
  <2>2. s.tx \in Tx => TxAnchor[s.tx] = s.anchorId
    BY <1>1, <1>2, <1>4 DEF TxSound
  <2>3. s.tx # NullEntry
    BY <1>1, <1>2, <1>4, NoneIsNoRow
  <2> QED BY <1>4, <1>9, <2>1, <2>2, <2>3 DEF TxInv, HeadPhase
<1>11. UNCHANGED <<queue, handler, tables, early, calCache, anchorCache, txCache, genQueue>>
  BY <1>3 DEF stateVars, caches
<1>12. OneAnchorEach /\ early' = {} => \A x \in Anchor : txCache'[x] # NullEntry
  BY <1>11 DEF GenInv
<1>13. GenInv'
  BY <1>3, <1>5, <1>7, <1>8, <1>10, <1>11, <1>12, GensKept DEF GenOK
<1> QED BY <1>11, <1>13, RowsCachesSame

LEMMA StepsTxFill ==
    ASSUME TypeInv, RowInv, GenInv, NEW g \in Generator, FillTxCache(g), GenType'
    PROVE  RowInv' /\ GenInv'
<1>1. /\ gen[g].phase = "txFill" /\ txCache \in [Anchor -> Tx \cup {None, NullEntry}]
      /\ TxSound(txCache)
  BY DEF FillTxCache, TypeInv, TypeOK, RowInv, TablesSound
<1>2. /\ gen[g] \in GenState /\ gen[g] # IdleGen /\ gen[g].tx \in Tx \cup {None, NullEntry}
  BY <1>1, BusyGen DEF TypeInv, GenState
<1>3. TxInv(gen[g])
  BY <1>2 DEF GenInv, GenOK
<1>4. UNCHANGED <<queue, handler, tables, early, calCache, anchorCache>> /\ UseTx(g, gen[g].tx)
  BY DEF FillTxCache
<1>5. TxSound(txCache')
  BY <1>1, <1>2, <1>3, NoneIsNoRow DEF FillTxCache, Entry, TxSound, TxInv
<1>6. RowInv'
  BY <1>4, <1>5, RowsByGenerator DEF RowInv, TablesSound
<1>7. OneAnchorEach /\ early' = {} => \A x \in Anchor : txCache'[x] # NullEntry
  BY <1>1, <1>3 DEF GenInv, TxInv, FillTxCache, Entry
<1>8. gen[g].tx \in Tx => TxAnchor[gen[g].tx] \in Found(gen[g].anchors)
  BY <1>1, <1>3 DEF TxInv
<1>9. PICK row : row = gen[g].tx
  OBVIOUS
<1> QED BY <1>1, <1>4, <1>6, <1>7, <1>8, <1>9, UseTxOK

(* The other steps write no row and no entry that these invariants are     *)
(* about.                                                                  *)
LEMMA StepsHead ==
    ASSUME TypeInv, RowInv, GenInv, NEW g \in Generator,
           GetHeadCache(g) \/ GetHeadRow(g) \/ FillHeadCache(g)
    PROVE  RowInv' /\ GenInv'
<1>1. gen[g].phase \in HeadPhase
      /\ UNCHANGED <<queue, handler, tables, early, calCache, anchorCache, txCache>>
  BY DEF GetHeadCache, GetHeadRow, FillHeadCache, HeadPhase, caches
<1>2. RowInv'
  BY <1>1, RowsCachesSame
<1>3. OneAnchorEach /\ early' = {} => \A x \in Anchor : txCache'[x] # NullEntry
  BY <1>1 DEF GenInv
<1>4. Nack(g) \/ \E p \in {"store", "headRow", "headNull", "headFill"} : Goto(g, p)
  BY DEF GetHeadCache, GetHeadRow, FillHeadCache, UseHead
<1>5. CASE Nack(g)
  BY <1>1, <1>2, <1>3, <1>5, BackOK
<1>6. ASSUME NEW p \in {"store", "headRow", "headNull", "headFill"}, Goto(g, p)
      PROVE  GenInv'
  BY <1>1, <1>3, <1>6, GotoOK DEF AnchorPhase, HeadPhase
<1> QED BY <1>2, <1>4, <1>5, <1>6

LEMMA StepsEnd ==
    ASSUME TypeInv, RowInv, GenInv, NEW g \in Generator,
           StoreProofs(g) \/ RefuseProofs(g) \/ AckProofs(g) \/ FailTxRead(g) \/ AbortGenerator(g)
    PROVE  RowInv' /\ GenInv'
<1>1. UNCHANGED <<queue, handler, tables, early, caches>>
  BY DEF StoreProofs, RefuseProofs, AckProofs, FailTxRead, AbortGenerator
<1>2. RowInv'
  BY <1>1, RowsCachesSame DEF caches
<1>3. OneAnchorEach /\ early' = {} => \A x \in Anchor : txCache'[x] # NullEntry
  BY <1>1 DEF GenInv, caches
<1>4. CASE Ack(g) \/ Nack(g)
  BY <1>1, <1>2, <1>3, <1>4, BackOK
<1>5. CASE StoreProofs(g)
  <2>1. gen[g].phase \in {"cals", "store"} /\ Goto(g, "ack")
    BY <1>5 DEF StoreProofs, Building
  <2> QED BY <1>1, <1>2, <1>3, <2>1, GotoOK DEF AnchorPhase, HeadPhase
<1> QED BY <1>4, <1>5 DEF RefuseProofs, AckProofs, FailTxRead, AbortGenerator, Abandon

LEMMA RowsGeneratorStep ==
    ASSUME TypeInv, RowInv, GenInv, NEW g \in Generator,
           GeneratorStep(g) \/ FailTxRead(g) \/ AbortGenerator(g)
    PROVE  RowInv' /\ GenInv'
<1>1. GenType'
  BY TypeGeneratorStep DEF TypeInv
<1> QED BY <1>1, StepsTake, StepsCalRows, StepsCalFill, StepsAnchorCache, StepsAnchorRows,
           StepsAnchorFill, StepsTxCache, StepsTxRow, StepsTxFill, StepsHead, StepsEnd
        DEF GeneratorStep

(* The state service sends what the generators may rely on. *)
LEMMA SentReady ==
    ASSUME TypeInv, RowInv, NEW h \in Handler, Busy(h), NEW P \in Batches(handler[h].hashes),
           NEW r \in ReadyMessages(handler[h].msg, P)
    PROVE  ReadyMsg(r)
<1>1. PICK m : m = handler[h].msg
  OBVIOUS
<1>2. /\ handler[h] \in HandlerState /\ m \in Message /\ handler[h].hashes \in SUBSET Agg
      /\ (m.type = "anchor_btc_agg_batch" => handler[h].hashes = {})
  BY <1>1, BusyState, TypeParts
<1>3. HandlerWork(handler[h])
  BY DEF RowInv
<1>4. /\ r.id = m.id /\ r.aggs \subseteq handler[h].hashes /\ r.aggs # {}
      /\ r.type = IF m.type = "cal_batch" THEN "cal_batch" ELSE "btc_batch"
  BY <1>1, <1>2, ReadyMessagesOf
<1> SUFFICES ASSUME r.type = "btc_batch" PROVE ReadyMsg(r)
  BY DEF ReadyMsg
<1>5. m.type # "cal_batch" /\ handler[h].hashes # {}
  BY <1>4
<1>6. m.type = "btcmon" /\ m.id \in Tx
  <2>1. m.type # "btctx"
    BY <1>1, <1>3, <1>5 DEF HandlerWork, TxWork
  <2> QED BY <1>2, <1>5, <2>1, MessageKinds
<1>7. MonWork(handler[h])
  BY <1>1, <1>3, <1>6 DEF HandlerWork
<1> QED BY <1>1, <1>4, <1>6, <1>7 DEF MonWork, ReadyMsg

LEMMA GenStateStep ==
    ASSUME TypeInv, RowInv, GenInv, StateStep, UNCHANGED <<gen, results>>
    PROVE  GenInv'
<1>1. RowsKept
  BY KeptByState
<1>2. \A r \in genQueue' : r \in genQueue \/ ReadyMsg(r)
  <2>1. ASSUME NEW h \in Handler, PublishAndAck(h) \/ AbortHandler(h)
        PROVE  \A r \in genQueue' : r \in genQueue \/ ReadyMsg(r)
    <3>1. Busy(h)
      BY <2>1 DEF PublishAndAck, AbortHandler, Busy
    <3>2. PICK P \in Batches(handler[h].hashes) :
             genQueue' \subseteq genQueue \cup ReadyMessages(handler[h].msg, P)
      BY <2>1 DEF PublishAndAck, AbortHandler
    <3>3. \A r \in ReadyMessages(handler[h].msg, P) : ReadyMsg(r)
      BY <3>1, SentReady
    <3> QED BY <3>2, <3>3
  <2>2. CASE UNCHANGED genQueue
    BY <2>2
  <2>3. UNCHANGED genQueue \/ \E h \in Handler : PublishAndAck(h) \/ AbortHandler(h)
    BY DEF StateStep, HandlerStep, TakeMessage, InsertBatch, Upsert, CacheRows, FailRedis,
           DropRedis, OpenRedis
  <2> QED BY <2>1, <2>2, <2>3
<1>3. \A m \in genQueue' : ReadyMsg(m)'
  <2>1. genQueue' \subseteq GenMessage
    BY TypeStateStep DEF TypeInv, TypeOK
  <2> QED BY <1>1, <1>2, <2>1, MessageKept DEF GenInv
<1>4. ASSUME NEW g \in Generator, gen'[g] # IdleGen PROVE GenOK(gen[g])'
  <2>1. PICK r : r = gen[g]
    OBVIOUS
  <2>2. r \in GenState /\ GenOK(r)
    BY <1>4, <2>1 DEF GenInv, TypeInv, GenType
  <2>3. r.msg \in GenMessage
    BY <2>2 DEF GenState
  <2>4. ReadyMsg(r.msg)' /\ CalsInv(r)
    BY <1>1, <2>2, <2>3, MessageKept DEF GenOK
  <2>5. AnchorsInv(r)' /\ TxInv(r)'
    BY <1>1, <2>2 DEF GenOK, AnchorsInv, TxInv, RowsKept
  <2> QED BY <2>1, <2>4, <2>5 DEF GenOK, AnchorsInv, TxInv
<1>5. OneAnchorEach /\ early' = {} => \A x \in Anchor : txCache'[x] # NullEntry
  <2> SUFFICES ASSUME OneAnchorEach, early' = {} PROVE \A x \in Anchor : txCache'[x] # NullEntry
    OBVIOUS
  <2>0. early = {}
    BY <1>1 DEF RowsKept
  <2>1. CASE UNCHANGED txCache
    BY <2>0, <2>1 DEF GenInv
  <2>2. ASSUME NEW h \in Handler, CacheRows(h), handler[h].msg.type = "btctx",
               txCache' = [txCache EXCEPT ![TxAnchor[handler[h].msg.id]] = handler[h].msg.id]
        PROVE  \A x \in Anchor : txCache'[x] # NullEntry
    <3>1. Busy(h)
      BY <2>2 DEF CacheRows, Busy
    <3>2. handler[h].msg.id \in Tx
      BY <2>2, <3>1, BusyState, TypeParts, MessageKinds
    <3>3. txCache \in [Anchor -> Tx \cup {None, NullEntry}]
      BY DEF TypeInv, TypeOK
    <3> QED BY <2>0, <2>2, <3>2, <3>3, NoneIsNoRow DEF GenInv
  <2>3. UNCHANGED txCache \/ \E h \in Handler :
          /\ CacheRows(h) /\ handler[h].msg.type = "btctx"
          /\ txCache' = [txCache EXCEPT ![TxAnchor[handler[h].msg.id]] = handler[h].msg.id]
    <3>1. ASSUME NEW h \in Handler, CacheRows(h)
          PROVE  UNCHANGED txCache \/
                 /\ handler[h].msg.type = "btctx"
                 /\ txCache' = [txCache EXCEPT ![TxAnchor[handler[h].msg.id]] = handler[h].msg.id]
      BY <3>1 DEF CacheRows, caches
    <3> QED BY <3>1 DEF StateStep, HandlerStep, TakeMessage, InsertBatch, Upsert, PublishAndAck,
               AbortHandler, FailRedis, DropRedis, OpenRedis, caches
  <2> QED BY <2>1, <2>2, <2>3
<1> QED BY <1>3, <1>4, <1>5 DEF GenInv

LEMMA RowsInit == Init => RowInv /\ GenInv
<1> SUFFICES ASSUME Init PROVE RowInv /\ GenInv
  OBVIOUS
<1> USE DEF Init, InitState
<1>1. TablesSound
  BY NoneIsNoRow DEF TablesSound, Sound, TxSound
<1>2. AckedWritten
  BY DEF AckedWritten, Message, CalMsg, AnchorMsg, TxMsg, MonMsg
<1>3. \A h \in Handler : ~Busy(h)
  BY DEF Busy, Idle
<1>4. GenInv
  BY NoneIsNoRow DEF GenInv
<1> QED BY <1>1, <1>2, <1>3, <1>4 DEF RowInv

LEMMA RowsStep ==
    ASSUME TypeInv, RowInv, GenInv, [Next]_vars
    PROVE  RowInv' /\ GenInv'
<1>1. CASE UNCHANGED vars
  <2>1. UNCHANGED <<queue, handler, tables, early, calCache, anchorCache, txCache, gen, genQueue>>
    BY <1>1 DEF vars, stateVars, caches
  <2>2. RowInv'
    BY <2>1, RowsCachesSame
  <2>3. GenInv'
    BY <2>1 DEF GenInv, GenOK, ReadyMsg, ReadyOrEarly, ConfirmReady, LeadsTo, AnchorsInv, TxInv, tables
  <2> QED BY <2>2, <2>3
<1>2. CASE Next
  BY <1>2, RowsStateStep, GenStateStep, RowsGeneratorStep DEF Next
<1> QED BY <1>1, <1>2

-----------------------------------------------------------------------------
(* A proof or a message is there until it is dealt with. *)

HandledKept ==
    /\ \A a \in Agg : CalHandled(a) => CalHandled(a)'
    /\ \A a \in Agg : BtcHandled(a) => BtcHandled(a)'

LEMMA GrownHandled ==
    ASSUME genQueue \subseteq genQueue', lost \subseteq lost', calProofs \subseteq calProofs',
           btcProofs \subseteq btcProofs', abandoned \subseteq abandoned'
    PROVE  HandledKept
<1>1. ASSUME NEW a \in Agg, CalHandled(a) PROVE CalHandled(a)'
  BY <1>1 DEF CalHandled, InProgress
<1>2. ASSUME NEW a \in Agg, BtcHandled(a) PROVE BtcHandled(a)'
  BY <1>2 DEF BtcHandled, InProgress
<1> QED BY <1>1, <1>2 DEF HandledKept

LEMMA QueueGrows ==
    ASSUME StateStep
    PROVE  genQueue \subseteq genQueue'
BY DEF StateStep, HandlerStep, TakeMessage, InsertBatch, Upsert, CacheRows, PublishAndAck,
       AbortHandler, FailRedis, DropRedis, OpenRedis

LEMMA HandledByState ==
    ASSUME StateStep, UNCHANGED <<gen, results>>
    PROVE  HandledKept
BY QueueGrows, GrownHandled DEF results

(* Only three steps of a generator change more than its own state. *)
LEMMA GeneratorKinds ==
    ASSUME NEW g \in Generator, GeneratorStep(g) \/ FailTxRead(g) \/ AbortGenerator(g)
    PROVE  \/ UNCHANGED genQueue /\ UNCHANGED results
           \/ StoreProofs(g)
           \/ AckProofs(g)
           \/ /\ Abandon(g)
              /\ gen[g].phase \in {"anchors", "txFill", "txRow", "headRow"}
              /\ UNCHANGED <<lost, calProofs, btcProofs>>
<1>1. ASSUME NEW m \in genQueue, TakeReady(g, m) PROVE UNCHANGED genQueue /\ UNCHANGED results
  BY <1>1 DEF TakeReady, stateVars
<1>2. CASE GetCalRows(g) \/ FillCalCache(g) \/ GetAnchorCache(g) \/ GetAnchorRows(g)
           \/ FillAnchorCache(g)
  BY <1>2 DEF GetCalRows, FillCalCache, GetAnchorCache, GetAnchorRows, FillAnchorCache,
              Goto, Nack, stateVars
<1>3. CASE GetTxCache(g) \/ GetTxRow(g) \/ FillTxCache(g) \/ FailTxRead(g)
  BY <1>3 DEF GetTxCache, GetTxRow, FillTxCache, FailTxRead, UseTx, stateVars, results
<1>4. CASE GetHeadCache(g) \/ GetHeadRow(g) \/ FillHeadCache(g)
  BY <1>4 DEF GetHeadCache, GetHeadRow, FillHeadCache, UseHead, Goto, Nack
<1>5. CASE RefuseProofs(g) \/ AbortGenerator(g)
  BY <1>5 DEF RefuseProofs, AbortGenerator, Nack
<1> QED BY <1>1, <1>2, <1>3, <1>4, <1>5 DEF GeneratorStep

LEMMA HandledByStore ==
    ASSUME NEW g \in Generator, StoreProofs(g)
    PROVE  HandledKept
<1>1. /\ genQueue \subseteq genQueue' /\ lost \subseteq lost' /\ calProofs \subseteq calProofs'
      /\ btcProofs \subseteq btcProofs' /\ abandoned \subseteq abandoned'
  BY DEF StoreProofs, Goto
<1> QED BY <1>1, GrownHandled

LEMMA HandledByAck ==
    ASSUME TypeInv, StoredInv, NEW g \in Generator, AckProofs(g)
    PROVE  HandledKept
<1>1. /\ gen[g].phase = "ack" /\ genQueue' = genQueue \ {gen[g].msg} /\ UNCHANGED results
  BY DEF AckProofs, Ack
<1>2. PICK m : m = gen[g].msg
  OBVIOUS
<1>3. \A a \in m.aggs :
        \/ <<m.type, a>> \in lost
        \/ m.type = "cal_batch" /\ \E d \in Cal : <<a, d>> \in calProofs
        \/ m.type = "btc_batch" /\ \E p \in btcProofs : p.agg = a
  BY <1>1, <1>2 DEF StoredInv
<1>4. ASSUME NEW a \in Agg, CalHandled(a) PROVE CalHandled(a)'
  <2>1. CASE \E n \in genQueue : n # m /\ n.type = "cal_batch" /\ a \in n.aggs
    BY <1>1, <1>2, <2>1 DEF CalHandled, InProgress
  <2>2. CASE m.type = "cal_batch" /\ a \in m.aggs
    BY <1>1, <1>3, <2>2 DEF CalHandled, InProgress, results
  <2>3. CASE <<"cal_batch", a>> \in lost \/ \E d \in Cal : <<a, d>> \in calProofs
    BY <1>1, <2>3 DEF CalHandled, InProgress, results
  <2> QED BY <1>4, <2>1, <2>2, <2>3 DEF CalHandled, InProgress
<1>5. ASSUME NEW a \in Agg, BtcHandled(a) PROVE BtcHandled(a)'
  <2>1. CASE \E n \in genQueue : n # m /\ n.type = "btc_batch" /\ a \in n.aggs
    BY <1>1, <1>2, <2>1 DEF BtcHandled, InProgress
  <2>2. CASE m.type = "btc_batch" /\ a \in m.aggs
    BY <1>1, <1>3, <2>2 DEF BtcHandled, InProgress, results
  <2>3. CASE \/ <<"btc_batch", a>> \in lost
             \/ \E n \in abandoned : n.type = "btc_batch" /\ a \in n.aggs
             \/ \E p \in btcProofs : p.agg = a
    BY <1>1, <2>3 DEF BtcHandled, InProgress, results
  <2> QED BY <1>5, <2>1, <2>2, <2>3 DEF BtcHandled, InProgress
<1> QED BY <1>4, <1>5 DEF HandledKept

LEMMA HandledByAbandon ==
    ASSUME TypeInv, NEW g \in Generator, Abandon(g), gen[g].phase \in AnchorPhase,
           UNCHANGED <<lost, calProofs, btcProofs>>
    PROVE  HandledKept
<1>1. PICK m : m = gen[g].msg
  OBVIOUS
<1>2. m.type = "btc_batch"
  <2>1. gen[g].phase # "idle"
    BY DEF AnchorPhase
  <2> QED BY <1>1, <2>1, BusyGen DEF TypeInv, GenRows
<1>3. genQueue' = genQueue \ {m} /\ abandoned' = abandoned \cup {m}
  BY <1>1 DEF Abandon, Ack
<1>4. ASSUME NEW a \in Agg, CalHandled(a) PROVE CalHandled(a)'
  BY <1>2, <1>3, <1>4 DEF CalHandled, InProgress
<1>5. ASSUME NEW a \in Agg, BtcHandled(a) PROVE BtcHandled(a)'
  <2>1. CASE \E n \in genQueue : n # m /\ n.type = "btc_batch" /\ a \in n.aggs
    BY <1>3, <2>1 DEF BtcHandled, InProgress
  <2>2. CASE a \in m.aggs
    BY <1>2, <1>3, <2>2 DEF BtcHandled
  <2>3. CASE \/ <<"btc_batch", a>> \in lost
             \/ \E n \in abandoned : n.type = "btc_batch" /\ a \in n.aggs
             \/ \E p \in btcProofs : p.agg = a
    BY <1>3, <2>3 DEF BtcHandled, InProgress
  <2> QED BY <1>5, <2>1, <2>2, <2>3 DEF BtcHandled, InProgress
<1> QED BY <1>4, <1>5 DEF HandledKept

LEMMA HandledStep ==
    ASSUME TypeInv, StoredInv, [Next]_vars
    PROVE  HandledKept
<1>1. CASE UNCHANGED vars
  BY <1>1, GrownHandled DEF vars, stateVars, results
<1>2. CASE StateStep /\ UNCHANGED <<gen, results>>
  BY <1>2, HandledByState
<1>3. ASSUME NEW g \in Generator, GeneratorStep(g) \/ FailTxRead(g) \/ AbortGenerator(g)
      PROVE  HandledKept
  <2>1. CASE UNCHANGED genQueue /\ UNCHANGED results
    BY <2>1, GrownHandled DEF results
  <2>2. CASE /\ Abandon(g)
             /\ gen[g].phase \in {"anchors", "txFill", "txRow", "headRow"}
             /\ UNCHANGED <<lost, calProofs, btcProofs>>
    BY <2>2, HandledByAbandon DEF AnchorPhase
  <2> QED BY <1>3, <2>1, <2>2, GeneratorKinds, HandledByStore, HandledByAck
<1> QED BY <1>1, <1>2, <1>3 DEF Next

(* A step is one generator's, and only what stores proofs leads to "ack". *)
LEMMA GenMoves ==
    ASSUME TypeInv, NEW g \in Generator, GeneratorStep(g) \/ FailTxRead(g) \/ AbortGenerator(g)
    PROVE  /\ \A k \in Generator : k # g => gen'[k] = gen[k]
           /\ StoreProofs(g) \/ gen'[g].phase # "ack"
<1>0. gen \in [Generator -> {IdleGen} \cup GenState] /\ GenType
  BY DEF TypeInv, GenType
<1>1. ASSUME Ack(g) \/ Nack(g)
      PROVE  (\A k \in Generator : k # g => gen'[k] = gen[k]) /\ gen'[g].phase # "ack"
  BY <1>0, <1>1 DEF Ack, Nack, IdleGen
<1>2. ASSUME NEW p, p # "ack", Goto(g, p), gen[g].phase # "idle"
      PROVE  (\A k \in Generator : k # g => gen'[k] = gen[k]) /\ gen'[g].phase # "ack"
  <2>1. gen[g] \in GenState
    BY <1>0, <1>2, BusyGen
  <2> QED BY <1>0, <1>2, <2>1 DEF Goto, GenState
<1>3. ASSUME NEW m \in genQueue, TakeReady(g, m)
      PROVE  (\A k \in Generator : k # g => gen'[k] = gen[k]) /\ gen'[g].phase # "ack"
  <2>1. \A k \in Generator : k # g => gen'[k] = gen[k]
    BY <1>0, <1>3 DEF TakeReady
  <2>2. gen'[g].phase \in {"cals", "calRows"}
    BY <1>0, <1>3 DEF TakeReady
  <2> QED BY <2>1, <2>2
<1>4. CASE GetCalRows(g) \/ GetAnchorRows(g) \/ GetTxRow(g)
  <2>1. gen[g] \in GenState
    BY <1>0, <1>4, BusyGen DEF GetCalRows, GetAnchorRows, GetTxRow
  <2> QED BY <1>0, <1>4, <2>1 DEF GetCalRows, GetAnchorRows, GetTxRow, GenState
<1>5. CASE FillCalCache(g) \/ FillAnchorCache(g)
  BY <1>2, <1>5 DEF FillCalCache, FillAnchorCache
<1>6. CASE GetAnchorCache(g)
  <2>1. gen[g] \in GenState
    BY <1>0, <1>6, BusyGen DEF GetAnchorCache
  <2>2. CASE Nack(g)
    BY <1>1, <2>2
  <2>3. CASE ~Nack(g)
    BY <1>0, <1>6, <2>1, <2>3 DEF GetAnchorCache, GenState
  <2> QED BY <2>2, <2>3
<1>7. ASSUME NEW row, UseTx(g, row), gen[g].phase # "idle"
      PROVE  (\A k \in Generator : k # g => gen'[k] = gen[k]) /\ gen'[g].phase # "ack"
  <2>1. gen[g] \in GenState
    BY <1>0, <1>7, BusyGen
  <2>2. CASE Abandon(g)
    BY <1>1, <2>2 DEF Abandon
  <2>3. CASE gen' = [gen EXCEPT ![g].tx = row, ![g].phase = "headCache"]
    BY <1>0, <2>1, <2>3 DEF GenState
  <2> QED BY <1>7, <2>2, <2>3 DEF UseTx
<1>8. CASE GetTxCache(g)
  <2>1. gen[g] \in GenState /\ gen[g].phase # "idle"
    BY <1>0, <1>8, BusyGen DEF GetTxCache
  <2>2. CASE Abandon(g)
    BY <1>1, <2>2 DEF Abandon
  <2>3. ASSUME NEW x, UseTx(g, txCache[x])
        PROVE  (\A k \in Generator : k # g => gen'[k] = gen[k]) /\ gen'[g].phase # "ack"
    <3>1. PICK row : row = txCache[x]
      OBVIOUS
    <3> QED BY <1>7, <2>1, <2>3, <3>1
  <2>4. ASSUME NEW x, gen' = [gen EXCEPT ![g].anchorId = x, ![g].phase = "txRow"]
        PROVE  (\A k \in Generator : k # g => gen'[k] = gen[k]) /\ gen'[g].phase # "ack"
    BY <1>0, <2>1, <2>4 DEF GenState
  <2> QED BY <1>8, <2>2, <2>3, <2>4 DEF GetTxCache
<1>9. CASE FillTxCache(g)
  <2>1. PICK row : row = gen[g].tx
    OBVIOUS
  <2> QED BY <1>7, <1>9, <2>1 DEF FillTxCache
<1>10. CASE GetHeadCache(g) \/ GetHeadRow(g) \/ FillHeadCache(g)
  <2>1. Nack(g) \/ \E p \in {"store", "headRow", "headNull", "headFill"} : Goto(g, p)
    BY <1>10 DEF GetHeadCache, GetHeadRow, FillHeadCache, UseHead
  <2>2. gen[g].phase # "idle"
    BY <1>10 DEF GetHeadCache, GetHeadRow, FillHeadCache
  <2> QED BY <1>1, <1>2, <2>1, <2>2
<1>11. CASE RefuseProofs(g) \/ AckProofs(g) \/ FailTxRead(g) \/ AbortGenerator(g)
  BY <1>1, <1>11 DEF RefuseProofs, AckProofs, FailTxRead, AbortGenerator, Abandon
<1>12. CASE StoreProofs(g)
  <2>1. \A k \in Generator : k # g => gen'[k] = gen[k]
    BY <1>0, <1>12 DEF StoreProofs, Goto
  <2> QED BY <1>12, <2>1
<1> QED BY <1>3, <1>4, <1>5, <1>6, <1>8, <1>9, <1>10, <1>11, <1>12 DEF GeneratorStep

LEMMA ResultsGrow ==
    ASSUME [Next]_vars
    PROVE  lost \subseteq lost' /\ calProofs \subseteq calProofs' /\ btcProofs \subseteq btcProofs'
<1>1. ASSUME NEW g \in Generator, StoreProofs(g)
      PROVE  lost \subseteq lost' /\ calProofs \subseteq calProofs' /\ btcProofs \subseteq btcProofs'
  BY <1>1 DEF StoreProofs
<1>2. ASSUME NEW g \in Generator, AckProofs(g) PROVE UNCHANGED results
  BY <1>2 DEF AckProofs
<1> QED BY <1>1, <1>2, GeneratorKinds DEF Next, vars, results

(* A generator acknowledges its message when its proofs are stored. *)
LEMMA StoredStep ==
    ASSUME TypeInv, StoredInv, [Next]_vars
    PROVE  StoredInv'
<1> DEFINE Stored(m) ==
        \A a \in m.aggs :
           \/ <<m.type, a>> \in lost
           \/ m.type = "cal_batch" /\ \E d \in Cal : <<a, d>> \in calProofs
           \/ m.type = "btc_batch" /\ \E p \in btcProofs : p.agg = a
<1>1. /\ lost \subseteq lost' /\ calProofs \subseteq calProofs' /\ btcProofs \subseteq btcProofs'
  BY ResultsGrow
<1>2. \A m : Stored(m) => Stored(m)'
  BY <1>1
<1>3. ASSUME NEW g \in Generator, gen'[g].phase = "ack", gen'[g] = gen[g]
      PROVE  Stored(gen[g].msg)'
  <2>1. PICK m : m = gen[g].msg
    OBVIOUS
  <2>2. Stored(m)
    BY <1>3, <2>1 DEF StoredInv
  <2>3. Stored(m)'
    BY <1>2, <2>2
  <2> QED BY <1>3, <2>1, <2>3
<1>4. ASSUME NEW g \in Generator, gen'[g].phase = "ack", gen'[g] # gen[g]
      PROVE  Stored(gen[g].msg)'
  <2>1. StoreProofs(g)
    <3>1. ~(StateStep /\ UNCHANGED <<gen, results>>) /\ ~UNCHANGED vars
      BY <1>4 DEF vars
    <3>2. PICK k \in Generator : GeneratorStep(k) \/ FailTxRead(k) \/ AbortGenerator(k)
      BY <3>1 DEF Next
    <3> QED BY <1>4, <3>2, GenMoves
  <2>2. PICK m : m = gen[g].msg
    OBVIOUS
  <2>3. gen'[g].msg = m
    <3>1. gen[g] \in GenState
      BY <2>1, BusyGen DEF StoreProofs, Building, TypeInv
    <3> QED BY <2>1, <2>2, <3>1 DEF StoreProofs, Goto, GenState, TypeInv, GenType
  <2>4. PICK failed \in SUBSET m.aggs :
          /\ lost' = lost \cup {<<m.type, a>> : a \in failed}
          /\ \/ /\ m.type = "cal_batch"
                /\ calProofs' = calProofs \cup {<<a, gen[g].cals[a]>> : a \in m.aggs \ failed}
             \/ /\ m.type = "btc_batch"
                /\ btcProofs' = btcProofs \cup {BtcProof(g, a) : a \in m.aggs \ failed}
    BY <2>1, <2>2 DEF StoreProofs
  <2>5. ASSUME NEW a \in m.aggs
        PROVE  \/ <<m.type, a>> \in lost'
               \/ m.type = "cal_batch" /\ \E d \in Cal : <<a, d>> \in calProofs'
               \/ m.type = "btc_batch" /\ \E p \in btcProofs' : p.agg = a
    <3>1. CASE a \in failed
      BY <2>4, <3>1
    <3>2. CASE a \notin failed /\ m.type = "cal_batch"
      <4>1. <<a, gen[g].cals[a]>> \in calProofs'
        BY <2>4, <3>2
      <4>2. calProofs' \subseteq Agg \X Cal
        BY TypeStep DEF TypeInv, TypeOK
      <4>3. gen[g].cals[a] \in Cal
        BY <4>1, <4>2
      <4> QED BY <3>2, <4>1, <4>3
    <3>3. CASE a \notin failed /\ m.type = "btc_batch"
      <4>1. BtcProof(g, a) \in btcProofs' /\ BtcProof(g, a).agg = a
        BY <2>4, <3>3 DEF BtcProof
      <4> QED BY <3>3, <4>1
    <3> QED BY <2>4, <3>1, <3>2, <3>3
  <2> QED BY <2>3, <2>5
<1> QED BY <1>3, <1>4 DEF StoredInv

-----------------------------------------------------------------------------
(* What only a fault can do. *)

LEMMA FaultsGrow ==
    ASSUME TypeInv, [Next]_vars, faults' = 0
    PROVE  faults = 0
<1>1. faults \in Nat /\ (Fault => faults' # 0)
  BY BatchAssumption DEF TypeInv, TypeOK, Fault
<1>2. CASE UNCHANGED vars
  BY <1>2 DEF vars, stateVars
<1>3. CASE StateStep
  BY <1>1, <1>3 DEF StateStep, HandlerStep, TakeMessage, InsertBatch, Upsert, CacheRows,
                    PublishAndAck, AbortHandler, FailRedis, DropRedis, OpenRedis
<1>4. ASSUME NEW g \in Generator, GeneratorStep(g) \/ FailTxRead(g) \/ AbortGenerator(g)
      PROVE  faults = 0
  <2>1. ASSUME NEW m \in genQueue, TakeReady(g, m) PROVE faults = 0
    BY <2>1 DEF TakeReady, stateVars
  <2>2. CASE GetCalRows(g) \/ FillCalCache(g) \/ GetAnchorCache(g) \/ GetAnchorRows(g)
             \/ FillAnchorCache(g)
    BY <2>2 DEF GetCalRows, FillCalCache, GetAnchorCache, GetAnchorRows, FillAnchorCache, stateVars
  <2>3. CASE GetTxCache(g) \/ GetTxRow(g) \/ FillTxCache(g)
    BY <2>3 DEF GetTxCache, GetTxRow, FillTxCache, stateVars
  <2>4. CASE GetHeadCache(g) \/ GetHeadRow(g) \/ FillHeadCache(g)
    BY <2>4 DEF GetHeadCache, GetHeadRow, FillHeadCache
  <2>5. CASE StoreProofs(g) \/ RefuseProofs(g) \/ AckProofs(g) \/ FailTxRead(g) \/ AbortGenerator(g)
    BY <1>1, <2>5 DEF StoreProofs, RefuseProofs, AckProofs, FailTxRead, AbortGenerator
  <2> QED BY <1>4, <2>1, <2>2, <2>3, <2>4, <2>5 DEF GeneratorStep
<1> QED BY <1>2, <1>3, <1>4 DEF Next

RedisUp == faults = 0 => \A s \in Service : redis[s] = "up"

LEMMA RedisUpStep ==
    ASSUME TypeInv, RedisUp, [Next]_vars
    PROVE  RedisUp'
<1> SUFFICES ASSUME faults' = 0, NEW s \in Service PROVE redis'[s] = "up"
  BY DEF RedisUp
<1>1. \A r \in Service : redis[r] = "up"
  BY FaultsGrow DEF RedisUp
<1>2. faults \in Nat /\ ~Fault
  BY BatchAssumption DEF TypeInv, TypeOK, Fault
<1>3. CASE UNCHANGED vars
  BY <1>1, <1>3 DEF vars, stateVars
<1>4. CASE StateStep
  BY <1>1, <1>2, <1>4 DEF StateStep, HandlerStep, TakeMessage, InsertBatch, Upsert, CacheRows,
                    PublishAndAck, AbortHandler, FailRedis, DropRedis, OpenRedis
<1>5. ASSUME NEW g \in Generator, GeneratorStep(g) \/ FailTxRead(g) \/ AbortGenerator(g)
      PROVE  redis'[s] = "up"
  BY <1>1, <1>5, GeneratorsOnlyRead
<1> QED BY <1>3, <1>4, <1>5 DEF Next

(* A proof is lost only after a fault. *)
LEMMA NothingLostStep ==
    ASSUME TypeInv, RedisUp, NothingLost, [Next]_vars
    PROVE  NothingLost'
<1> SUFFICES ASSUME faults' = 0 PROVE lost' = {}
  BY DEF NothingLost
<1>1. faults = 0 /\ lost = {} /\ redis["gen"] = "up"
  BY FaultsGrow DEF NothingLost, RedisUp, Service
<1>2. ASSUME NEW g \in Generator, StoreProofs(g) PROVE lost' = {}
  <2>1. PICK failed : lost' = lost \cup {<<gen[g].msg.type, a>> : a \in failed}
                      /\ (failed # {} => redis["gen"] = "failing")
    BY <1>2 DEF StoreProofs
  <2>2. failed = {}
    BY <1>1, <2>1
  <2> QED BY <1>1, <2>1, <2>2
<1>3. UNCHANGED lost \/ \E g \in Generator : StoreProofs(g)
  BY GeneratorKinds DEF Next, vars, results, AckProofs
<1> QED BY <1>1, <1>2, <1>3

-----------------------------------------------------------------------------
(* No calendar batch is forgotten. *)

(* What a handler hands on when it acknowledges its message. *)
LEMMA HandedOn ==
    ASSUME TypeInv, NEW h \in Handler, PublishAndAck(h), NEW a \in handler[h].hashes
    PROVE  /\ handler[h].msg.type = "cal_batch" => InProgress("cal_batch", a)'
           /\ handler[h].msg.type # "cal_batch" => InProgress("btc_batch", a)'
<1>1. PICK m : m = handler[h].msg
  OBVIOUS
<1>2. Busy(h)
  BY DEF PublishAndAck, Busy
<1>3. m \in Message /\ handler[h].hashes \in SUBSET Agg
  BY <1>1, <1>2, BusyState, TypeParts
<1>4. PICK P \in Batches(handler[h].hashes) : genQueue' = genQueue \cup ReadyMessages(m, P)
  BY <1>1 DEF PublishAndAck
<1>5. PICK r \in ReadyMessages(m, P) : a \in r.aggs
  BY <1>3, ReadyMessagesOf
<1>6. r.type = IF m.type = "cal_batch" THEN "cal_batch" ELSE "btc_batch"
  BY <1>3, ReadyMessagesOf
<1>7. m.type = "cal_batch" => InProgress("cal_batch", a)'
  BY <1>4, <1>5, <1>6 DEF InProgress
<1>8. m.type # "cal_batch" => InProgress("btc_batch", a)'
  BY <1>4, <1>5, <1>6 DEF InProgress
<1> QED BY <1>1, <1>7, <1>8

(* The only step that takes a message off the queue. *)
LEMMA QueueShrinks ==
    ASSUME [Next]_vars, NEW m \in queue, m \notin queue'
    PROVE  \E h \in Handler : PublishAndAck(h) /\ handler[h].msg = m
<1>1. CASE UNCHANGED vars
  BY <1>1 DEF vars, stateVars
<1>2. CASE StateStep
  BY <1>2 DEF StateStep, HandlerStep, TakeMessage, InsertBatch, Upsert, CacheRows,
              PublishAndAck, AbortHandler, FailRedis, DropRedis, OpenRedis
<1>3. CASE \E g \in Generator : GeneratorStep(g) \/ FailTxRead(g) \/ AbortGenerator(g)
  BY <1>3, GeneratorsOnlyRead
<1> QED BY <1>1, <1>2, <1>3 DEF Next

CalHandedOn ==
    \A c \in Cal : CalMsg(c) \notin queue => \A a \in CalLeaves[c] : CalHandled(a)

LEMMA SameHandedOn ==
    ASSUME TypeInv, NothingLost, CalHandedOn
    PROVE  CalBatchesHandedOn
<1>1. lost # {} => faults > 0
  BY BatchAssumption DEF NothingLost, TypeInv, TypeOK
<1> QED BY <1>1 DEF CalHandedOn, CalBatchesHandedOn, CalHandled, CalMsg, EnqueueFailed

LEMMA CalHandedStep ==
    ASSUME TypeInv, RowInv, StoredInv, CalHandedOn, [Next]_vars
    PROVE  CalHandedOn'
<1> SUFFICES ASSUME NEW c \in Cal, CalMsg(c) \notin queue', NEW a \in CalLeaves[c]
             PROVE  CalHandled(a)'
  BY DEF CalHandedOn, CalMsg
<1>1. a \in Agg
  BY TreesAssumption
<1>2. CASE CalMsg(c) \notin queue
  BY <1>1, <1>2, HandledStep DEF CalHandedOn, HandledKept
<1>3. CASE CalMsg(c) \in queue
  <2>1. PICK h \in Handler : PublishAndAck(h) /\ handler[h].msg = CalMsg(c)
    BY <1>3, QueueShrinks
  <2>2. handler[h].msg.type = "cal_batch" /\ handler[h].msg.id = c
    BY <2>1 DEF CalMsg
  <2>3. Busy(h)
    BY <2>1 DEF PublishAndAck, Busy
  <2>4. handler[h].hashes = CalLeaves[c]
    BY <2>2, <2>3 DEF RowInv, HandlerWork, CalWork
  <2>5. InProgress("cal_batch", a)'
    BY <2>1, <2>2, <2>4, HandedOn
  <2> QED BY <2>5 DEF CalHandled
<1> QED BY <1>2, <1>3

PipelineInv == TypeInv /\ RowInv /\ GenInv /\ StoredInv /\ RedisUp /\ NothingLost

LEMMA PipelineInit == Init => PipelineInv
<1>1. Init => StoredInv /\ RedisUp /\ NothingLost
  BY DEF Init, InitState, StoredInv, IdleGen, RedisUp, NothingLost
<1> QED BY <1>1, InitTypes, RowsInit DEF PipelineInv

LEMMA PipelineStep == PipelineInv /\ [Next]_vars => PipelineInv'
BY TypeStep, RowsStep, StoredStep, RedisUpStep, NothingLostStep DEF PipelineInv

(* A calendar batch is acknowledged only when each of its hashes has a     *)
(* calendar proof, a 'proof ready' message still to be handled, or, after  *)
(* a fault, a proof whose enqueue was seen to fail: only the first two     *)
(* while nothing has failed.                                               *)
THEOREM NoCalBatchForgotten == Spec => []CalBatchesHandedOn
<1>1. Init => PipelineInv /\ CalHandedOn
  <2>1. Init => \A c \in Cal : CalMsg(c) \in queue
    BY DEF Init, InitState, Message, CalMsg
  <2> QED BY <2>1, PipelineInit DEF CalHandedOn
<1>2. PipelineInv /\ CalHandedOn /\ [Next]_vars => PipelineInv' /\ CalHandedOn'
  BY PipelineStep, CalHandedStep DEF PipelineInv
<1>3. PipelineInv /\ CalHandedOn => CalBatchesHandedOn
  BY SameHandedOn DEF PipelineInv
<1> QED BY <1>1, <1>2, <1>3, PTL DEF Spec

-----------------------------------------------------------------------------
(* BTC proofs verify. *)

(* The rows in a complete generator's hands lead from the hash upwards. *)
LEMMA CompleteVerifies ==
    ASSUME TypeInv, RowInv, GenInv, OneAnchorEach, NEW g \in Generator,
           gen[g].phase = "store", Complete(g), NEW a \in gen[g].msg.aggs
    PROVE  Verifies(BtcProof(g, a))
<1> DEFINE s == gen[g]
           c == s.cals[a]
           x == s.anchors[c]
<1>1. /\ s \in GenState /\ GenRows(s) /\ s # IdleGen
  BY BusyGen DEF TypeInv
<1>2. GenOK(s) /\ s.phase \in AnchorPhase /\ s.phase \in HeadPhase
  BY <1>1 DEF GenInv, AnchorPhase, HeadPhase
<1>3. /\ s.msg.type = "btc_batch" /\ DOMAIN s.anchors = Found(s.cals)
      /\ DOMAIN s.cals = s.msg.aggs
  BY <1>1, <1>2 DEF GenRows
<1>4. Missing(s.cals) = {} /\ Missing(s.anchors) = {}
  BY <1>3 DEF Complete
<1>5. c # None /\ c \in DOMAIN s.anchors /\ a \in CalLeaves[c]
  <2>1. Sound(s.cals, CalLeaves)
    BY <1>2 DEF GenOK, CalsInv
  <2> QED BY <1>3, <1>4, <2>1 DEF Missing, Found, Sound
<1>6. x # None /\ x \in Found(s.anchors) /\ c \in AnchorLeaves[x]
  <2>1. Sound(s.anchors, AnchorLeaves)
    BY <1>2 DEF GenOK, AnchorsInv
  <2> QED BY <1>4, <1>5, <2>1 DEF Missing, Found, Sound
<1>7. TxAnchor[s.tx] \in Found(s.anchors)
  BY <1>2 DEF GenOK, TxInv
<1>8. TxAnchor[s.tx] = x
  BY <1>1, <1>2, <1>6, <1>7, OnlyAnchor
<1> QED BY <1>5, <1>6, <1>8 DEF Verifies, BtcProof

(* With every block anchored once, the lookups of a message find anchors.  *)
AnchoredEach == \A c \in Cal : \E x \in Anchor : c \in AnchorLeaves[x]

LEMMA FindsAnchor ==
    ASSUME TypeInv, RowInv, GenInv, OneAnchorEach, AnchoredEach, early = {}, NEW g \in Generator,
           gen[g].phase = "anchors"
    PROVE  Found(gen[g].anchors) # {}
<1> DEFINE s == gen[g]
           X == TxAnchor[s.msg.id]
<1>1. /\ s \in GenState /\ GenRows(s) /\ s # IdleGen /\ s.cals \in Rows(Agg, Cal)
      /\ s.msg.aggs \in SUBSET Agg
  BY BusyGen DEF TypeInv
<1>2. GenOK(s) /\ s.phase \in AnchorPhase
  BY <1>1 DEF GenInv, AnchorPhase
<1>3. /\ s.msg.type = "btc_batch" /\ DOMAIN s.anchors = Found(s.cals)
      /\ DOMAIN s.cals = s.msg.aggs
  BY <1>1, <1>2 DEF GenRows
<1>4. /\ s.msg.id \in Tx /\ s.msg.aggs # {} /\ \A a \in s.msg.aggs : LeadsTo(a, X)
      /\ Sound(s.cals, CalLeaves) /\ Missing(s.cals) = {}
      /\ \A c \in Missing(s.anchors) : c \notin AnchorLeaves[X]
  BY <1>2, <1>3 DEF GenOK, ReadyMsg, CalsInv, AnchorsInv
<1>5. PICK a \in s.msg.aggs : TRUE
  BY <1>4
<1>6. PICK c : c = s.cals[a]
  OBVIOUS
<1>7. c \in Cal /\ c \in DOMAIN s.anchors /\ a \in CalLeaves[c]
  <2>1. s.cals \in [s.msg.aggs -> Cal \cup {None}]
    BY <1>1, <1>3, RowsElim
  <2>2. c # None
    BY <1>3, <1>4, <1>6 DEF Missing
  <2> QED BY <1>3, <1>4, <1>6, <2>1, <2>2 DEF Found, Sound
<1>8. PICK x \in Anchor : c \in AnchorLeaves[x]
  BY <1>7 DEF AnchoredEach
<1>9. Under(a, x)
  BY <1>7, <1>8 DEF Under
<1>10. Under(a, X) /\ X \in Anchor
  <2>1. PICK d \in Cal : calState[a] = d /\ anchorState[d] = X
    BY <1>4 DEF LeadsTo
  <2>2. /\ calState \in [Agg -> Cal \cup {None}] /\ anchorState \in [Cal -> Anchor \cup {None}]
        /\ Sound(calState, CalLeaves) /\ Sound(anchorState, AnchorLeaves)
    BY DEF TypeInv, TypeOK, RowInv, TablesSound
  <2>3. X \in Anchor
    BY <1>4, TreesAssumption
  <2>4. a \in CalLeaves[d]
    BY <1>1, <2>1, <2>2, NoneIsNoRow DEF Sound
  <2>5. d \in AnchorLeaves[X]
    BY <2>1, <2>2, <2>3, NoneIsNoRow DEF Sound
  <2> QED BY <2>3, <2>4, <2>5 DEF Under
<1>11. x = X
  <2>1. OneAnchor(a)
    BY <1>1 DEF OneAnchorEach
  <2> QED BY <1>8, <1>9, <1>10, <2>1 DEF OneAnchor
<1>12. s.anchors[c] # None
  BY <1>4, <1>7, <1>8, <1>11 DEF Missing
<1> QED BY <1>7, <1>12 DEF Found

LEMMA NeverAbandons ==
    ASSUME TypeInv, RowInv, GenInv, RedisUp, OneAnchorEach, AnchoredEach, NEW g \in Generator,
           GeneratorStep(g) \/ FailTxRead(g) \/ AbortGenerator(g), faults = 0, faults' = 0, early = {}
    PROVE  UNCHANGED abandoned
<1>1. CASE FailTxRead(g)
  <2>1. redis["gen"] = "up"
    BY DEF RedisUp, Service
  <2> QED BY <1>1, <2>1 DEF FailTxRead, Fault
<1>2. CASE GetTxCache(g)
  <2>1. gen[g].phase = "anchors"
    BY <1>2 DEF GetTxCache
  <2>2. Found(gen[g].anchors) # {}
    BY <2>1, FindsAnchor
  <2>3. Found(gen[g].anchors) \subseteq Anchor
    BY <2>1, BusyGen, FoundType DEF TypeInv
  <2>4. \A x \in Found(gen[g].anchors) : txCache[x] # None => txCache[x] \in Tx
    BY <2>3 DEF GenInv, TypeInv, TypeOK
  <2> QED BY <1>2, <2>2, <2>4 DEF GetTxCache, UseTx
<1>3. CASE FillTxCache(g)
  <2>1. gen[g].phase = "txFill"
    BY <1>3 DEF FillTxCache
  <2>2. /\ gen[g] # IdleGen /\ gen[g].tx \in Tx \cup {None, NullEntry}
    BY <2>1, BusyGen DEF TypeInv, GenState
  <2>3. gen[g].tx \in Tx
    BY <2>1, <2>2 DEF GenInv, GenOK, TxInv
  <2> QED BY <1>3, <2>3 DEF FillTxCache, UseTx
<1>4. ASSUME NEW m \in genQueue, TakeReady(g, m) PROVE UNCHANGED abandoned
  BY <1>4 DEF TakeReady, results
<1>5. CASE GetCalRows(g) \/ FillCalCache(g) \/ GetAnchorCache(g) \/ GetAnchorRows(g)
           \/ FillAnchorCache(g) \/ GetTxRow(g)
  BY <1>5 DEF GetCalRows, FillCalCache, GetAnchorCache, GetAnchorRows, FillAnchorCache,
              GetTxRow, results
<1>6. CASE GetHeadCache(g) \/ GetHeadRow(g) \/ FillHeadCache(g)
  BY <1>6 DEF GetHeadCache, GetHeadRow, FillHeadCache, results
<1>7. CASE StoreProofs(g) \/ RefuseProofs(g) \/ AckProofs(g) \/ AbortGenerator(g)
  BY <1>7 DEF StoreProofs, RefuseProofs, AckProofs, AbortGenerator, results
<1> QED BY <1>1, <1>2, <1>3, <1>4, <1>5, <1>6, <1>7 DEF GeneratorStep

LEMMA VerifyStep ==
    ASSUME PipelineInv, VerifyInv, [Next]_vars
    PROVE  VerifyInv'
<1>0. TypeInv /\ RowInv /\ GenInv /\ RedisUp /\ RowsKept
  BY KeptByStep DEF PipelineInv
<1>1. ASSUME OneAnchorEach PROVE \A p \in btcProofs' : Verifies(p)
  <2>0. \A p \in btcProofs : Verifies(p)
    BY <1>1 DEF VerifyInv
  <2>1. ASSUME NEW g \in Generator, StoreProofs(g) PROVE \A p \in btcProofs' : Verifies(p)
    <3>1. CASE UNCHANGED btcProofs
      BY <2>0, <3>1
    <3>2. CASE ~UNCHANGED btcProofs
      <4>1. gen[g].phase = "store" /\ Complete(g)
        BY <2>1, <3>2 DEF StoreProofs, Building
      <4>2. PICK failed : btcProofs' = btcProofs \cup {BtcProof(g, a) : a \in gen[g].msg.aggs \ failed}
        BY <2>1, <3>2 DEF StoreProofs
      <4>3. \A a \in gen[g].msg.aggs : Verifies(BtcProof(g, a))
        BY <1>0, <1>1, <4>1, CompleteVerifies
      <4> QED BY <2>0, <4>2, <4>3
    <3> QED BY <3>1, <3>2
  <2>2. UNCHANGED btcProofs \/ \E g \in Generator : StoreProofs(g)
    BY GeneratorKinds DEF Next, vars, results, AckProofs
  <2> QED BY <2>0, <2>1, <2>2
<1>2. ASSUME InOrder' PROVE abandoned' = {}
  <2>1. faults' = 0 /\ early' = {} /\ OneAnchorEach /\ AnchoredEach
    BY <1>2 DEF InOrder, OneAnchorEach, AnchoredEach
  <2>2. faults = 0 /\ early = {}
    BY <1>0, <2>1, FaultsGrow DEF RowsKept
  <2>3. abandoned = {}
    BY <2>1, <2>2 DEF VerifyInv, InOrder, OneAnchorEach, AnchoredEach
  <2>4. UNCHANGED abandoned
    BY <1>0, <2>1, <2>2, NeverAbandons DEF Next, vars, results
  <2> QED BY <2>3, <2>4
<1> QED BY <1>1, <1>2 DEF VerifyInv, OneAnchorEach, Verifies

(* Every BTC proof is made of rows that belong together, if a hash is      *)
(* under one anchor; and when all is in order, no message is given up and  *)
(* no proof is lost.                                                       *)
THEOREM ProofsAlwaysVerify == Spec => []BtcProofsVerify
<1>1. Init => PipelineInv /\ VerifyInv
  BY PipelineInit DEF Init, VerifyInv
<1>2. PipelineInv /\ VerifyInv /\ [Next]_vars => PipelineInv' /\ VerifyInv'
  BY PipelineStep, VerifyStep
<1>3. PipelineInv /\ VerifyInv => BtcProofsVerify
  BY DEF PipelineInv, NothingLost, InOrder, VerifyInv, BtcProofsVerify, OneAnchorEach
<1> QED BY <1>1, <1>2, <1>3, PTL DEF Spec

-----------------------------------------------------------------------------
(* No confirmation is forgotten. *)

(* A handler goes on with its message, or takes one. *)
LEMMA HandlersMove ==
    ASSUME TypeInv, [Next]_vars, NEW h \in Handler, Busy(h)'
    PROVE  \/ /\ Busy(h)
              /\ handler'[h].msg = handler[h].msg
              /\ handler'[h].hashes = handler[h].hashes
           \/ \E m \in queue : TakeMessage(h, m)
<1>0. handler \in [Handler -> {Idle} \cup HandlerState] /\ StateTypes
  BY TypeParts DEF TypeInv
<1>1. CASE UNCHANGED handler
  BY <1>1 DEF Busy
<1>2. ASSUME NEW k \in Handler, NEW m \in queue, TakeMessage(k, m)
      PROVE  UNCHANGED handler[h] \/ TakeMessage(h, m)
  BY <1>0, <1>2 DEF TakeMessage
<1>3. ASSUME NEW k \in Handler, InsertBatch(k) \/ Upsert(k) \/ CacheRows(k)
      PROVE  /\ Busy(h)
             /\ handler'[h].msg = handler[h].msg
             /\ handler'[h].hashes = handler[h].hashes
  <2>1. Busy(k)
    BY <1>3 DEF InsertBatch, Upsert, CacheRows, Busy
  <2>2. handler[k] \in HandlerState
    BY <1>0, <2>1, BusyState
  <2>3. CASE h # k
    <3>1. handler'[h] = handler[h]
      BY <1>0, <1>3, <2>3 DEF InsertBatch, Upsert, CacheRows
    <3> QED BY <3>1 DEF Busy
  <2>4. CASE h = k
    <3>1. handler'[k].msg = handler[k].msg /\ handler'[k].hashes = handler[k].hashes
      <4>1. CASE InsertBatch(k)
        BY <1>0, <2>2, <4>1 DEF InsertBatch, HandlerState
      <4>2. CASE Upsert(k)
        <5>1. handler' = [handler EXCEPT ![k].phase = "cache"]
          BY <4>2 DEF Upsert
        <5> QED BY <1>0, <2>2, <5>1 DEF HandlerState
      <4>3. CASE CacheRows(k)
        <5>1. PICK p : handler' = [handler EXCEPT ![k].phase = p]
          BY <4>3 DEF CacheRows
        <5> QED BY <1>0, <2>2, <5>1 DEF HandlerState
      <4> QED BY <1>3, <4>1, <4>2, <4>3
    <3>2. Busy(k)
      BY <2>1
    <3> QED BY <2>4, <3>1, <3>2
  <2> QED BY <2>3, <2>4
<1>4. ASSUME NEW k \in Handler, PublishAndAck(k) \/ AbortHandler(k)
      PROVE  UNCHANGED handler[h]
  <2>1. handler' = [handler EXCEPT ![k] = Idle]
    BY <1>4 DEF PublishAndAck, AbortHandler
  <2>2. h # k
    BY <1>0, <2>1 DEF Busy, Idle
  <2> QED BY <1>0, <2>1, <2>2
<1>5. CASE \E s \in Service : FailRedis(s) \/ DropRedis(s) \/ OpenRedis(s)
  BY <1>1, <1>5 DEF FailRedis, DropRedis, OpenRedis
<1>6. CASE \E g \in Generator : GeneratorStep(g) \/ FailTxRead(g) \/ AbortGenerator(g)
  BY <1>1, <1>6, GeneratorsOnlyRead
<1>7. CASE UNCHANGED vars
  BY <1>1, <1>7 DEF vars, stateVars
<1>8. UNCHANGED handler[h] => Busy(h)
  BY DEF Busy
<1> QED BY <1>2, <1>3, <1>4, <1>5, <1>6, <1>7, <1>8 DEF Next, StateStep, HandlerStep

LEMMA OneHandlerStep ==
    ASSUME TypeInv, OneHandler, [Next]_vars
    PROVE  OneHandler'
<1> SUFFICES ASSUME faults' = 0
             PROVE  /\ \A h \in Handler : Busy(h)' => handler'[h].msg \in queue'
                    /\ \A h, k \in Handler :
                          Busy(h)' /\ Busy(k)' /\ handler'[h].msg = handler'[k].msg => h = k
  BY DEF OneHandler
<1>0. handler \in [Handler -> {Idle} \cup HandlerState]
  BY DEF TypeInv
<1>1. /\ \A h \in Handler : Busy(h) => handler[h].msg \in queue
      /\ \A h, k \in Handler : Busy(h) /\ Busy(k) /\ handler[h].msg = handler[k].msg => h = k
  BY FaultsGrow DEF OneHandler
<1>2. ASSUME NEW h \in Handler, NEW m \in queue, TakeMessage(h, m)
      PROVE  /\ handler'[h].msg = m /\ queue' = queue
             /\ \A k \in Handler : Busy(k) => handler[k].msg # m
             /\ \A k \in Handler : k # h => handler'[k] = handler[k]
  <2>1. faults \in Nat /\ ~Fault
    BY BatchAssumption DEF TypeInv, TypeOK, Fault
  <2>2. ~InHand(m)
    BY <1>2, <2>1 DEF TakeMessage, IsNext
  <2> QED BY <1>0, <1>2, <2>2 DEF TakeMessage, InHand
<1>3. ASSUME NEW h \in Handler, Busy(h)' PROVE handler'[h].msg \in queue'
  <2>1. CASE \E m \in queue : TakeMessage(h, m)
    BY <1>2, <2>1
  <2>2. CASE Busy(h) /\ handler'[h].msg = handler[h].msg
    <3>1. SUFFICES ASSUME handler[h].msg \notin queue' PROVE FALSE
      BY <2>2
    <3>2. PICK k \in Handler : PublishAndAck(k) /\ handler[k].msg = handler[h].msg
      BY <1>1, <2>2, <3>1, QueueShrinks
    <3>3. k = h
      BY <1>1, <2>2, <3>2 DEF PublishAndAck, Busy
    <3>4. handler'[h] = Idle
      BY <1>0, <3>2, <3>3 DEF PublishAndAck
    <3> QED BY <1>3, <3>4 DEF Busy, Idle
  <2> QED BY <1>3, <2>1, <2>2, HandlersMove
<1>4. ASSUME NEW h \in Handler, NEW k \in Handler, Busy(h)', Busy(k)',
             handler'[h].msg = handler'[k].msg
      PROVE  h = k
  <2>1. CASE Busy(h) /\ handler'[h].msg = handler[h].msg /\ Busy(k) /\ handler'[k].msg = handler[k].msg
    BY <1>1, <1>4, <2>1
  <2>2. ASSUME NEW m \in queue, TakeMessage(h, m) PROVE h = k
    BY <1>2, <1>4, <2>2 DEF Busy
  <2>3. ASSUME NEW m \in queue, TakeMessage(k, m) PROVE h = k
    BY <1>2, <1>4, <2>3 DEF Busy
  <2> QED BY <1>4, <2>1, <2>2, <2>3, HandlersMove
<1> QED BY <1>3, <1>4

(* The rows of a confirmed transaction's hashes are all there before its   *)
(* confirmation is taken: later steps lead no other hash to its anchor.    *)
LEMMA LeadsBack ==
    ASSUME TypeInv, TypeInv', RowInv, RowInv', RowsKept, NEW t \in Tx, ConfirmReady(t),
           NEW a \in Agg, LeadsTo(a, TxAnchor[t])'
    PROVE  LeadsTo(a, TxAnchor[t])
<1> DEFINE x == TxAnchor[t]
<1>1. x \in Anchor
  BY TreesAssumption
<1>2. PICK c \in Cal : calState'[a] = c /\ anchorState'[c] = x
  BY DEF LeadsTo
<1>3. /\ calState' \in [Agg -> Cal \cup {None}]
      /\ anchorState' \in [Cal -> Anchor \cup {None}]
      /\ Sound(calState', CalLeaves) /\ Sound(anchorState', AnchorLeaves)
  BY DEF TypeInv, TypeOK, RowInv, TablesSound, Sound
<1>4. c \in AnchorLeaves[x] /\ a \in CalLeaves[c]
  BY <1>1, <1>2, <1>3, NoneIsNoRow DEF Sound
<1>5. anchorState[c] # None /\ calState[a] # None
  BY <1>1, <1>4 DEF ConfirmReady, RowInv, AckedWritten, Written
<1>6. anchorState[c] = x /\ calState[a] = c
  BY <1>2, <1>5 DEF RowsKept
<1> QED BY <1>6 DEF LeadsTo

(* The row of an anchor is replaced only before the confirmation of the    *)
(* transaction that replaces it.                                           *)
LEMMA NewTxNotReady ==
    ASSUME TypeInv, RowInv, OneHandler, NEW h \in Handler, NEW t \in Tx,
           Upsert(h), handler[h].msg = TxMsg(t),
           Stable(TxAnchor[t]), txState[TxAnchor[t]] # t
    PROVE  ~ConfirmReady(t)
<1>1. Busy(h) /\ TxAnchor[t] \in Anchor
  BY TreesAssumption DEF Upsert, Busy
<1>2. CASE faults = 0
  BY <1>1, <1>2 DEF OneHandler, ConfirmReady
<1>3. CASE OneTx(TxAnchor[t])
  <2> SUFFICES ASSUME ConfirmReady(t) PROVE FALSE
    OBVIOUS
  <2>1. txState[TxAnchor[t]] \in Tx
    BY <1>1 DEF ConfirmReady, RowInv, AckedWritten, TypeInv, TypeOK
  <2>2. TxAnchor[txState[TxAnchor[t]]] = TxAnchor[t]
    BY <1>1, <2>1 DEF RowInv, TablesSound, TxSound
  <2> QED BY <1>3, <2>1, <2>2 DEF OneTx
<1> QED BY <1>2, <1>3 DEF Stable

(* The only step that changes the transaction of an anchor. *)
LEMMA NewTx ==
    ASSUME TypeInv, [Next]_vars, NEW x \in Anchor, NEW t \in Tx, txState'[x] = t, txState[x] # t
    PROVE  \E h \in Handler : Upsert(h) /\ handler[h].msg = TxMsg(t) /\ TxAnchor[t] = x
<1>1. txState' # txState
  OBVIOUS
<1>2. CASE StateStep
  <2>1. PICK h \in Handler : Upsert(h)
    BY <1>1, <1>2 DEF StateStep, HandlerStep, TakeMessage, InsertBatch, CacheRows,
                PublishAndAck, AbortHandler, FailRedis, DropRedis, OpenRedis, tables
  <2>2. handler[h].msg \in Message
    BY <2>1, BusyState, TypeParts DEF Upsert, Busy
  <2>3. /\ handler[h].msg.type = "btctx"
        /\ txState' = [txState EXCEPT ![TxAnchor[handler[h].msg.id]] = handler[h].msg.id]
    BY <1>1, <2>1 DEF Upsert
  <2>4. handler[h].msg.id \in Tx /\ handler[h].msg = TxMsg(handler[h].msg.id)
    BY <2>2, <2>3, MessageKinds
  <2>5. TxAnchor[handler[h].msg.id] = x /\ handler[h].msg.id = t
    BY <2>3, <2>4 DEF TypeInv, TypeOK
  <2> QED BY <2>1, <2>4, <2>5
<1>3. CASE UNCHANGED vars
  BY <1>1, <1>3 DEF vars, stateVars, tables
<1>4. CASE \E g \in Generator : GeneratorStep(g) \/ FailTxRead(g) \/ AbortGenerator(g)
  BY <1>1, <1>4, GeneratorsOnlyRead DEF tables
<1> QED BY <1>2, <1>3, <1>4 DEF Next

LEMMA ConfirmStep ==
    ASSUME TypeInv, TypeInv', RowInv, RowInv', StoredInv, OneHandler, ConfirmInv, [Next]_vars
    PROVE  ConfirmInv'
<1> SUFFICES ASSUME NEW x \in Anchor, Stable(x)', NEW t \in Tx, txState'[x] = t, t \notin early'
             PROVE  /\ \A h \in Handler : Busy(h)' /\ handler'[h].msg = MonMsg(t) =>
                          \A a \in Agg : LeadsTo(a, x)' => a \in handler'[h].hashes
                    /\ MonMsg(t) \notin queue' => \A a \in Agg : LeadsTo(a, x)' => BtcHandled(a)'
  BY DEF ConfirmInv, MonMsg
<1>1. Stable(x) /\ RowsKept /\ HandledKept /\ t \notin early
  BY FaultsGrow, KeptByStep, HandledStep DEF Stable, OneTx, RowsKept
<1>2. TxAnchor[t] = x
  BY DEF TypeInv, RowInv, TablesSound, TxSound
<1>3. ASSUME NEW h \in Handler, Busy(h), handler[h].msg = MonMsg(t)
      PROVE  ConfirmReady(t)
  <2>1. handler[h].msg.type = "btcmon" /\ handler[h].msg.id = t
    BY <1>3 DEF MonMsg
  <2> QED BY <1>1, <1>3, <2>1 DEF RowInv, HandlerWork, MonWork, ReadyOrEarly
<1>4. CASE txState[x] = t
  <2>1. ASSUME NEW h \in Handler, Busy(h)', handler'[h].msg = MonMsg(t),
               NEW a \in Agg, LeadsTo(a, x)'
        PROVE  a \in handler'[h].hashes
    <3>1. CASE Busy(h) /\ handler'[h].msg = handler[h].msg /\ handler'[h].hashes = handler[h].hashes
      <4>1. LeadsTo(a, x)
        BY <1>1, <1>2, <1>3, <2>1, <3>1, LeadsBack
      <4> QED BY <1>1, <1>4, <2>1, <3>1, <4>1 DEF ConfirmInv
    <3>2. ASSUME NEW m \in queue, TakeMessage(h, m) PROVE a \in handler'[h].hashes
      <4>1. handler'[h].msg = m /\ handler'[h].hashes = HashIds(m) /\ UNCHANGED tables
        BY <3>2 DEF TakeMessage, TypeInv
      <4>2. HashIds(m) = HashIdsByBtcTx(t)
        BY <2>1, <4>1 DEF HashIds, MonMsg
      <4>3. LeadsTo(a, x)
        BY <2>1, <4>1 DEF LeadsTo, tables
      <4>4. a \in HashIdsByBtcTx(t)
        BY <1>4, <4>3 DEF LeadsTo, HashIdsByBtcTx
      <4> QED BY <4>1, <4>2, <4>4
    <3> QED BY <2>1, <3>1, <3>2, HandlersMove
  <2>2. ASSUME MonMsg(t) \notin queue', NEW a \in Agg, LeadsTo(a, x)' PROVE BtcHandled(a)'
    <3>1. CASE MonMsg(t) \notin queue
      <4>1. ConfirmReady(t)
        BY <1>1, <3>1 DEF RowInv, AckedWritten, ReadyOrEarly
      <4>2. LeadsTo(a, x)
        BY <1>1, <1>2, <2>2, <4>1, LeadsBack
      <4>3. BtcHandled(a)
        BY <1>1, <1>4, <3>1, <4>2 DEF ConfirmInv
      <4> QED BY <1>1, <4>3 DEF HandledKept
    <3>2. CASE MonMsg(t) \in queue
      <4>1. PICK h \in Handler : PublishAndAck(h) /\ handler[h].msg = MonMsg(t)
        BY <2>2, <3>2, QueueShrinks
      <4>2. Busy(h) /\ handler[h].msg.type # "cal_batch"
        BY <4>1 DEF PublishAndAck, Busy, MonMsg
      <4>3. LeadsTo(a, x)
        BY <1>1, <1>2, <1>3, <2>2, <4>1, <4>2, LeadsBack
      <4>4. a \in handler[h].hashes
        BY <1>1, <1>4, <4>1, <4>2, <4>3 DEF ConfirmInv
      <4>5. InProgress("btc_batch", a)'
        BY <4>1, <4>2, <4>4, HandedOn
      <4> QED BY <4>5 DEF BtcHandled
    <3> QED BY <3>1, <3>2
  <2> QED BY <2>1, <2>2
<1>5. CASE txState[x] # t
  <2>1. PICK k \in Handler : Upsert(k) /\ handler[k].msg = TxMsg(t)
    BY <1>5, NewTx
  <2>2. ~ConfirmReady(t)
    BY <1>1, <1>2, <1>5, <2>1, NewTxNotReady
  <2>3. queue' = queue /\ MonMsg(t) \in queue
    BY <1>1, <2>1, <2>2 DEF Upsert, RowInv, AckedWritten, ReadyOrEarly
  <2>4. ASSUME NEW h \in Handler, Busy(h)', handler'[h].msg = MonMsg(t) PROVE FALSE
    <3>1. CASE Busy(h) /\ handler'[h].msg = handler[h].msg
      BY <1>3, <2>2, <2>4, <3>1
    <3>2. ASSUME NEW m \in queue, TakeMessage(h, m) PROVE FALSE
      BY <1>5, <3>2 DEF TakeMessage, tables
    <3> QED BY <2>4, <3>1, <3>2, HandlersMove
  <2> QED BY <2>3, <2>4
<1> QED BY <1>4, <1>5

LEMMA ConfirmedHandedOn ==
    ASSUME PipelineInv, VerifyInv, ConfirmInv
    PROVE  ConfirmationsHandedOn
<1>0. TypeInv /\ RowInv /\ NothingLost
  BY DEF PipelineInv
<1> SUFFICES ASSUME NEW x \in Anchor, Stable(x), Confirmed(x), NEW a \in Agg, LeadsTo(a, x)
             PROVE  \/ \E p \in btcProofs : p.agg = a
                    \/ InProgress("btc_batch", a)
                    \/ EnqueueFailed("btc_batch", a)
                    \/ GivenUp(a)
  BY DEF ConfirmationsHandedOn, Stable
<1>1. /\ \E t \in Tx : TxAnchor[t] = x
      /\ \A t \in Tx : TxAnchor[t] = x => MonMsg(t) \notin queue /\ t \notin early
  BY DEF Confirmed, MonMsg
<1>2. txState[x] # None
  BY <1>0, <1>1 DEF RowInv, AckedWritten, ReadyOrEarly, ConfirmReady
<1>3. txState[x] \in Tx /\ TxAnchor[txState[x]] = x
  BY <1>0, <1>2 DEF RowInv, TablesSound, TxSound, TypeInv, TypeOK
<1>4. BtcHandled(a)
  BY <1>1, <1>3 DEF ConfirmInv
<1>5. lost # {} => faults > 0
  BY <1>0, BatchAssumption DEF NothingLost, TypeInv, TypeOK
<1>6. abandoned # {} => ~InOrder
  BY DEF VerifyInv
<1> QED BY <1>4, <1>5, <1>6 DEF BtcHandled, EnqueueFailed, GivenUp

(* Once the transactions of an anchor are confirmed, none of them before   *)
(* the rows that its confirmation looks up, each hash that its rows lead   *)
(* to has a BTC proof, a message still to be handled, a proof whose        *)
(* enqueue was seen to fail, or a message that was given up; the last two  *)
(* are out of the question when all is in order.  After a fault an anchor  *)
(* with a second transaction is left out (OneTx).                          *)
THEOREM NoConfirmationForgotten == Spec => []ConfirmationsHandedOn
<1>1. Init => PipelineInv /\ VerifyInv /\ OneHandler /\ ConfirmInv
  <2>1. Init => OneHandler
    BY DEF Init, InitState, OneHandler, Busy, Idle
  <2>2. Init => ConfirmInv
    BY NoneIsNoRow DEF Init, InitState, ConfirmInv
  <2>3. Init => VerifyInv
    BY DEF Init, VerifyInv
  <2> QED BY <2>1, <2>2, <2>3, PipelineInit
<1>2. PipelineInv /\ VerifyInv /\ OneHandler /\ ConfirmInv /\ [Next]_vars
        => PipelineInv' /\ VerifyInv' /\ OneHandler' /\ ConfirmInv'
  <2> SUFFICES ASSUME PipelineInv, VerifyInv, OneHandler, ConfirmInv, [Next]_vars
               PROVE  PipelineInv' /\ VerifyInv' /\ OneHandler' /\ ConfirmInv'
    OBVIOUS
  <2>1. PipelineInv' /\ VerifyInv'
    BY PipelineStep, VerifyStep
  <2>2. OneHandler' /\ ConfirmInv'
    BY <2>1, OneHandlerStep, ConfirmStep DEF PipelineInv
  <2> QED BY <2>1, <2>2
<1>3. PipelineInv /\ VerifyInv /\ ConfirmInv => ConfirmationsHandedOn
  BY ConfirmedHandedOn
<1> QED BY <1>1, <1>2, <1>3, PTL DEF Spec

=============================================================================
