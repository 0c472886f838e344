----------------------------- MODULE ProofState -----------------------------
(***************************************************************************)
(* The proof state service (node-proof-state-service/server.js) and the    *)
(* writing half of its store (node-lib/lib/models/cachedProofState.js).    *)
(*                                                                         *)
(* The service turns the messages of work.proofstate into rows: which      *)
(* calendar block an aggregation is in, which BTC anchor a calendar block  *)
(* is in, the transaction of an anchor and the block that confirmed it.    *)
(* Every row is also put into a Redis cache, which readers try first.      *)
(* Several messages are in progress at once, in this and in other          *)
(* instances, and a message is delivered again until it is acknowledged.   *)
(*                                                                         *)
(* The hashes of an aggregation share its rows: the aggregation stands for *)
(* them.  A batch may hold what an earlier batch held: a calendar interval *)
(* looks back 500 ms, and an anchor run that failed is repeated.           *)
(***************************************************************************)
EXTENDS Naturals, Sequences, FiniteSets, FiniteSetsExt

CONSTANTS
    Agg, Cal, Anchor, Tx,   \* aggregations, cal blocks, btc-a blocks, BTC transactions
    None,                   \* no row, or no cached entry
    NullEntry,              \* the cached entry of a row that was not found
    CalLeaves,              \* the aggregations in each cal block's tree
    AnchorLeaves,           \* the cal blocks in each anchor's tree
    TxAnchor,               \* the anchor each transaction was sent for
    Arrival,                \* the messages in the order in which they were queued
    Handler,                \* message handlers in progress at once
    WriteBatch,             \* CAL_STATE_WRITE_BATCH_SIZE, ANCHOR_BTC_STATE_WRITE_BATCH_SIZE
    GenBatch,               \* CAL_PROOF_GEN_BATCH_SIZE, BTC_PROOF_GEN_BATCH_SIZE
    MaxFaults               \* model bound: failed calls, lost channels and crashes

ASSUME TreesAssumption ==
    /\ CalLeaves \in [Cal -> SUBSET Agg]
    /\ AnchorLeaves \in [Anchor -> SUBSET Cal]
    /\ TxAnchor \in [Tx -> Anchor]
ASSUME BatchAssumption ==
    WriteBatch \in Nat \ {0} /\ GenBatch \in Nat \ {0} /\ MaxFaults \in Nat
ASSUME NoneAssumption ==
    {None, NullEntry} \cap (Agg \cup Cal \cup Anchor \cup Tx) = {} /\ None # NullEntry

(* A message and what it is about: a cal block, an anchor or a transaction. *)
Message ==
    [type : {"cal_batch"}, id : Cal] \cup
    [type : {"anchor_btc_agg_batch"}, id : Anchor] \cup
    [type : {"btctx", "btcmon"}, id : Tx]

ASSUME ArrivalAssumption ==
    /\ Arrival \in Seq(Message)
    /\ \A m \in Message : \E n \in DOMAIN Arrival : Arrival[n] = m
    /\ \A n, k \in DOMAIN Arrival : Arrival[n] = Arrival[k] => n = k

VARIABLES
    queue,          \* messages of work.proofstate that are not yet acknowledged
    handler,        \* progress of each handler
    genQueue,       \* unacknowledged 'proof ready' messages of work.gen
    calState, anchorState, txState, headState,      \* the tables, by primary key
    calCache, anchorCache, txCache, headCache,      \* the Redis keys
    redis,          \* each service's view of Redis
    faults,
    early           \* history: transactions whose confirmation came before its rows

tables == <<calState, anchorState, txState, headState>>
caches == <<calCache, anchorCache, txCache, headCache>>
history == <<faults, early>>

Service == {"state", "gen"}

GenMessage == [type : {"cal_batch", "btc_batch"}, id : Cal \cup Tx, aggs : SUBSET Agg]

(* rest is what stateObjs still holds, batch what has just been inserted,  *)
(* hashes is hashIds.                                                      *)
HandlerState ==
    [phase : {"insert", "cache", "publish"}, msg : Message,
     rest : SUBSET (Agg \cup Cal), batch : SUBSET (Agg \cup Cal), hashes : SUBSET Agg]
Idle == [phase |-> "idle"]

Busy(h) == handler[h].phase # "idle"

(* splice(0, size), in an order that does not matter. *)
FirstOf(S, size) == IF Cardinality(S) <= size THEN {S} ELSE kSubset(size, S)

-----------------------------------------------------------------------------

(* Every message is on the queue from the start: a handler may take it as  *)
(* late as it likes.                                                       *)
InitState ==
    /\ queue = Message
    /\ handler = [h \in Handler |-> Idle]
    /\ genQueue = {}
    /\ calState = [a \in Agg |-> None]
    /\ anchorState = [c \in Cal |-> None]
    /\ txState = [x \in Anchor |-> None]
    /\ headState = [t \in Tx |-> None]
    /\ calCache = [a \in Agg |-> None]
    /\ anchorCache = [c \in Cal |-> None]
    /\ txCache = [x \in Anchor |-> None]
    /\ headCache = [t \in Tx |-> None]
    /\ redis = [s \in Service |-> "up"]
    /\ faults = 0
    /\ early = {}

Fault == faults < MaxFaults /\ faults' = faults + 1

(* The messages that write the rows which the confirmation of a            *)
(* transaction looks up.  Nothing in the code waits for them.              *)
Prerequisites(m) ==
    IF m.type # "btcmon" THEN {}
    ELSE {[type |-> "btctx", id |-> m.id],
          [type |-> "anchor_btc_agg_batch", id |-> TxAnchor[m.id]]}
         \cup [type : {"cal_batch"}, id : AnchorLeaves[TxAnchor[m.id]]]

Leaves(m) ==
    CASE m.type = "cal_batch" -> CalLeaves[m.id]
      [] m.type = "anchor_btc_agg_batch" -> AnchorLeaves[m.id]
      [] OTHER -> {}

(* Plausible bugs in the query of getHashIdsByBtcTxIdAsync: it selects the *)
(* wrong column, asks the cache, or leaves out its WHERE clause.           *)
CalIdsByBtcTx(t) == {c \in Cal : \E x \in Anchor : anchorState[c] = x /\ txState[x] = t}
HashIdsFromCache(t) ==
    {a \in Agg : \E c \in Cal, x \in Anchor :
                    calCache[a] = c /\ anchorCache[c] = x /\ txCache[x] = t}
HashIdsByAnyTx(t) ==
    {a \in Agg : \E c \in Cal, x \in Anchor :
                    calState[a] = c /\ anchorState[c] = x /\ txState[x] # None}

(* getHashIdsByAggIdsAsync (the rows of agg_states were there before the   *)
(* calendar block) and getHashIdsByBtcTxIdAsync, which joins the tables.   *)
HashIdsByBtcTx(t) ==
    {a \in Agg : \E c \in Cal, x \in Anchor :
                    calState[a] = c /\ anchorState[c] = x /\ txState[x] = t}

HashIds(m) ==
    CASE m.type = "cal_batch" -> CalLeaves[m.id]
      [] m.type = "btcmon" -> HashIdsByBtcTx(m.id)
      [] OTHER -> {}

InHand(m) == \E h \in Handler : Busy(h) /\ handler[h].msg = m

(* RabbitMQ delivers in the order of arrival, and again from the front     *)
(* what was handed back.                                                   *)
IsNext(m) ==
    \E n \in DOMAIN Arrival :
        /\ Arrival[n] = m /\ m \in queue /\ ~InHand(m)
        /\ \A k \in 1..(n - 1) : Arrival[k] \in queue => InHand(Arrival[k])

(* A delivery and the handler's first query.  A message in a handler's     *)
(* hands is delivered again only after its channel was lost, while the     *)
(* handler goes on.                                                        *)
TakeMessage(h, m) ==
    /\ ~Busy(h)
    /\ early' = IF Prerequisites(m) \cap queue = {} THEN early ELSE early \cup {m.id}
    /\ \/ IsNext(m) /\ UNCHANGED faults
       \/ m \in queue /\ InHand(m) /\ Fault
    /\ handler' = [handler EXCEPT ![h] =
          [phase |-> "insert", msg |-> m, rest |-> Leaves(m), batch |-> {},
           hashes |-> HashIds(m)]]
    /\ UNCHANGED <<queue, genQueue, tables, caches, redis>>

(* INSERT ... ON CONFLICT DO NOTHING of some rows with the same value. *)
InsertNew(table, keys, value) ==
    [k \in DOMAIN table |-> IF k \in keys /\ table[k] = None THEN value ELSE table[k]]

(* writeCalStateObjectsBulkAsync, writeAnchorBTCAggStateObjectsAsync: the  *)
(* next batch of rows.                                                     *)
InsertBatch(h) ==
    LET m == handler[h].msg IN
    /\ handler[h].phase = "insert"
    /\ m.type \in {"cal_batch", "anchor_btc_agg_batch"}
    /\ \E batch \in FirstOf(handler[h].rest, WriteBatch) :
          /\ handler' = [handler EXCEPT ![h].phase = "cache", ![h].batch = batch,
                                        ![h].rest = @ \ batch]
          /\ \/ /\ m.type = "cal_batch"
                /\ calState' = InsertNew(calState, batch, m.id)
                /\ UNCHANGED anchorState
             \/ /\ m.type = "anchor_btc_agg_batch"
                /\ anchorState' = InsertNew(anchorState, batch, m.id)
                /\ UNCHANGED calState
    /\ UNCHANGED <<queue, genQueue, txState, headState, caches, redis, history>>

(* writeBTCTxStateObjectAsync, writeBTCHeadStateObjectAsync: an upsert. *)
Upsert(h) ==
    LET m == handler[h].msg IN
    /\ handler[h].phase = "insert"
    /\ m.type \in {"btctx", "btcmon"}
    /\ handler' = [handler EXCEPT ![h].phase = "cache"]
    /\ \/ /\ m.type = "btctx"
          /\ txState' = [txState EXCEPT ![TxAnchor[m.id]] = m.id]
          /\ UNCHANGED headState
       \/ /\ m.type = "btcmon"
          /\ headState' = [headState EXCEPT ![m.id] = m.id]
          /\ UNCHANGED txState
    /\ UNCHANGED <<queue, genQueue, calState, anchorState, caches, redis, history>>

(* The rows just written go to Redis, with NX if they were inserted; a     *)
(* Redis error is logged and nothing more.                                 *)
CacheRows(h) ==
    LET m == handler[h].msg
        batch == handler[h].batch IN
    /\ handler[h].phase = "cache"
    /\ handler' = [handler EXCEPT ![h].phase = IF handler[h].rest = {} THEN "publish" ELSE "insert"]
    /\ \/ redis["state"] # "up" /\ UNCHANGED caches
       \/ /\ redis["state"] = "up" /\ m.type = "cal_batch"
          /\ calCache' = InsertNew(calCache, batch, m.id)
          /\ UNCHANGED <<anchorCache, txCache, headCache>>
       \/ /\ redis["state"] = "up" /\ m.type = "anchor_btc_agg_batch"
          /\ anchorCache' = InsertNew(anchorCache, batch, m.id)
          /\ UNCHANGED <<calCache, txCache, headCache>>
       \/ /\ redis["state"] = "up" /\ m.type = "btctx"
          /\ txCache' = [txCache EXCEPT ![TxAnchor[m.id]] = m.id]
          /\ UNCHANGED <<calCache, anchorCache, headCache>>
       \/ /\ redis["state"] = "up" /\ m.type = "btcmon"
          /\ headCache' = [headCache EXCEPT ![m.id] = m.id]
          /\ UNCHANGED <<calCache, anchorCache, txCache>>
    /\ UNCHANGED <<queue, genQueue, tables, redis, history>>

(* The 'proof ready' messages for a set of hashes: splice takes GenBatch   *)
(* of them at a time.                                                      *)
Batches(S) ==
    {P \in SUBSET ((SUBSET S) \ {{}}) :
        /\ UNION P = S
        /\ \A B, C \in P : B = C \/ B \cap C = {}
        /\ \A B \in P : Cardinality(B) <= GenBatch
        /\ Cardinality({B \in P : Cardinality(B) < GenBatch}) <= 1}

ReadyMessages(m, P) ==
    {[type |-> IF m.type = "cal_batch" THEN "cal_batch" ELSE "btc_batch",
      id |-> m.id, aggs |-> B] : B \in P}

(* The messages for the proof generator are sent, then the message is      *)
(* acknowledged, with no I/O event in between.                             *)
PublishAndAck(h) ==
    LET m == handler[h].msg IN
    /\ handler[h].phase = "publish"
    /\ \E P \in Batches(handler[h].hashes) : genQueue' = genQueue \cup ReadyMessages(m, P)
    /\ queue' = queue \ {m}
    /\ handler' = [handler EXCEPT ![h] = Idle]
    /\ UNCHANGED <<tables, caches, redis, history>>

(* A database call fails and the message is nacked, the channel is lost    *)
(* after some of the 'proof ready' messages have left, or the service      *)
(* stops: the message stays on the queue.                                  *)
AbortHandler(h) ==
    LET m == handler[h].msg IN
    /\ Busy(h)
    /\ Fault
    /\ \E P \in Batches(handler[h].hashes) :
          \E sent \in SUBSET ReadyMessages(m, P) :
             /\ sent # {} => handler[h].phase = "publish"
             /\ genQueue' = genQueue \cup sent
    /\ handler' = [handler EXCEPT ![h] = Idle]
    /\ UNCHANGED <<queue, tables, caches, redis, early>>

-----------------------------------------------------------------------------

(* openRedisConnection: commands fail ("failing") until the error event    *)
(* sets redis and taskQueue to null ("null"); a new connection is opened   *)
(* after five seconds.                                                     *)
FailRedis(s) ==
    /\ redis[s] = "up"
    /\ Fault
    /\ redis' = [redis EXCEPT ![s] = "failing"]
    /\ UNCHANGED <<queue, handler, genQueue, tables, caches, early>>

DropRedis(s) ==
    /\ redis[s] = "failing"
    /\ redis' = [redis EXCEPT ![s] = "null"]
    /\ UNCHANGED <<queue, handler, genQueue, tables, caches, history>>

OpenRedis(s) ==
    /\ redis[s] = "null"
    /\ redis' = [redis EXCEPT ![s] = "up"]
    /\ UNCHANGED <<queue, handler, genQueue, tables, caches, history>>

HandlerStep(h) ==
    \/ \E m \in queue : TakeMessage(h, m)
    \/ InsertBatch(h) \/ Upsert(h) \/ CacheRows(h) \/ PublishAndAck(h)

StateStep ==
    \/ \E h \in Handler : HandlerStep(h) \/ AbortHandler(h)
    \/ \E s \in Service : FailRedis(s) \/ DropRedis(s) \/ OpenRedis(s)

=============================================================================
