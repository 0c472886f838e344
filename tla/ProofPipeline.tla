--------------------------- MODULE ProofPipeline ----------------------------
(***************************************************************************)
(* The proof state service together with the proof generation service      *)
(* (node-proof-gen-service/server.js) and the reading half of their common *)
(* store (node-lib/lib/models/cachedProofState.js).                        *)
(*                                                                         *)
(* For each 'proof ready' message the generator collects the rows of the   *)
(* hashes, from the cache where it can and from the database otherwise,    *)
(* joins them into proofs and enqueues the proofs for storage in Resque.   *)
(***************************************************************************)
EXTENDS ProofState

CONSTANT Generator      \* 'proof ready' messages in progress at once

VARIABLES
    gen,        \* progress of each generator
    calProofs,  \* calendar proofs enqueued, as <<agg, cal>>
    btcProofs,  \* BTC proofs enqueued, with the rows each was built from
    lost,       \* proofs whose enqueue failed: the error is only logged
    abandoned   \* messages acknowledged as unrecoverable

results == <<calProofs, btcProofs, lost, abandoned>>
stateVars == <<queue, handler, genQueue, tables, caches, redis, history>>
vars == <<stateVars, gen, results>>

(* cals, anchors, anchorId and tx are calStateLookup, anchorBTCAggState-   *)
(* Lookup, anchorBTCAggId and btcTxStateRow; unread are the keys that had  *)
(* no cached entry.                                                        *)
IdleGen == [phase |-> "idle"]

Init ==
    /\ InitState
    /\ gen = [g \in Generator |-> IdleGen]
    /\ calProofs = {}
    /\ btcProofs = {}
    /\ lost = {}
    /\ abandoned = {}

Found(rows) == {rows[k] : k \in DOMAIN rows} \ {None}
Missing(rows) == {k \in DOMAIN rows : rows[k] = None}

-----------------------------------------------------------------------------

(* A plausible bug: a failed message is nacked without being queued again. *)
NackDropping(g) ==
    gen' = [gen EXCEPT ![g] = IdleGen] /\ genQueue' = genQueue \ {gen[g].msg}

(* The generator acknowledges its message, or hands it back. *)
Ack(g) == gen' = [gen EXCEPT ![g] = IdleGen] /\ genQueue' = genQueue \ {gen[g].msg}
Nack(g) == gen' = [gen EXCEPT ![g] = IdleGen] /\ UNCHANGED genQueue

Goto(g, phase) == gen' = [gen EXCEPT ![g].phase = phase] /\ UNCHANGED genQueue

(* The keys a bulk read finds in Redis; without Redis there are none. *)
FromCache(cache, keys) ==
    [k \in keys |-> IF redis["gen"] = "up" THEN cache[k] ELSE None]

(* The rest comes from the database... *)
FromTable(rows, table) ==
    [k \in DOMAIN rows |-> IF rows[k] = None THEN table[k] ELSE rows[k]]

(* ... and what the database gave is cached, over any entry there is. *)
Fill(cache, keys, rows) ==
    [k \in DOMAIN cache |->
        IF redis["gen"] = "up" /\ k \in keys /\ rows[k] # None THEN rows[k] ELSE cache[k]]

(* A delivery from work.gen; getAggStateObjectsByHashIdsAsync and the      *)
(* first half of getCalStateObjectsByAggIdsAsync.  When exec rejects,      *)
(* redisResults is still undefined and reading it throws: the message is   *)
(* handed back.                                                            *)
TakeReady(g, m) ==
    LET rows == FromCache(calCache, m.aggs) IN
    /\ gen[g].phase = "idle"
    /\ m \in genQueue
    /\ \A k \in Generator : gen[k].phase # "idle" => gen[k].msg # m
    /\ redis["gen"] # "failing"
    /\ gen' = [gen EXCEPT ![g] =
          [phase |-> IF Missing(rows) = {} THEN "cals" ELSE "calRows", msg |-> m,
           cals |-> rows, unread |-> Missing(rows), anchors |-> [c \in {} |-> None],
           anchorId |-> None, tx |-> None]]
    /\ UNCHANGED <<stateVars, results>>

GetCalRows(g) ==
    /\ gen[g].phase = "calRows"
    /\ gen' = [gen EXCEPT ![g].cals = FromTable(@, calState), ![g].phase = "calFill"]
    /\ UNCHANGED <<stateVars, results>>

FillCalCache(g) ==
    /\ gen[g].phase = "calFill"
    /\ calCache' = Fill(calCache, gen[g].unread, gen[g].cals)
    /\ Goto(g, "cals")
    /\ UNCHANGED <<queue, handler, tables, anchorCache, txCache, headCache, redis, history,
                   results>>

(* getAnchorBTCAggStateObjectsByCalIdsAsync, for a 'btc_batch' message. *)
GetAnchorCache(g) ==
    LET rows == FromCache(anchorCache, Found(gen[g].cals)) IN
    /\ gen[g].phase = "cals"
    /\ gen[g].msg.type = "btc_batch"
    /\ \/ redis["gen"] = "failing" /\ Nack(g)
       \/ /\ redis["gen"] # "failing"
          /\ gen' = [gen EXCEPT ![g].anchors = rows, ![g].unread = Missing(rows),
                        ![g].phase = IF Missing(rows) = {} THEN "anchors" ELSE "anchorRows"]
          /\ UNCHANGED genQueue
    /\ UNCHANGED <<queue, handler, tables, caches, redis, history, results>>

GetAnchorRows(g) ==
    /\ gen[g].phase = "anchorRows"
    /\ gen' = [gen EXCEPT ![g].anchors = FromTable(@, anchorState), ![g].phase = "anchorFill"]
    /\ UNCHANGED <<stateVars, results>>

FillAnchorCache(g) ==
    /\ gen[g].phase = "anchorFill"
    /\ anchorCache' = Fill(anchorCache, gen[g].unread, gen[g].anchors)
    /\ Goto(g, "anchors")
    /\ UNCHANGED <<queue, handler, tables, calCache, txCache, headCache, redis, history, results>>

-----------------------------------------------------------------------------

(* "Unrecoverable proof state read error": the message is acknowledged. *)
Abandon(g) == Ack(g) /\ abandoned' = abandoned \cup {gen[g].msg}

(* The use of a row, or of its absence, as btcTxStateRow. *)
UseTx(g, row) ==
    \/ /\ row \in Tx
       /\ gen' = [gen EXCEPT ![g].tx = row, ![g].phase = "headCache"]
       /\ UNCHANGED <<genQueue, abandoned>>
    \/ row \notin Tx /\ Abandon(g)

(* anchorBTCAggIds[0]: the order of the rows is the database's.  Then      *)
(* getBTCTxStateObjectByAnchorBTCAggIdAsync, which logs Redis errors.      *)
GetTxCache(g) ==
    LET ids == Found(gen[g].anchors) IN
    /\ gen[g].phase = "anchors"
    /\ \/ ids = {} /\ Abandon(g)
       \/ \E x \in ids :
            \/ /\ redis["gen"] = "up" /\ txCache[x] # None
               /\ UseTx(g, txCache[x])
            \/ /\ ~(redis["gen"] = "up" /\ txCache[x] # None)
               /\ gen' = [gen EXCEPT ![g].anchorId = x, ![g].phase = "txRow"]
               /\ UNCHANGED <<genQueue, abandoned>>
    /\ UNCHANGED <<queue, handler, tables, caches, redis, history, calProofs, btcProofs, lost>>

GetTxRow(g) ==
    /\ gen[g].phase = "txRow"
    /\ gen' = [gen EXCEPT ![g].tx = txState[gen[g].anchorId], ![g].phase = "txFill"]
    /\ UNCHANGED <<stateVars, results>>

(* The result is cached, the absence of a row included. *)
Entry(row) == IF row = None THEN NullEntry ELSE row

FillTxCache(g) ==
    /\ gen[g].phase = "txFill"
    /\ txCache' = IF redis["gen"] = "up"
                    THEN [txCache EXCEPT ![gen[g].anchorId] = Entry(gen[g].tx)] ELSE txCache
    /\ UseTx(g, gen[g].tx)
    /\ UNCHANGED <<queue, handler, tables, calCache, anchorCache, headCache, redis, history,
                   calProofs, btcProofs, lost>>

(* getBTCHeadStateObjectByBTCTxIdAsync.  A missing row makes the proofs'   *)
(* construction throw, outside the inner try block.                        *)
UseHead(g, row) ==
    \/ row \in Tx /\ Goto(g, "store")
    \/ row \notin Tx /\ Nack(g)

GetHeadCache(g) ==
    LET t == gen[g].tx IN
    /\ gen[g].phase = "headCache"
    /\ IF redis["gen"] = "up" /\ headCache[t] # None THEN UseHead(g, headCache[t])
                                                     ELSE Goto(g, "headRow")
    /\ UNCHANGED <<queue, handler, tables, caches, redis, history, results>>

GetHeadRow(g) ==
    /\ gen[g].phase = "headRow"
    /\ Goto(g, IF headState[gen[g].tx] = None THEN "headNull" ELSE "headFill")
    /\ UNCHANGED <<queue, handler, tables, caches, redis, history, results>>

FillHeadCache(g) ==
    LET t == gen[g].tx
        row == IF gen[g].phase = "headFill" THEN t ELSE None IN
    /\ gen[g].phase \in {"headNull", "headFill"}
    /\ headCache' = IF redis["gen"] = "up" THEN [headCache EXCEPT ![t] = Entry(row)]
                                           ELSE headCache
    /\ UseHead(g, row)
    /\ UNCHANGED <<queue, handler, tables, calCache, anchorCache, txCache, redis, history,
                   results>>

(* A database error inside the inner try block: a fault of its own, or the *)
(* one that has already cost the service its Redis.                        *)
FailTxRead(g) ==
    /\ gen[g].phase \in {"txRow", "headRow"}
    /\ IF redis["gen"] = "up" THEN Fault ELSE UNCHANGED faults
    /\ Abandon(g)
    /\ UNCHANGED <<queue, handler, tables, caches, redis, early, calProofs, btcProofs, lost>>

-----------------------------------------------------------------------------

(* The proofs can be put together: every lookup finds its row. *)
Complete(g) ==
    /\ Missing(gen[g].cals) = {}
    /\ gen[g].msg.type = "btc_batch" => Missing(gen[g].anchors) = {}

Building(g) ==
    \/ gen[g].phase = "cals" /\ gen[g].msg.type = "cal_batch"
    \/ gen[g].phase = "store"

BtcProof(g, a) ==
    LET c == gen[g].cals[a] IN
    [agg |-> a, cal |-> c, anchor |-> gen[g].anchors[c], tx |-> gen[g].tx]

(* addCalendarBranch, addBtcBranch and storeProofsAsync (the 'resque'      *)
(* flow): a lookup that fails or a taskQueue that is null (a Redis outage) *)
(* hands the message back; an enqueue that fails loses its proof.          *)
StoreProofs(g) ==
    LET m == gen[g].msg IN
    /\ Building(g)
    /\ Complete(g)
    /\ redis["gen"] # "null"
    /\ \E failed \in SUBSET m.aggs :
          /\ failed # {} => redis["gen"] = "failing"
          /\ lost' = lost \cup {<<m.type, a>> : a \in failed}
          /\ \/ /\ m.type = "cal_batch"
                /\ calProofs' = calProofs \cup {<<a, gen[g].cals[a]>> : a \in m.aggs \ failed}
                /\ UNCHANGED btcProofs
             \/ /\ m.type = "btc_batch"
                /\ btcProofs' = btcProofs \cup {BtcProof(g, a) : a \in m.aggs \ failed}
                /\ UNCHANGED calProofs
    /\ Goto(g, "ack")
    /\ UNCHANGED <<queue, handler, tables, caches, redis, history, abandoned>>

RefuseProofs(g) ==
    /\ Building(g)
    /\ ~Complete(g) \/ redis["gen"] = "null"
    /\ Nack(g)
    /\ UNCHANGED <<queue, handler, tables, caches, redis, history, results>>

AckProofs(g) ==
    /\ gen[g].phase = "ack"
    /\ Ack(g)
    /\ UNCHANGED <<queue, handler, tables, caches, redis, history, results>>

(* A database error outside the inner try block, a lost channel, or the    *)
(* end of the service. *)
AbortGenerator(g) ==
    /\ gen[g].phase # "idle"
    /\ Fault
    /\ Nack(g)
    /\ UNCHANGED <<queue, handler, tables, caches, redis, early, results>>

GeneratorStep(g) ==
    \/ \E m \in genQueue : TakeReady(g, m)
    \/ GetCalRows(g) \/ FillCalCache(g)
    \/ GetAnchorCache(g) \/ GetAnchorRows(g) \/ FillAnchorCache(g)
    \/ GetTxCache(g) \/ GetTxRow(g) \/ FillTxCache(g)
    \/ GetHeadCache(g) \/ GetHeadRow(g) \/ FillHeadCache(g)
    \/ StoreProofs(g) \/ RefuseProofs(g) \/ AckProofs(g)

Next ==
    \/ StateStep /\ UNCHANGED <<gen, results>>
    \/ \E g \in Generator : GeneratorStep(g) \/ FailTxRead(g) \/ AbortGenerator(g)

Spec == Init /\ [][Next]_vars

-----------------------------------------------------------------------------

(* Types of the variables: tables and caches map keys to values of the     *)
(* right kind, only BTC rows may be cached as missing, and 'proof ready'   *)
(* messages are about aggregations.                                        *)
TypeOK ==
    /\ queue \subseteq Message
    /\ \A h \in Handler : handler[h] = Idle \/ handler[h] \in HandlerState
    /\ genQueue \subseteq GenMessage
    /\ calState \in [Agg -> Cal \cup {None}]
    /\ anchorState \in [Cal -> Anchor \cup {None}]
    /\ txState \in [Anchor -> Tx \cup {None}]
    /\ headState \in [Tx -> Tx \cup {None}]
    /\ calCache \in [Agg -> Cal \cup {None}]
    /\ anchorCache \in [Cal -> Anchor \cup {None}]
    /\ txCache \in [Anchor -> Tx \cup {None, NullEntry}]
    /\ headCache \in [Tx -> Tx \cup {None, NullEntry}]
    /\ redis \in [Service -> {"up", "failing", "null"}]
    /\ calProofs \subseteq Agg \X Cal
    /\ btcProofs \subseteq [agg : Agg, cal : Cal, anchor : Anchor, tx : Tx]
    /\ lost \subseteq {"cal_batch", "btc_batch"} \X Agg
    /\ abandoned \subseteq GenMessage
    /\ faults \in 0..MaxFaults
    /\ early \subseteq Tx

(* A 'proof ready' message about the hash is still to be handled. *)
InProgress(type, a) == \E m \in genQueue : m.type = type /\ a \in m.aggs

(* The generator acknowledged its message although the enqueue of this     *)
(* hash's proof failed: "Could not enqueue", and nothing more.             *)
EnqueueFailed(type, a) == <<type, a>> \in lost /\ faults > 0

(* "New messages have been published, ack consumption of original message" *)
(* A calendar batch is acknowledged only when each of its hashes has a     *)
(* calendar proof, a 'proof ready' message still to be handled, or, after  *)
(* a fault, a proof whose enqueue was seen to fail.  Without a fault there *)
(* is no third possibility.                                                *)
CalBatchesHandedOn ==
    \A c \in Cal : [type |-> "cal_batch", id |-> c] \notin queue =>
        \A a \in CalLeaves[c] :
            \/ \E d \in Cal : <<a, d>> \in calProofs
            \/ InProgress("cal_batch", a)
            \/ EnqueueFailed("cal_batch", a)

(* The rows of an aggregation lead to the anchor. *)
LeadsTo(a, x) == \E c \in Cal : calState[a] = c /\ anchorState[c] = x

(* One transaction was sent for the anchor. *)
OneTx(x) == \A t, u \in Tx : TxAnchor[t] = x /\ TxAnchor[u] = x => t = u

(* The trees lead from the aggregation to the anchor. *)
Under(a, x) == \E c \in AnchorLeaves[x] : a \in CalLeaves[c]

OneAnchor(a) == \A x, y \in Anchor : Under(a, x) /\ Under(a, y) => x = y

(* Nothing failed, no confirmation came before its rows, and the trees put *)
(* each hash under one anchor and each calendar block under some anchor.   *)
InOrder ==
    /\ faults = 0
    /\ early = {}
    /\ \A a \in Agg : OneAnchor(a)
    /\ \A c \in Cal : \E x \in Anchor : c \in AnchorLeaves[x]

(* The generator acknowledged a message about the hash as unrecoverable.   *)
GivenUp(a) == ~InOrder /\ \E m \in abandoned : m.type = "btc_batch" /\ a \in m.aggs

(* The transactions sent for the anchor have been confirmed, each after    *)
(* the rows that its confirmation looks up.                                *)
Confirmed(x) ==
    /\ \E t \in Tx : TxAnchor[t] = x
    /\ \A t \in Tx : TxAnchor[t] = x =>
          [type |-> "btcmon", id |-> t] \notin queue /\ t \notin early

(* Once the transactions of an anchor are confirmed, each hash whose rows  *)
(* lead to it has a BTC proof, a message still to be handled, a proof      *)
(* whose enqueue was seen to fail (after a fault), or a message that was   *)
(* given up (not when all is in order).  Two things are left out by name:  *)
(* a confirmation taken before its rows were written (Confirmed), whose    *)
(* query misses hashes; and, after a fault, an anchor with a second        *)
(* transaction (OneTx), where the upsert of a message that is handled      *)
(* again may put the first one back after the query of the second one's    *)
(* confirmation.                                                           *)
ConfirmationsHandedOn ==
    \A x \in Anchor :
        Confirmed(x) /\ (faults = 0 \/ OneTx(x)) =>
            \A a \in Agg : LeadsTo(a, x) =>
                \/ \E p \in btcProofs : p.agg = a
                \/ InProgress("btc_batch", a)
                \/ EnqueueFailed("btc_batch", a)
                \/ GivenUp(a)

(* A proof can be verified: each part extends the one before it. *)
Verifies(p) ==
    /\ p.agg \in CalLeaves[p.cal]
    /\ p.cal \in AnchorLeaves[p.anchor]
    /\ TxAnchor[p.tx] = p.anchor

(* Every BTC proof is made of rows that belong together, and "any of these *)
(* calls fail, there is an unrecoverable problem": when all is in order,   *)
(* no message comes to that and no proof is lost.  Not so for a hash whose *)
(* cached row names a calendar block that no anchor holds yet, where the   *)
(* look-back has put the hash in an anchored one as well.                  *)
BtcProofsVerify ==
    /\ (\A a \in Agg : OneAnchor(a)) => \A p \in btcProofs : Verifies(p)
    /\ InOrder => abandoned = {} /\ lost = {}

=============================================================================
