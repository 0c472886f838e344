----------------------------- MODULE Aggregator -----------------------------
(***************************************************************************)
(* The aggregator service (node-aggregator-service/server.js) between the  *)
(* work.agg queue, filled by the API, and the agg_states table, filled by  *)
(* ConsumeAggregationMessageAsync of the proof state service.              *)
(*                                                                         *)
(* Several instances consume hash messages into HASHES and, on a timer,    *)
(* turn up to HASHES_PER_MERKLE_TREE of them into a Merkle tree, publish   *)
(* the tree and acknowledge the messages.  RabbitMQ numbers deliveries per *)
(* channel and requeues what a lost channel has not acknowledged; what an  *)
(* instance has written to its socket is lost from some frame on.          *)
(***************************************************************************)
EXTENDS Naturals, Sequences, FiniteSets

CONSTANTS
    Instance,       \* aggregator processes
    Hash,           \* submitted hashes, one message each
    NoTree,         \* no row in agg_states
    TreeSize,       \* HASHES_PER_MERKLE_TREE
    MaxFaults       \* model bound: lost channels and failed aggregations

ASSUME BoundsAssumption == TreeSize \in Nat \ {0} /\ MaxFaults \in Nat
ASSUME NoTreeAssumption == NoTree \notin Nat

VARIABLES
    message,    \* each hash's message in RabbitMQ
    out,        \* unacknowledged deliveries of each instance's channel
    lastTag,    \* delivery tags are counted per channel
    channel,    \* "closed" while amqpChannel is null, else "open"
    HASHES,     \* the work array of each instance
    wire,       \* frames written to the socket and not yet received
    trees,      \* aggregation messages received on work.proofstate
    aggStates,  \* index of the tree each row of agg_states belongs to
    faults

broker == <<message, out, lastTag>>
vars == <<broker, channel, HASHES, wire, trees, aggStates, faults>>

Delivery == [tag : Nat, hash : Hash]

(* What an instance writes: an aggregation, or a settled delivery. *)
Publish(tree) == [kind |-> "publish", tree |-> tree, tag |-> 0]
Settle(kind, tag) == [kind |-> kind, tree |-> {}, tag |-> tag]
Frame == [kind : {"publish", "ack", "nack"}, tree : SUBSET Hash, tag : Nat]

(* Mutant: the leaves are the messages' delivery tags. *)
TagsOf(batch) == {batch[k].tag : k \in DOMAIN batch}

HashesOf(batch) == {batch[k].hash : k \in DOMAIN batch}

SettleAll(kind, batch) == [k \in DOMAIN batch |-> Settle(kind, batch[k].tag)]

-----------------------------------------------------------------------------

Init ==
    /\ message = [h \in Hash |-> "unsent"]
    /\ out = [i \in Instance |-> {}]
    /\ lastTag = [i \in Instance |-> 0]
    /\ channel = [i \in Instance |-> "open"]
    /\ HASHES = [i \in Instance |-> <<>>]
    /\ wire = [i \in Instance |-> <<>>]
    /\ trees = <<>>
    /\ aggStates = [h \in Hash |-> NoTree]
    /\ faults = 0

Fault == faults < MaxFaults /\ faults' = faults + 1

(* The API queues a hash. *)
SubmitHash(h) ==
    /\ message[h] = "unsent"
    /\ message' = [message EXCEPT ![h] = "ready"]
    /\ UNCHANGED <<out, lastTag, channel, HASHES, wire, trees, aggStates, faults>>

(* A delivery on an open channel: consumeHashMessage pushes it on HASHES.  *)
ConsumeHashMessage(i, h) ==
    LET delivery == [tag |-> lastTag[i] + 1, hash |-> h] IN
    /\ channel[i] = "open"
    /\ message[h] = "ready"
    /\ message' = [message EXCEPT ![h] = "delivered"]
    /\ lastTag' = [lastTag EXCEPT ![i] = @ + 1]
    /\ out' = [out EXCEPT ![i] = @ \cup {delivery}]
    /\ HASHES' = [HASHES EXCEPT ![i] = Append(@, delivery)]
    /\ UNCHANGED <<channel, wire, trees, aggStates, faults>>

(* HASHES.splice(0, env.HASHES_PER_MERKLE_TREE) *)
BatchSize(i) == IF Len(HASHES[i]) < TreeSize THEN Len(HASHES[i]) ELSE TreeSize
Batch(i) == SubSeq(HASHES[i], 1, BatchSize(i))
Rest(i) == SubSeq(HASHES[i], BatchSize(i) + 1, Len(HASHES[i]))

(* Mutants of Aggregate: the acks leave before the tree; slice is called   *)
(* in place of splice, so the batch stays in HASHES.                       *)
AggregateAfterAck(i) ==
    /\ channel[i] = "open"
    /\ HASHES[i] # <<>>
    /\ HASHES' = [HASHES EXCEPT ![i] = Rest(i)]
    /\ wire' = [wire EXCEPT ![i] =
                  @ \o SettleAll("ack", Batch(i)) \o <<Publish(HashesOf(Batch(i)))>>]
    /\ UNCHANGED <<broker, channel, trees, aggStates, faults>>

AggregateKeepingBatch(i) ==
    /\ channel[i] = "open"
    /\ HASHES[i] # <<>>
    /\ wire' = [wire EXCEPT ![i] =
                  @ \o <<Publish(HashesOf(Batch(i)))>> \o SettleAll("ack", Batch(i))]
    /\ UNCHANGED <<broker, channel, HASHES, trees, aggStates, faults>>

(* aggregateAsync: no I/O event comes between the publish and the acks, so *)
(* the timer callback is one step; the frames leave in this order.         *)
Aggregate(i) ==
    /\ channel[i] = "open"
    /\ HASHES[i] # <<>>
    /\ HASHES' = [HASHES EXCEPT ![i] = Rest(i)]
    /\ wire' = [wire EXCEPT ![i] =
                  @ \o <<Publish(HashesOf(Batch(i)))>> \o SettleAll("ack", Batch(i))]
    /\ UNCHANGED <<broker, channel, trees, aggStates, faults>>

(* Mutant: the failed messages are dropped without a nack. *)
FailAggregationSilently(i) ==
    /\ channel[i] = "open"
    /\ HASHES[i] # <<>>
    /\ Fault
    /\ HASHES' = [HASHES EXCEPT ![i] = Rest(i)]
    /\ UNCHANGED <<broker, channel, wire, trees, aggStates>>

(* Building or publishing the tree throws: all messages are nacked. *)
FailAggregation(i) ==
    /\ channel[i] = "open"
    /\ HASHES[i] # <<>>
    /\ Fault
    /\ HASHES' = [HASHES EXCEPT ![i] = Rest(i)]
    /\ wire' = [wire EXCEPT ![i] = @ \o SettleAll("nack", Batch(i))]
    /\ UNCHANGED <<broker, channel, trees, aggStates>>

-----------------------------------------------------------------------------

(* A channel goes away with its deliveries and its tags; those messages    *)
(* are ready again.                                                        *)
Requeue(i) ==
    /\ message' = [h \in Hash |->
                     IF \E d \in out[i] : d.hash = h THEN "ready" ELSE message[h]]
    /\ out' = [out EXCEPT ![i] = {}]
    /\ lastTag' = [lastTag EXCEPT ![i] = 0]

(* Mutant: the close event leaves HASHES as it is. *)
CloseChannelKeepingWork(i) ==
    /\ channel[i] = "open"
    /\ Fault
    /\ Requeue(i)
    /\ channel' = [channel EXCEPT ![i] = "closed"]
    /\ wire' = [wire EXCEPT ![i] = <<>>]
    /\ UNCHANGED <<HASHES, trees, aggStates>>

(* The connection is lost or the process dies; the close event (or the     *)
(* restart) leaves no channel and no work in progress.                     *)
CloseChannel(i) ==
    /\ channel[i] = "open"
    /\ Fault
    /\ Requeue(i)
    /\ channel' = [channel EXCEPT ![i] = "closed"]
    /\ HASHES' = [HASHES EXCEPT ![i] = <<>>]
    /\ wire' = [wire EXCEPT ![i] = <<>>]
    /\ UNCHANGED <<trees, aggStates>>

(* setTimeout(openRMQConnectionAsync, 5000), or the restarted process. *)
OpenChannel(i) ==
    /\ channel[i] = "closed"
    /\ channel' = [channel EXCEPT ![i] = "open"]
    /\ UNCHANGED <<broker, HASHES, wire, trees, aggStates, faults>>

(* RabbitMQ receives the next frame. *)
ReceivePublish(i) ==
    /\ wire[i] # <<>>
    /\ Head(wire[i]).kind = "publish"
    /\ trees' = Append(trees, Head(wire[i]).tree)
    /\ wire' = [wire EXCEPT ![i] = Tail(@)]
    /\ UNCHANGED <<broker, channel, HASHES, aggStates, faults>>

(* A settled delivery leaves the channel; an acknowledged message is gone. *)
(* (An unknown tag would be a channel error: WorkIsCurrent shows that none *)
(* is ever sent.)                                                          *)
ReceiveSettle(i) ==
    LET frame == Head(wire[i])
        settled == {d \in out[i] : d.tag = frame.tag} IN
    /\ wire[i] # <<>>
    /\ frame.kind # "publish"
    /\ out' = [out EXCEPT ![i] = @ \ settled]
    /\ message' = [h \in Hash |-> IF h \notin {d.hash : d \in settled} THEN message[h]
                                  ELSE IF frame.kind = "ack" THEN "acked" ELSE "ready"]
    /\ wire' = [wire EXCEPT ![i] = Tail(@)]
    /\ UNCHANGED <<lastTag, channel, HASHES, trees, aggStates, faults>>

(* Mutant: the insert is an upsert. *)
UpsertAggStates(t) ==
    /\ aggStates' = [h \in Hash |-> IF h \in trees[t] THEN t ELSE aggStates[h]]
    /\ UNCHANGED <<broker, channel, HASHES, wire, trees, faults>>

(* ConsumeAggregationMessageAsync of the proof state service, for a tree   *)
(* delivered in any order and any number of times: INSERT ... ON CONFLICT  *)
(* (hash_id) DO NOTHING.                                                   *)
StoreAggStates(t) ==
    /\ aggStates' = [h \in Hash |->
                       IF h \in trees[t] /\ aggStates[h] = NoTree THEN t ELSE aggStates[h]]
    /\ UNCHANGED <<broker, channel, HASHES, wire, trees, faults>>

-----------------------------------------------------------------------------

InstanceStep(i) ==
    \/ Aggregate(i) \/ OpenChannel(i)
    \/ ReceivePublish(i) \/ ReceiveSettle(i)
    \/ \E h \in Hash : ConsumeHashMessage(i, h)

Next ==
    \/ \E h \in Hash : SubmitHash(h)
    \/ \E i \in Instance : InstanceStep(i) \/ FailAggregation(i) \/ CloseChannel(i)
    \/ \E t \in DOMAIN trees : StoreAggStates(t)

(* The timers fire, TCP delivers what it can and RabbitMQ delivers what is *)
(* ready; an aggregation message is redelivered until it has been stored.  *)
Fairness ==
    /\ \A i \in Instance : WF_vars(InstanceStep(i)) /\ WF_vars(Aggregate(i))
    /\ WF_vars(\E t \in DOMAIN trees : StoreAggStates(t))

Spec == Init /\ [][Next]_vars
FairSpec == Spec /\ Fairness

-----------------------------------------------------------------------------

(* Types of the variables: trees hold hashes, deliveries and frames carry  *)
(* the tags of their channel.                                              *)
TypeOK ==
    /\ message \in [Hash -> {"unsent", "ready", "delivered", "acked"}]
    /\ out \in [Instance -> SUBSET Delivery]
    /\ lastTag \in [Instance -> Nat]
    /\ channel \in [Instance -> {"open", "closed"}]
    /\ HASHES \in [Instance -> Seq(Delivery)]
    /\ wire \in [Instance -> Seq(Frame)]
    /\ trees \in Seq(SUBSET Hash)
    /\ aggStates \in [Hash -> Nat \cup {NoTree}]
    /\ faults \in Nat

InSomeTree(h) == \E t \in DOMAIN trees : h \in trees[t]

(* "unacknowledged messages will be requeued to ensure than unfinished     *)
(* work lost due to failure will be processed again in full": RabbitMQ     *)
(* forgets a hash only once it has a tree that holds it.                   *)
AckedIsAggregated == \A h \in Hash : message[h] = "acked" => InSomeTree(h)

(* "un-acked messaged will be requeued, so clear all work in progress":    *)
(* what is in HASHES, and what is being settled, are deliveries of the     *)
(* current channel, each settled once.                                     *)
Settling(i) == {n \in DOMAIN wire[i] : wire[i][n].kind # "publish"}

WorkIsCurrent ==
    \A i \in Instance :
        /\ \A k \in DOMAIN HASHES[i] : HASHES[i][k] \in out[i]
        /\ \A n \in Settling(i) :
              /\ \E d \in out[i] : d.tag = wire[i][n].tag
              /\ \A k \in DOMAIN HASHES[i] : HASHES[i][k].tag # wire[i][n].tag
              /\ \A m \in Settling(i) : wire[i][m].tag = wire[i][n].tag => m = n

(* A hash enters one more tree for a lost channel or a failed aggregation, *)
(* and for nothing else: no fault puts it into two more. *)
TreesHolding(h) == {t \in DOMAIN trees : h \in trees[t]}

ExtraTreesNeedFaults ==
    \A h \in Hash : Cardinality(TreesHolding(h)) <= 1 + faults

(* A row of agg_states keeps its tree, however often and in whatever order *)
(* the trees that hold the hash arrive.                                    *)
RowsNeverMove ==
    [][\A h \in Hash : aggStates[h] # NoTree => aggStates'[h] = aggStates[h]]_vars

(* Every submitted hash gets its row. *)
EveryHashAggregated ==
    \A h \in Hash : message[h] = "ready" ~> aggStates[h] # NoTree

=============================================================================
