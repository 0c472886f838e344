------------------------- MODULE BtcAnchorInterval --------------------------
(***************************************************************************)
(* processBtcAnchorInterval (node-calendar-service/server.js): every hour  *)
(* a leader takes all calendar blocks above a stored height, writes their  *)
(* Merkle root as a 'btc-a' block, queues the anchor state of the 'cal'    *)
(* blocks among them, hands the root to the BTC transaction service and    *)
(* stores the height it got to.                                            *)
(*                                                                         *)
(* The calendar is the Ledger: height is the id of the next block.  Blocks *)
(* are appended by other flows and other zones between any two steps.      *)
(***************************************************************************)
EXTENDS Integers, FiniteSets

CONSTANTS
    Run,            \* invocations that may be in progress at once
    Null,           \* no height stored yet
    Nines,          \* the ids 9, 99, 999, ..., all of whose digits are nines
    MaxHeight,      \* model bound: blocks in the calendar
    MaxAnchorFaults \* model bound: failures and crashes

ASSUME AnchorBoundsAssumption ==
    MaxHeight \in Nat /\ MaxAnchorFaults \in Nat /\ Null \notin Int /\ Nines \subseteq Nat

VARIABLES
    height,     \* blocks in the calendar, with ids 0 .. height - 1
    cals,       \* ids of the 'cal' blocks
    anchors,    \* the 'btc-a' blocks, each over the blocks first .. last
    marker,     \* LAST_CAL_BLOCK_HEIGHT_PROCESSED_FOR_BTC_A_BLOCK
    channel,    \* "closed" while amqpChannel is null, else "open"
    run,        \* progress and local variables of each run
    queued,     \* ids of the btc-a blocks whose anchor state and root were queued
    dropped,    \* ids of the btc-a blocks queued on a closed channel
    origin,     \* latest base of a completed run that had found no marker
    anchorFaults

ledger == <<height, cals, anchors>>
outputs == <<queued, dropped>>
anchorVars == <<ledger, marker, channel, run, outputs, origin, anchorFaults>>

(* seen is the marker the run has read, base its lastProcessedCalHeight,   *)
(* last the highest block of its tree and id the btc-a block it wrote.     *)
Phase == {"idle", "default", "blocks", "anchor", "queue", "mark"}
RunState == [phase : Phase, seen : Nat \cup {Null}, base : Nat \cup {-1},
             last : Nat, id : Nat]
Idle == [phase |-> "idle", seen |-> Null, base |-> 0, last |-> 0, id |-> 0]

Covers(a, id) == a.first <= id /\ id <= a.last

-----------------------------------------------------------------------------

(* The services start with the genesis block in place. *)
AnchorInit ==
    /\ height = 1
    /\ cals = {}
    /\ anchors = {}
    /\ marker = Null
    /\ channel = "open"
    /\ run = [r \in Run |-> Idle]
    /\ queued = {}
    /\ dropped = {}
    /\ origin = -1
    /\ anchorFaults = 0

AnchorFault == anchorFaults < MaxAnchorFaults /\ anchorFaults' = anchorFaults + 1

(* Model bound: a block is added only while the calendar has room for it   *)
(* and for the btc-a blocks of the runs in progress.                       *)
Pending == {r \in Run : run[r].phase \in {"default", "blocks", "anchor"}}
Room == height + Cardinality(Pending) < MaxHeight

(* processCalendarInterval appends a cal block. *)
AppendCalBlock ==
    /\ Room
    /\ height' = height + 1
    /\ cals' = cals \cup {height}
    /\ UNCHANGED <<anchors, marker, channel, run, outputs, origin, anchorFaults>>

(* A nist, btc-c or reward block is appended. *)
AppendOtherBlock ==
    /\ Room
    /\ height' = height + 1
    /\ UNCHANGED <<cals, anchors, marker, channel, run, outputs, origin, anchorFaults>>

CloseChannel ==
    /\ channel = "open"
    /\ AnchorFault
    /\ channel' = "closed"
    /\ UNCHANGED <<ledger, marker, run, outputs, origin>>

OpenChannel ==
    /\ channel = "closed"
    /\ channel' = "open"
    /\ UNCHANGED <<ledger, marker, run, outputs, origin, anchorFaults>>

-----------------------------------------------------------------------------

(* The hourly timer fires on a leader: read the stored height. *)
ReadMarker(r) ==
    /\ run[r].phase = "idle"
    /\ Room
    /\ run' = [run EXCEPT ![r] =
                 IF marker = Null
                   THEN [@ EXCEPT !.phase = "default", !.seen = Null]
                   ELSE [@ EXCEPT !.phase = "blocks", !.seen = marker, !.base = marker]]
    /\ UNCHANGED <<ledger, marker, channel, outputs, origin, anchorFaults>>

(* lastBtcAnchorBlockIdAsync: without a stored height, start from the most *)
(* recent btc-a block, or from the beginning.                              *)
DefaultBase(r) ==
    /\ run[r].phase = "default"
    /\ \E b \in {a.id : a \in anchors} \cup {-1} :
          /\ \A a \in anchors : a.id <= b
          /\ run' = [run EXCEPT ![r].phase = "blocks", ![r].base = b]
    /\ UNCHANGED <<ledger, marker, channel, outputs, origin, anchorFaults>>

(* CalendarBlock.findAll, and the checks before aggregateAndAnchorBTCAsync *)
(* builds the tree: no blocks end the run, and without a channel the tree  *)
(* data is undefined, which makes the run fail.                            *)
ReadBlocks(r) ==
    /\ run[r].phase = "blocks"
    /\ run' = [run EXCEPT ![r] =
                 IF height - 1 > run[r].base /\ channel = "open"
                   THEN [@ EXCEPT !.phase = "anchor", !.last = height - 1]
                   ELSE Idle]
    /\ UNCHANGED <<ledger, marker, channel, outputs, origin, anchorFaults>>

(* createBtcAnchorBlockAsync *)
WriteAnchorBlock(r) ==
    /\ run[r].phase = "anchor"
    /\ height' = height + 1
    /\ anchors' = anchors \cup
         {[id |-> height, first |-> run[r].base + 1, last |-> run[r].last]}
    /\ run' = [run EXCEPT ![r].phase = "queue", ![r].id = height]
    /\ UNCHANGED <<cals, marker, channel, outputs, origin, anchorFaults>>

(* queueBtcAStateDataMessageAsync: the anchor_btc_agg_batch message and    *)
(* the message for the BTC tx service.  No I/O event comes between the two *)
(* sends, so both find the channel open or the first one throws; the error *)
(* is logged and the run goes on.                                          *)
QueueAnchorState(r) ==
    /\ run[r].phase = "queue"
    /\ run' = [run EXCEPT ![r].phase = "mark"]
    /\ \/ /\ channel = "open"
          /\ queued' = queued \cup {run[r].id}
          /\ UNCHANGED dropped
       \/ /\ channel = "closed"
          /\ dropped' = dropped \cup {run[r].id}
          /\ UNCHANGED queued
    /\ UNCHANGED <<ledger, marker, channel, origin, anchorFaults>>

(* setLastCalBlockHeightProcessedForBtcABlock *)
MoveMarker(r, id) ==
    /\ run[r].phase = "mark"
    /\ marker' = id
    /\ run' = [run EXCEPT ![r] = Idle]
    /\ origin' = IF run[r].seen = Null /\ run[r].base > origin THEN run[r].base ELSE origin
    /\ UNCHANGED <<ledger, channel, outputs, anchorFaults>>

(* Mutants of SetMarker: it stores the height the run started from, or the *)
(* height of the calendar when the run ends.                               *)
SetMarkerToBase(r) == MoveMarker(r, run[r].base)

SetMarkerToTop(r) == MoveMarker(r, height - 1)

(* The reduce over the ids of the tree's blocks.  A driver that returns    *)
(* 64-bit integers as strings (the code parses them elsewhere) makes it    *)
(* compare strings: an id made of nines then beats a longer one.           *)
Highest(first, last) == {last} \cup (Nines \cap first..last)

SetMarker(r) ==
    \E id \in Highest(run[r].base + 1, run[r].last) : MoveMarker(r, id)

(* A database error is logged, or the service stops. *)
AbortRun(r) ==
    /\ run[r].phase # "idle"
    /\ AnchorFault
    /\ run' = [run EXCEPT ![r] = Idle]
    /\ UNCHANGED <<ledger, marker, channel, outputs, origin>>

RunStep(r) ==
    \/ ReadMarker(r) \/ DefaultBase(r) \/ ReadBlocks(r)
    \/ WriteAnchorBlock(r) \/ QueueAnchorState(r) \/ SetMarker(r)

AnchorNext ==
    \/ AppendCalBlock \/ AppendOtherBlock \/ CloseChannel \/ OpenChannel
    \/ \E r \in Run : RunStep(r) \/ AbortRun(r)

AnchorSpec == AnchorInit /\ [][AnchorNext]_anchorVars

-----------------------------------------------------------------------------

Anchor == [id : Nat, first : Nat, last : Nat]

(* Types of the variables: the stored height is the id of a block, never   *)
(* the -1 a first run starts from.                                         *)
AnchorTypeOK ==
    /\ height \in Nat \ {0}
    /\ cals \in SUBSET Nat
    /\ anchors \in SUBSET Anchor
    /\ marker \in Nat \cup {Null}
    /\ channel \in {"open", "closed"}
    /\ run \in [Run -> RunState]
    /\ queued \in SUBSET Nat
    /\ dropped \in SUBSET Nat
    /\ origin \in Nat \cup {-1}
    /\ anchorFaults \in Nat

(* "Get ALL calendar blocks since last btc-a aggregation": the stored      *)
(* height passes a calendar block only when a btc-a block covers it whose  *)
(* anchor state was queued, or lost on a channel that had closed, however  *)
(* runs overlap, fail or move the height back; only a run that finds no    *)
(* stored height may start above blocks that are in no tree.               *)
Behind(c) == marker # Null /\ c <= marker

CalBlocksHandedOver ==
    \A c \in cals :
        Behind(c) => \/ c <= origin
                     \/ \E a \in anchors : Covers(a, c) /\ a.id \in queued \cup dropped

(* "Aggregate all block hashes on chain since last BTC aggregation, add    *)
(* new BTC anchor block to calendar, add new proof state entries, anchor   *)
(* root": every calendar block below the stored height has proof state     *)
(* entries on their way.                                                   *)
AnchorStateQueued ==
    \A c \in cals :
        Behind(c) => c <= origin \/ \E a \in anchors : Covers(a, c) /\ a.id \in queued

=============================================================================
