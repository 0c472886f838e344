-------------------------- MODULE CalendarInterval --------------------------
(***************************************************************************)
(* processCalendarInterval (node-calendar-service/server.js): every ten    *)
(* seconds a leader collects the aggregation roots written to agg_states   *)
(* since a stored timestamp, commits their Merkle root in a 'cal' block,   *)
(* queues the calendar state of each root and moves the timestamp on.      *)
(*                                                                         *)
(* The rows come from other processes and become visible some time after   *)
(* their created_at: Latency bounds the two clocks' skew and the delay     *)
(* between CockroachDB instances together.  Runs overlap: nothing stops a  *)
(* timer from firing during a slow run, and a service that lost its Consul *)
(* session keeps IS_LEADER until the error event arrives.                  *)
(***************************************************************************)
EXTENDS Integers

CONSTANTS
    Agg,            \* aggregations (rows of agg_states with one agg_id)
    Run,            \* invocations that may be in progress at once
    Null,           \* no timestamp stored yet
    Lookback,       \* 500 ms, in clock ticks
    FirstWindow,    \* 60000 ms, in clock ticks
    Latency,        \* longest time from created_at until a row can be read
    MaxClock,       \* model bound: last clock value
    MaxFaults       \* model bound: failures and crashes

ASSUME TimesAssumption ==
    /\ Lookback \in Nat /\ FirstWindow \in Nat /\ Latency \in Nat
    /\ MaxClock \in Nat /\ MaxFaults \in Nat
    /\ Null \notin Int

(* What "account for possible latency between CRDB instances" asks for:    *)
(* the query keeps rows strictly newer than its bound, so the latency has  *)
(* to stay strictly below the 500 ms.                                      *)
ASSUME LookbackAssumption == Latency < Lookback

VARIABLES
    clock,      \* Date.now()
    row,        \* each aggregation's row: "none", "written" or "visible"
    created,    \* its created_at
    marker,     \* LAST_AGG_STATE_PROCESSED_FOR_CAL_BLOCK_TIMESTAMP
    channel,    \* "closed" while amqpChannel is null, else "open"
    run,        \* progress and local variables of each run
    published,  \* aggregations whose calendar state has been queued
    origin,     \* latest base of a completed run that had found no marker
    faults

rowVars == <<row, created>>
vars == <<clock, rowVars, marker, channel, run, published, origin, faults>>

Visible == {a \in Agg : row[a] = "visible"}

(* seen is the marker the run has read, base its lastProcessedTimestamp,   *)
(* end its thisIntervalEndTimestamp and tree the leaves of its tree.       *)
Phase == {"idle", "bounds", "query", "persist", "queue", "mark"}
RunState == [phase : Phase, seen : Nat \cup {Null}, base : Int, end : Nat,
             tree : SUBSET Agg]
Idle == [phase |-> "idle", seen |-> Null, base |-> 0, end |-> 0, tree |-> {}]

-----------------------------------------------------------------------------

Init ==
    /\ clock = 0
    /\ row = [a \in Agg |-> "none"]
    /\ created = [a \in Agg |-> 0]
    /\ marker = Null
    /\ channel = "open"
    /\ run = [r \in Run |-> Idle]
    /\ published = {}
    /\ origin = -1
    /\ faults = 0

Fault == faults < MaxFaults /\ faults' = faults + 1

(* Time passes; a row written Latency ago has become visible. *)
Tick ==
    /\ clock < MaxClock
    /\ \A a \in Agg : row[a] = "written" => clock < created[a] + Latency
    /\ clock' = clock + 1
    /\ UNCHANGED <<rowVars, marker, channel, run, published, origin, faults>>

(* writeAggStateObjectsBulkAsync: created_at is the database's now(). *)
WriteRow(a) ==
    /\ row[a] = "none"
    /\ row' = [row EXCEPT ![a] = "written"]
    /\ created' = [created EXCEPT ![a] = clock]
    /\ UNCHANGED <<clock, marker, channel, run, published, origin, faults>>

RevealRow(a) ==
    /\ row[a] = "written"
    /\ row' = [row EXCEPT ![a] = "visible"]
    /\ UNCHANGED <<clock, created, marker, channel, run, published, origin, faults>>

(* openRMQConnectionAsync: the close event nulls the channel, a timer      *)
(* opens a new one.                                                        *)
CloseChannel ==
    /\ channel = "open"
    /\ Fault
    /\ channel' = "closed"
    /\ UNCHANGED <<clock, rowVars, marker, run, published, origin>>

OpenChannel ==
    /\ channel = "closed"
    /\ channel' = "open"
    /\ UNCHANGED <<clock, rowVars, marker, run, published, origin, faults>>

-----------------------------------------------------------------------------

(* The timer fires on a leader: getLastAggStateProcessedForCalBlock-       *)
(* Timestamp reads the marker.                                             *)
ReadMarker(r) ==
    /\ run[r].phase = "idle"
    /\ run' = [run EXCEPT ![r].phase = "bounds", ![r].seen = marker]
    /\ UNCHANGED <<clock, rowVars, marker, channel, published, origin, faults>>

(* Mutant: the interval starts at the stored timestamp itself. *)
SetBoundsWithoutLookback(r) ==
    /\ run[r].phase = "bounds"
    /\ run' = [run EXCEPT
                  ![r].phase = "query",
                  ![r].base = IF run[r].seen = Null THEN clock - FirstWindow
                                                    ELSE run[r].seen,
                  ![r].end = clock]
    /\ UNCHANGED <<clock, rowVars, marker, channel, published, origin, faults>>

(* The answer arrives: the run fixes both ends of its interval.            *)
SetBounds(r) ==
    /\ run[r].phase = "bounds"
    /\ run' = [run EXCEPT
                  ![r].phase = "query",
                  ![r].base = IF run[r].seen = Null THEN clock - FirstWindow
                                                    ELSE run[r].seen - Lookback,
                  ![r].end = clock]
    /\ UNCHANGED <<clock, rowVars, marker, channel, published, origin, faults>>

(* getAggStateInfoSinceTimestampAsync and generateCalendarTree; no rows    *)
(* ends the run.                                                           *)
QueryRows(r) ==
    LET found == {a \in Visible : created[a] > run[r].base} IN
    /\ run[r].phase = "query"
    /\ run' = [run EXCEPT ![r] = IF found = {} THEN Idle
                                 ELSE [@ EXCEPT !.phase = "persist", !.tree = found]]
    /\ UNCHANGED <<clock, rowVars, marker, channel, published, origin, faults>>

(* persistCalendarTreeAsync: throws without a channel, else writes the     *)
(* calendar block.                                                         *)
PersistTree(r) ==
    /\ run[r].phase = "persist"
    /\ run' = [run EXCEPT ![r] = IF channel = "open" THEN [@ EXCEPT !.phase = "queue"] ELSE Idle]
    /\ UNCHANGED <<clock, rowVars, marker, channel, published, origin, faults>>

(* queueCalStateDataMessageAsync: one cal_batch message for all leaves; a  *)
(* channel that closed while the block was written makes it throw.         *)
QueueCalState(r) ==
    /\ run[r].phase = "queue"
    /\ \/ /\ channel = "open"
          /\ published' = published \cup run[r].tree
          /\ run' = [run EXCEPT ![r].phase = "mark"]
       \/ /\ channel = "closed"
          /\ run' = [run EXCEPT ![r] = Idle]
          /\ UNCHANGED published
    /\ UNCHANGED <<clock, rowVars, marker, channel, origin, faults>>

(* setLastAggStateProcessedForCalBlockTimestamp *)
MoveMarker(r, time) ==
    /\ run[r].phase = "mark"
    /\ marker' = time
    /\ run' = [run EXCEPT ![r] = Idle]
    /\ origin' = IF run[r].seen = Null /\ run[r].base > origin THEN run[r].base ELSE origin
    /\ UNCHANGED <<clock, rowVars, channel, published, faults>>

(* Mutants of SetMarker: it stores the start of the interval, or the time  *)
(* at which the run ends.                                                  *)
SetMarkerToStart(r) == MoveMarker(r, run[r].base)

SetMarkerToNow(r) == MoveMarker(r, clock)

SetMarker(r) == MoveMarker(r, run[r].end)

(* A database error is logged, or the service stops: either way the run    *)
(* ends where it is.                                                       *)
AbortRun(r) ==
    /\ run[r].phase # "idle"
    /\ Fault
    /\ run' = [run EXCEPT ![r] = Idle]
    /\ UNCHANGED <<clock, rowVars, marker, channel, published, origin>>

-----------------------------------------------------------------------------

RunStep(r) ==
    \/ ReadMarker(r) \/ SetBounds(r) \/ QueryRows(r)
    \/ PersistTree(r) \/ QueueCalState(r) \/ SetMarker(r)

Next ==
    \/ Tick \/ CloseChannel \/ OpenChannel
    \/ \E a \in Agg : WriteRow(a) \/ RevealRow(a)
    \/ \E r \in Run : RunStep(r) \/ AbortRun(r)

(* The ten-second timer keeps firing on some leader and its callbacks run; *)
(* the reconnect timer fires; a committed row becomes readable.            *)
Fairness ==
    /\ \A r \in Run : WF_vars(RunStep(r))
    /\ WF_vars(OpenChannel)
    /\ \A a \in Agg : WF_vars(RevealRow(a))

Spec == Init /\ [][Next]_vars
FairSpec == Spec /\ Fairness

-----------------------------------------------------------------------------

(* Types of the variables: the stored timestamp is a time, never one from  *)
(* before the epoch.                                                       *)
TypeOK ==
    /\ clock \in Nat
    /\ row \in [Agg -> {"none", "written", "visible"}]
    /\ created \in [Agg -> Nat]
    /\ marker \in Nat \cup {Null}
    /\ channel \in {"open", "closed"}
    /\ run \in [Run -> RunState]
    /\ published \in SUBSET Agg
    /\ origin \in Int
    /\ faults \in Nat

(* An aggregation from before the window of a first run is not looked for. *)
BeforeFirstRun(a) == created[a] <= origin

(* No aggregation is left behind by the timestamp: once the look-back of   *)
(* the next run starts after an aggregation's row, its calendar state has  *)
(* been queued, however runs overlapped, failed or moved the timestamp     *)
(* back, and however late (within Latency) the row became visible.         *)
NoAggregationSkipped ==
    marker # Null =>
        \A a \in Agg :
            row[a] # "none" /\ created[a] <= marker - Lookback
                => a \in published \/ BeforeFirstRun(a)

(* Every aggregation that becomes readable reaches a calendar block and    *)
(* the state service, unless no run has yet completed and it is older than *)
(* the first-run window.                                                   *)
Overlooked(a) ==
    \/ BeforeFirstRun(a)
    \/ marker = Null /\ created[a] <= clock - FirstWindow

EveryAggregationPublished ==
    \A a \in Agg : row[a] = "visible" ~> (a \in published \/ Overlooked(a))

=============================================================================
