----------------------- MODULE CalendarIntervalProofs -----------------------
(***************************************************************************)
(* Proofs about CalendarInterval, for any number of aggregations and of    *)
(* overlapping runs, any clock values and any look-back longer than the    *)
(* latency.                                                                *)
(***************************************************************************)
EXTENDS CalendarInterval, TLAPS

(* Every row with created_at up to t has been published or precedes the    *)
(* first run's window.                                                     *)
Covered(t) ==
    \A a \in Agg : row[a] # "none" /\ created[a] <= t => a \in published \/ BeforeFirstRun(a)

(* Rows are dated by the clock and readable within Latency. *)
RowInv ==
    \A a \in Agg :
        /\ row[a] # "none" => created[a] <= clock
        /\ row[a] = "written" => clock <= created[a] + Latency

MarkerInv == marker # Null => marker <= clock /\ Covered(marker - Lookback)

Queried == {"persist", "queue", "mark"}

(* A run that found a marker starts from covered ground, and its tree      *)
(* holds every row between its bounds, the later one moved back by the     *)
(* look-back, including the rows that were still invisible to its query.   *)
RunInv(r) ==
    /\ run[r].seen # Null => run[r].seen <= clock /\ Covered(run[r].seen - Lookback)
    /\ run[r].phase \in Queried \cup {"query"} =>
          /\ run[r].end <= clock
          /\ run[r].seen # Null => run[r].base = run[r].seen - Lookback
    /\ run[r].phase \in Queried =>
          \A a \in Agg :
              /\ row[a] # "none"
              /\ created[a] > run[r].base
              /\ created[a] <= run[r].end - Lookback
              => a \in run[r].tree
    /\ run[r].phase = "mark" => run[r].tree \subseteq published

IntervalInv == TypeOK /\ RowInv /\ MarkerInv /\ \A r \in Run : RunInv(r)

-----------------------------------------------------------------------------

(* Types hold initially and every step keeps them. *)
LEMMA InitTypeOK == Init => TypeOK
BY TimesAssumption DEF Init, TypeOK, Idle, RunState, Phase

(* Every step keeps the types. *)
LEMMA NextTypeOK == TypeOK /\ [Next]_vars => TypeOK'
<1>. SUFFICES ASSUME TypeOK, [Next]_vars PROVE TypeOK'
  OBVIOUS
<1>. USE TimesAssumption DEF TypeOK, rowVars
<1>1. CASE UNCHANGED vars
  BY <1>1 DEF vars
<1>2. CASE Tick \/ CloseChannel \/ OpenChannel
  BY <1>2 DEF Tick, CloseChannel, OpenChannel, Fault
<1>3. ASSUME NEW a \in Agg, WriteRow(a) \/ RevealRow(a)
      PROVE  TypeOK'
  BY <1>3 DEF WriteRow, RevealRow
<1>4. ASSUME NEW r \in Run, RunStep(r) \/ AbortRun(r)
      PROVE  TypeOK'
  <2>. USE DEF RunState, Phase, Idle
  <2>1. CASE ReadMarker(r)
    <3>. DEFINE new == [run[r] EXCEPT !.phase = "bounds", !.seen = marker]
    <3>1. new \in RunState
      OBVIOUS
    <3>2. run' = [run EXCEPT ![r] = new]
      BY <2>1 DEF ReadMarker
    <3>. HIDE DEF new
    <3>3. run' \in [Run -> RunState]
      BY <3>1, <3>2
    <3>. QED
      BY <2>1, <3>3 DEF ReadMarker
  <2>2. CASE SetBounds(r)
    <3>. DEFINE b == IF run[r].seen = Null THEN clock - FirstWindow
                                          ELSE run[r].seen - Lookback
                new == [run[r] EXCEPT !.phase = "query", !.base = b, !.end = clock]
    <3>1. b \in Int
      BY DEF TypeOK
    <3>. HIDE DEF b
    <3>2. new \in RunState
      BY <3>1
    <3>3. run' = [run EXCEPT ![r] = new]
      BY <2>2 DEF SetBounds, b
    <3>. HIDE DEF new
    <3>4. run' \in [Run -> RunState]
      BY <3>2, <3>3
    <3>. QED
      BY <2>2, <3>4 DEF SetBounds
  <2>3. CASE QueryRows(r)
    <3>. DEFINE found == {a \in Visible : created[a] > run[r].base}
    <3>1. found \in SUBSET Agg
      BY DEF Visible
    <3>. HIDE DEF found
    <3>2. [run[r] EXCEPT !.phase = "persist", !.tree = found] \in RunState
      BY <3>1
    <3>3. \/ run' = [run EXCEPT ![r] = Idle]
          \/ run' = [run EXCEPT ![r] = [run[r] EXCEPT !.phase = "persist", !.tree = found]]
      BY <2>3 DEF QueryRows, found
    <3>4. Idle \in RunState
      OBVIOUS
    <3>. QED
      BY <2>3, <3>2, <3>3, <3>4 DEF QueryRows
  <2>4. CASE PersistTree(r)
    BY <2>4 DEF PersistTree
  <2>5. CASE QueueCalState(r)
    BY <2>5 DEF QueueCalState
  <2>6. CASE SetMarker(r)
    BY <2>6 DEF SetMarker, MoveMarker
  <2>7. CASE AbortRun(r)
    BY <2>7 DEF AbortRun, Fault
  <2>. QED
    BY <1>4, <2>1, <2>2, <2>3, <2>4, <2>5, <2>6, <2>7 DEF RunStep
<1>. QED
  BY <1>1, <1>2, <1>3, <1>4 DEF Next

(* The model's variables keep their types. *)
THEOREM TypeCorrect == Spec => []TypeOK
<1>. QED
  BY InitTypeOK, NextTypeOK, PTL DEF Spec

-----------------------------------------------------------------------------

(* Covered ground stays covered while rows, published and origin evolve:   *)
(* a new row is dated now, later than any marker moved back.               *)
LEMMA CoveredStable ==
  ASSUME TypeOK, TypeOK', [Next]_vars,
         NEW t \in Nat, t <= clock, Covered(t - Lookback)
  PROVE  Covered(t - Lookback)'
<1>1. Lookback \in Nat /\ Lookback > 0
  BY TimesAssumption, LookbackAssumption
<1>2. published \subseteq published'
  BY DEF Next, vars, Tick, CloseChannel, OpenChannel, WriteRow, RevealRow, RunStep,
         ReadMarker, SetBounds, QueryRows, PersistTree, QueueCalState, SetMarker, MoveMarker, AbortRun
<1>4. origin <= origin'
  <2>1. origin' = origin \/ \E r \in Run : SetMarker(r)
    BY DEF Next, vars, Tick, CloseChannel, OpenChannel, WriteRow, RevealRow, RunStep,
           ReadMarker, SetBounds, QueryRows, PersistTree, QueueCalState, AbortRun
  <2>2. origin \in Int /\ \A r \in Run : run[r].base \in Int
    BY DEF TypeOK, RunState
  <2>. QED
    BY <2>1, <2>2 DEF SetMarker, MoveMarker
<1>3. \A a \in Agg : \/ row'[a] # "none" => row[a] # "none" /\ created'[a] = created[a]
                     \/ created'[a] = clock
  BY DEF Next, vars, rowVars, Tick, CloseChannel, OpenChannel, WriteRow, RevealRow, RunStep,
         ReadMarker, SetBounds, QueryRows, PersistTree, QueueCalState, SetMarker, MoveMarker, AbortRun,
         TypeOK
<1>. QED
  BY <1>1, <1>2, <1>3, <1>4 DEF Covered, BeforeFirstRun, TypeOK

(* The clock never goes back. *)
LEMMA ClockAdvances ==
  ASSUME TypeOK, [Next]_vars
  PROVE  clock \in Nat /\ clock' \in Nat /\ clock <= clock'
<1>1. clock' = clock \/ clock' = clock + 1
  BY DEF Next, vars, Tick, CloseChannel, OpenChannel, WriteRow, RevealRow, RunStep,
         ReadMarker, SetBounds, QueryRows, PersistTree, QueueCalState, SetMarker, MoveMarker, AbortRun
<1>. QED
  BY <1>1 DEF TypeOK

(* Every step keeps rows from staying invisible longer than Latency. *)
LEMMA NextRowInv ==
  ASSUME TypeOK, RowInv, [Next]_vars
  PROVE  RowInv'
<1>. USE TimesAssumption DEF TypeOK, RowInv, rowVars
<1>1. CASE UNCHANGED vars
  BY <1>1 DEF vars
<1>2. CASE Tick
  BY <1>2 DEF Tick
<1>3. CASE CloseChannel \/ OpenChannel
  BY <1>3 DEF CloseChannel, OpenChannel
<1>4. ASSUME NEW a \in Agg, WriteRow(a) \/ RevealRow(a)
      PROVE  RowInv'
  BY <1>4 DEF WriteRow, RevealRow
<1>5. ASSUME NEW r \in Run, RunStep(r) \/ AbortRun(r)
      PROVE  RowInv'
  BY <1>5 DEF RunStep, ReadMarker, SetBounds, QueryRows, PersistTree, QueueCalState,
              SetMarker, MoveMarker, AbortRun
<1>. QED
  BY <1>1, <1>2, <1>3, <1>4, <1>5 DEF Next

(* When a run moves the marker, everything up to its end, moved back by    *)
(* the look-back, is covered: below its base by what it started from (or   *)
(* by the first-run window), above it by its own tree.                     *)
LEMMA SetMarkerCovers ==
  ASSUME IntervalInv, NEW r \in Run, SetMarker(r), NEW e, e = run[r].end
  PROVE  Covered(e - Lookback)'
<1>1. /\ run[r] \in RunState /\ run[r].phase = "mark"
      /\ created \in [Agg -> Nat] /\ origin \in Int /\ Lookback \in Nat
  BY TimesAssumption DEF IntervalInv, TypeOK, SetMarker, MoveMarker
<1>2. /\ row' = row /\ created' = created /\ published' = published
      /\ origin' = IF run[r].seen = Null /\ run[r].base > origin THEN run[r].base ELSE origin
  BY DEF SetMarker, MoveMarker, rowVars
<1>3. RunInv(r)
  BY DEF IntervalInv
<1>4. ASSUME NEW a \in Agg, row[a] # "none", created[a] <= run[r].end - Lookback
      PROVE  a \in published \/ created[a] <= origin'
  <2>1. CASE created[a] > run[r].base
    BY <1>1, <1>3, <1>4, <2>1 DEF RunInv, Queried
  <2>2. CASE created[a] <= run[r].base /\ run[r].seen = Null
    BY <1>1, <1>2, <2>2 DEF RunState
  <2>3. CASE created[a] <= run[r].base /\ run[r].seen # Null
    <3>1. created[a] <= run[r].seen - Lookback
      BY <1>1, <1>3, <2>3 DEF RunInv, Queried
    <3>2. a \in published \/ created[a] <= origin
      BY <1>3, <1>4, <2>3, <3>1 DEF RunInv, Covered, BeforeFirstRun
    <3>. QED
      BY <1>1, <1>2, <2>3, <3>2
  <2>. QED
    BY <1>1, <2>1, <2>2, <2>3 DEF RunState
<1>. QED
  BY <1>2, <1>4 DEF Covered, BeforeFirstRun

(* Every step leaves the stored timestamp above covered rows only. *)
LEMMA NextMarkerInv ==
  ASSUME IntervalInv, TypeOK', [Next]_vars
  PROVE  MarkerInv'
<1>1. ASSUME NEW r \in Run, SetMarker(r)
      PROVE  MarkerInv'
  <2>. PICK e : e = run[r].end
    OBVIOUS
  <2>1. marker' = e /\ clock' = clock /\ e <= clock
    <3>1. RunInv(r) /\ run[r].phase = "mark"
      BY <1>1 DEF SetMarker, MoveMarker, IntervalInv
    <3>. QED
      BY <1>1, <3>1 DEF SetMarker, MoveMarker, RunInv, Queried
  <2>2. Covered(e - Lookback)'
    BY <1>1, SetMarkerCovers
  <2>. QED
    BY <2>1, <2>2 DEF MarkerInv, Covered
<1>2. CASE marker' = marker
  <2>1. clock <= clock' /\ clock \in Nat /\ clock' \in Nat
    BY ClockAdvances DEF IntervalInv
  <2>. SUFFICES ASSUME NEW m, m = marker, m # Null
                PROVE  m <= clock' /\ Covered(m - Lookback)'
    BY <1>2 DEF MarkerInv, Covered
  <2>2. m \in Nat /\ m <= clock /\ Covered(m - Lookback)
    BY DEF IntervalInv, MarkerInv, TypeOK, Covered
  <2>3. Covered(m - Lookback)'
    BY <2>2, CoveredStable DEF IntervalInv
  <2>. QED
    BY <2>1, <2>2, <2>3
<1>. QED
  BY <1>1, <1>2 DEF Next, vars, Tick, CloseChannel, OpenChannel, WriteRow, RevealRow,
                    RunStep, ReadMarker, SetBounds, QueryRows, PersistTree,
                    QueueCalState, AbortRun

(* The invariant of one run, kept by its own steps and everybody else's.   *)
LEMMA NextRunInv ==
  ASSUME IntervalInv, TypeOK', RowInv', [Next]_vars, NEW r \in Run
  PROVE  RunInv(r)'
<1>. DEFINE me == run[r]
<1>0. /\ RunInv(r) /\ me \in RunState /\ me.seen \in Nat \cup {Null}
      /\ me.end \in Nat /\ me.base \in Int /\ Lookback \in Nat /\ clock \in Nat
      /\ created \in [Agg -> Nat] /\ run \in [Run -> RunState]
  BY TimesAssumption DEF IntervalInv, TypeOK, RunState
<1>1. clock' \in Nat /\ clock <= clock'
  BY ClockAdvances DEF IntervalInv
<1>2. published \subseteq published'
  BY DEF Next, vars, Tick, CloseChannel, OpenChannel, WriteRow, RevealRow, RunStep,
         ReadMarker, SetBounds, QueryRows, PersistTree, QueueCalState, SetMarker, MoveMarker, AbortRun
<1>3. \A s \in Nat : s <= clock /\ Covered(s - Lookback) => s <= clock' /\ Covered(s - Lookback)'
  BY <1>0, <1>1, CoveredStable DEF IntervalInv
<1>4. CASE run'[r] = run[r]
  (* Somebody else's step, or a row's: a new row is dated after end - Lookback. *)
  <2>1. \A a \in Agg : \/ row'[a] # "none" => row[a] # "none" /\ created'[a] = created[a]
                       \/ created'[a] = clock
    BY DEF Next, vars, rowVars, Tick, CloseChannel, OpenChannel, WriteRow, RevealRow, RunStep,
           ReadMarker, SetBounds, QueryRows, PersistTree, QueueCalState, SetMarker, MoveMarker, AbortRun,
           IntervalInv, TypeOK
  <2>2. me.seen # Null => me.seen <= clock' /\ Covered(me.seen - Lookback)'
    <3>. SUFFICES ASSUME NEW s, s = me.seen, s # Null
                  PROVE  s <= clock' /\ Covered(s - Lookback)'
      BY <1>4 DEF Covered
    <3>. QED
      BY <1>0, <1>3 DEF RunInv, Covered
  <2>3. me.phase \in Queried =>
          \A a \in Agg : /\ row'[a] # "none" /\ created'[a] > me.base
                         /\ created'[a] <= me.end - Lookback
                         => a \in me.tree
    <3>. SUFFICES ASSUME me.phase \in Queried, NEW a \in Agg, row'[a] # "none",
                         created'[a] > me.base, created'[a] <= me.end - Lookback
                  PROVE  a \in me.tree
      OBVIOUS
    <3>1. me.end <= clock /\ Lookback > 0
      BY <1>0, TimesAssumption, LookbackAssumption DEF RunInv
    <3>2. created'[a] # clock
      BY <1>0, <3>1
    <3>. QED
      BY <1>0, <2>1, <3>2 DEF RunInv
  <2>. QED
    BY <1>0, <1>1, <1>2, <1>4, <2>2, <2>3 DEF RunInv, Covered
<1>5. CASE run'[r] = Idle
  BY <1>5 DEF RunInv, Idle, Queried
<1>6. CASE ReadMarker(r)
  <2>1. me'.phase = "bounds" /\ me'.seen = marker
    BY <1>0, <1>6 DEF ReadMarker
  <2>2. ASSUME NEW s, s = marker, s # Null
        PROVE  s <= clock' /\ Covered(s - Lookback)'
    <3>1. s \in Nat /\ s <= clock /\ Covered(s - Lookback)
      BY <2>2 DEF IntervalInv, MarkerInv, TypeOK, Covered
    <3>. QED
      BY <1>3, <3>1
  <2>. QED
    BY <2>1, <2>2 DEF RunInv, Queried, Covered
<1>7. CASE SetBounds(r)
  <2>1. /\ me'.phase = "query" /\ me'.seen = me.seen /\ me'.end = clock /\ clock' = clock
        /\ me.seen # Null => me'.base = me.seen - Lookback
    BY <1>0, <1>7 DEF SetBounds
  <2>2. ASSUME NEW s, s = me.seen, s # Null
        PROVE  s <= clock' /\ Covered(s - Lookback)'
    BY <1>0, <1>3, <2>2 DEF RunInv, Covered
  <2>. QED
    BY <1>0, <2>1, <2>2 DEF RunInv, Queried, Covered
<1>8. CASE QueryRows(r) /\ run'[r] # Idle
  <2>. DEFINE found == {a \in Visible : created[a] > me.base}
  <2>1. /\ me' = [me EXCEPT !.phase = "persist", !.tree = found]
        /\ clock' = clock /\ row' = row /\ created' = created
    BY <1>0, <1>8 DEF QueryRows, rowVars
  <2>2. me.phase = "query" /\ me.end <= clock
    BY <1>0, <1>8 DEF QueryRows, RunInv
  <2>3. /\ me'.phase = "persist" /\ me'.seen = me.seen /\ me'.end = me.end
        /\ me'.base = me.base /\ me'.tree = found
    BY <1>0, <2>1 DEF RunState
  <2>4. ASSUME NEW a \in Agg, row[a] # "none", created[a] > me.base,
               created[a] <= me.end - Lookback
        PROVE  a \in found
    <3>1. row[a] # "written"
      <4>. SUFFICES ASSUME row[a] = "written" PROVE FALSE
        OBVIOUS
      <4>1. clock <= created[a] + Latency
        BY DEF IntervalInv, RowInv
      <4>. QED
        BY <1>0, <2>2, <2>4, <4>1, TimesAssumption, LookbackAssumption
    <3>. QED
      BY <2>4, <3>1 DEF Visible, IntervalInv, TypeOK
  <2>5. ASSUME NEW s, s = me.seen, s # Null
        PROVE  s <= clock' /\ Covered(s - Lookback)'
    BY <1>0, <1>3, <2>5 DEF RunInv, Covered
  <2>. HIDE DEF found
  <2>. QED
    BY <1>0, <2>1, <2>2, <2>3, <2>4, <2>5 DEF RunInv, Queried, Covered
<1>9. CASE (PersistTree(r) \/ QueueCalState(r)) /\ run'[r] # Idle
  <2>1. /\ me.phase \in Queried /\ me'.phase \in Queried
        /\ me'.seen = me.seen /\ me'.end = me.end /\ me'.base = me.base /\ me'.tree = me.tree
        /\ clock' = clock /\ row' = row /\ created' = created
        /\ me'.phase = "mark" => me.tree \subseteq published'
    BY <1>0, <1>9 DEF PersistTree, QueueCalState, Queried, rowVars, RunState
  <2>2. ASSUME NEW s, s = me.seen, s # Null
        PROVE  s <= clock' /\ Covered(s - Lookback)'
    BY <1>0, <1>3, <2>2 DEF RunInv, Covered
  <2>. QED
    BY <1>0, <2>1, <2>2 DEF RunInv, Covered
<1>10. \/ run'[r] = run[r] \/ run'[r] = Idle
       \/ ReadMarker(r) \/ SetBounds(r) \/ QueryRows(r) \/ PersistTree(r) \/ QueueCalState(r)
  <2>1. ASSUME NEW q \in Run, RunStep(q) \/ AbortRun(q), q # r
        PROVE  run'[r] = run[r]
    BY <1>0, <2>1 DEF RunStep, ReadMarker, SetBounds, QueryRows, PersistTree,
                      QueueCalState, SetMarker, MoveMarker, AbortRun
  <2>2. SetMarker(r) \/ AbortRun(r) => run'[r] = Idle
    BY <1>0 DEF SetMarker, MoveMarker, AbortRun
  <2>3. \/ run' = run
        \/ \E q \in Run : RunStep(q) \/ AbortRun(q)
    BY DEF Next, vars, Tick, CloseChannel, OpenChannel, WriteRow, RevealRow
  <2>. QED
    BY <2>1, <2>2, <2>3 DEF RunStep
<1>. QED
  BY <1>4, <1>5, <1>6, <1>7, <1>8, <1>9, <1>10

(* The inductive invariant holds throughout. *)
LEMMA IntervalInvariant == Spec => []IntervalInv
<1>1. Init => IntervalInv
  BY InitTypeOK DEF Init, IntervalInv, RowInv, MarkerInv, RunInv, Idle, Queried
<1>2. IntervalInv /\ [Next]_vars => IntervalInv'
  <2>. SUFFICES ASSUME IntervalInv, [Next]_vars PROVE IntervalInv'
    OBVIOUS
  <2>1. TypeOK' /\ RowInv'
    BY NextTypeOK, NextRowInv DEF IntervalInv
  <2>2. MarkerInv'
    BY <2>1, NextMarkerInv
  <2>3. \A r \in Run : RunInv(r)'
    BY <2>1, NextRunInv
  <2>. QED
    BY <2>1, <2>2, <2>3 DEF IntervalInv
<1>. QED
  BY <1>1, <1>2, PTL DEF Spec

(* However runs of processCalendarInterval overlap, fail or move the       *)
(* timestamp back, no aggregation older than the look-back of the next run *)
(* is left out, provided rows become readable in less than the look-back.  *)
THEOREM NothingSkipped == Spec => []NoAggregationSkipped
<1>1. IntervalInv => NoAggregationSkipped
  BY DEF IntervalInv, MarkerInv, Covered, NoAggregationSkipped
<1>. QED
  BY <1>1, IntervalInvariant, PTL
=============================================================================
