--------------------------- MODULE CalendarProofs ---------------------------
(***************************************************************************)
(* Theorems about modules CalendarChain and BtcAnchorInterval: the writes  *)
(* of calendar blocks, for any number of services, writes, retries and     *)
(* database faults, and then the aggregation of the calendar for Bitcoin,  *)
(* for any number of overlapping runs and any number of blocks and         *)
(* failures.                                                               *)
(***************************************************************************)
EXTENDS CalendarChain, BtcAnchorInterval, FiniteSetTheorems, TLAPS

(* Both ways the table grows: by the genesis block, or by the block a      *)
(* transaction built, neither of which breaks a unique key.                *)
Adds(row) ==
    /\ ~ViolatesUnique(row)
    /\ table' = table \cup {row}

TableStep ==
    \/ UNCHANGED table
    \/ Adds(L!GenesisBlock)
    \/ \E w \in Write : phase[w] = "commit" /\ Adds(NewBlock(w))

(* A transaction past its SELECT has read a block that is in the table. *)
ReadIsCommitted ==
    \A w \in Write : phase[w] \in {"insert", "commit"} => prevBlock[w] \in table

ChainInv == TypeOK /\ HeightsSound /\ Chained /\ ReadIsCommitted

-----------------------------------------------------------------------------

(* Every step leaves the table alone or adds one admissible row to it. *)
LEMMA StepOfTable == [Next]_vars => TableStep
<1>. SUFFICES ASSUME [Next]_vars PROVE TableStep
  OBVIOUS
<1>1. CASE UNCHANGED vars
  BY <1>1 DEF vars, TableStep
<1>2. ASSUME NEW i \in Instance, ServiceStep(i) \/ Crash(i)
      PROVE  TableStep
  BY <1>2 DEF ServiceStep, CountBlocks, RecountBlocks, CreateGenesis, Crash,
              TableStep, Adds
<1>3. ASSUME NEW w \in Write, CommitBlock(w) \/ LoseCommitReply(w)
      PROVE  TableStep
  BY <1>3 DEF CommitBlock, LoseCommitReply, TableStep, Adds
<1>4. ASSUME NEW w \in Write,
             \/ StartWrite(w) \/ BeginTransaction(w) \/ ReadTopBlock(w)
             \/ InsertBlock(w) \/ FailBegin(w) \/ FailStatement(w)
      PROVE  TableStep
  BY <1>4 DEF StartWrite, BeginTransaction, ReadTopBlock, InsertBlock, FailBegin,
              FailStatement, TableStep
<1>. QED
  BY <1>1, <1>2, <1>3, <1>4 DEF Next, WriteStep

(* The type invariant holds initially and is preserved by every step. *)
LEMMA InitTypeOK == Init => TypeOK
BY BoundsAssumption DEF Init, TypeOK, InFlight, InTransaction, Finished

(* Every step keeps the types. *)
LEMMA NextTypeOK == TypeOK /\ [Next]_vars => TypeOK'
<1>. SUFFICES ASSUME TypeOK, [Next]_vars PROVE TypeOK'
  OBVIOUS
<1>. USE BoundsAssumption DEF TypeOK, InFlight, InTransaction, Finished
<1>1. CASE UNCHANGED vars
  BY <1>1 DEF vars
<1>2. ASSUME NEW i \in Instance, CountBlocks(i) \/ RecountBlocks(i)
      PROVE  TypeOK'
  BY <1>2 DEF CountBlocks, RecountBlocks, writeVars
<1>3. ASSUME NEW i \in Instance, CreateGenesis(i)
      PROVE  TypeOK'
  BY <1>3 DEF CreateGenesis, writeVars, Fault, L!GenesisBlock, L!Block
<1>4. ASSUME NEW i \in Instance, Crash(i)
      PROVE  TypeOK'
  BY <1>4 DEF Crash
<1>5. ASSUME NEW w \in Write, StartWrite(w)
      PROVE  TypeOK'
  BY <1>5 DEF StartWrite
<1>6. ASSUME NEW w \in Write, BeginTransaction(w) \/ InsertBlock(w)
      PROVE  TypeOK'
  BY <1>6 DEF BeginTransaction, InsertBlock, Retry
<1>7. ASSUME NEW w \in Write, ReadTopBlock(w)
      PROVE  TypeOK'
  <2>1. prevBlock' \in [Write -> table' \cup {NoBlock}]
    BY <1>7 DEF ReadTopBlock, L!IsTip
  <2>. QED
    BY <1>7, <2>1 DEF ReadTopBlock, Retry
<1>8. ASSUME NEW w \in Write, FailBegin(w) \/ FailStatement(w)
      PROVE  TypeOK'
  BY <1>8 DEF FailBegin, FailStatement, Retry, Fault
<1>9. ASSUME NEW w \in Write, CommitBlock(w) \/ LoseCommitReply(w)
      PROVE  TypeOK'
  <2>1. NewBlock(w).id \in Nat /\ NewBlock(w).data = w
    BY DEF NewBlock, L!Block, NoBlock
  <2>2. NewBlock(w) = L!Block(NewBlock(w).id, NewBlock(w).data, NewBlock(w).prevHash)
    BY DEF NewBlock, L!Block
  <2>3. table' \subseteq table \cup {NewBlock(w)} /\ table \subseteq table'
    BY <1>9 DEF CommitBlock, LoseCommitReply
  <2>4. /\ \A r \in table' : /\ r.id \in Nat
                             /\ r.data \in Write \cup {GenesisData}
                             /\ r = L!Block(r.id, r.data, r.prevHash)
        /\ prevBlock' \in [Write -> table' \cup {NoBlock}]
    BY <1>9, <2>1, <2>2, <2>3 DEF CommitBlock, LoseCommitReply
  <2>5. CASE CommitBlock(w)
    BY <2>4, <2>5 DEF CommitBlock, Retry
  <2>6. CASE LoseCommitReply(w)
    BY <2>4, <2>6 DEF LoseCommitReply, Retry, Fault
  <2>. QED
    BY <1>9, <2>5, <2>6
<1>. QED
  BY <1>1, <1>2, <1>3, <1>4, <1>5, <1>6, <1>7, <1>8, <1>9
     DEF Next, ServiceStep, WriteStep

(* The model's variables keep their types, whatever the services do. *)
THEOREM TypeCorrect == Spec => []TypeOK
<1>. QED
  BY InitTypeOK, NextTypeOK, PTL DEF Spec

-----------------------------------------------------------------------------

(* A transaction that may commit has read the tip of the table: the unique *)
(* key on the height catches every write that came in between.             *)
LEMMA CommitsOnTip ==
  ASSUME ChainInv, NEW w \in Write, phase[w] = "commit", ~ViolatesUnique(NewBlock(w))
  PROVE  L!IsTip(prevBlock[w], table)
<1>. DEFINE top == prevBlock[w]
<1>1. top \in table /\ top.id \in Nat
  BY DEF ChainInv, ReadIsCommitted, TypeOK
<1>2. \A r \in table : r.id # top.id + 1
  BY DEF ViolatesUnique, NewBlock, L!Block
<1>3. ASSUME NEW r \in table PROVE r.id <= top.id
  <2>1. r.id \in Nat
    BY DEF ChainInv, TypeOK
  <2>2. SUFFICES ASSUME r.id > top.id PROVE FALSE
    BY <1>1, <2>1
  <2>3. top.id + 1 \in 0..r.id
    BY <1>1, <2>1, <2>2
  <2>. QED
    BY <1>2, <2>3 DEF ChainInv, HeightsSound
<1>. QED
  BY <1>1, <1>3 DEF L!IsTip

(* The genesis block goes into an empty table only. *)
LEMMA GenesisIsFirst ==
  ASSUME ChainInv, ~ViolatesUnique(L!GenesisBlock)
  PROVE  table = {}
<1>1. SUFFICES ASSUME NEW r \in table PROVE FALSE
  OBVIOUS
<1>2. PICK q \in table : q.id = 0
  BY DEF ChainInv, HeightsSound, TypeOK
<1>. QED
  BY <1>2 DEF ViolatesUnique, L!GenesisBlock, L!Block

(* Rows stay sound and chained whichever row is added. *)
LEMMA TableStepSafe ==
  ASSUME ChainInv, TableStep
  PROVE  HeightsSound' /\ Chained'
<1>1. CASE UNCHANGED table
  BY <1>1 DEF ChainInv, HeightsSound, Chained
<1>2. CASE Adds(L!GenesisBlock)
  <2>1. table' = {L!GenesisBlock}
    BY <1>2, GenesisIsFirst DEF Adds
  <2>2. L!GenesisBlock.id = 0
    BY DEF L!GenesisBlock, L!Block
  <2>. QED
    BY <2>1, <2>2 DEF HeightsSound, Chained
<1>3. ASSUME NEW w \in Write, phase[w] = "commit", Adds(NewBlock(w))
      PROVE  HeightsSound' /\ Chained'
  <2>. DEFINE top == prevBlock[w]
              new == NewBlock(w)
  <2>1. top \in table /\ top.id \in Nat /\ \A r \in table : r.id <= top.id
    BY <1>3, CommitsOnTip DEF Adds, L!IsTip, ChainInv, TypeOK
  <2>2. new.id = top.id + 1 /\ new.prevHash = top.hash
    BY DEF NewBlock, L!Block
  <2>3. table' = table \cup {new}
    BY <1>3 DEF Adds
  <2>4. \A r \in table : r.id \in Nat
    BY DEF ChainInv, TypeOK
  <2>5. \A r, q \in table' : r.id = q.id => r = q
    BY <2>1, <2>2, <2>3, <2>4 DEF ChainInv, HeightsSound
  <2>6. ASSUME NEW r \in table', NEW k \in 0..r.id
        PROVE  \E q \in table' : q.id = k
    <3>1. CASE r \in table
      BY <2>3, <3>1 DEF ChainInv, HeightsSound
    <3>2. CASE r = new /\ k = top.id + 1
      BY <2>2, <2>3, <3>2
    <3>3. CASE r = new /\ k # top.id + 1
      <4>1. k \in 0..top.id
        BY <2>1, <2>2, <3>3
      <4>. QED
        BY <2>1, <2>3, <4>1 DEF ChainInv, HeightsSound
    <3>. QED
      BY <2>3, <3>1, <3>2, <3>3
  <2>7. Chained'
    <3>1. ASSUME NEW r \in table'
          PROVE  IF r.id = 0 THEN r = L!GenesisBlock
                             ELSE \E q \in table' : q.id + 1 = r.id /\ q.hash = r.prevHash
      <4>1. CASE r \in table
        BY <2>3, <4>1 DEF ChainInv, Chained
      <4>2. CASE r = new
        BY <2>1, <2>2, <2>3, <4>2
      <4>. QED
        BY <2>3, <4>1, <4>2
    <3>. QED
      BY <3>1 DEF Chained
  <2>8. HeightsSound'
    BY <2>5, <2>6 DEF HeightsSound
  <2>. QED
    BY <2>7, <2>8
<1>. QED
  BY <1>1, <1>2, <1>3 DEF TableStep

(* A row a transaction has read stays committed. *)
LEMMA NextReadIsCommitted == ChainInv /\ [Next]_vars => ReadIsCommitted'
<1>. SUFFICES ASSUME ChainInv, [Next]_vars PROVE ReadIsCommitted'
  OBVIOUS
<1>. USE DEF ReadIsCommitted, ChainInv, TypeOK, InTransaction, InFlight
<1>0. table \subseteq table'
  BY StepOfTable DEF TableStep, Adds
<1>1. CASE UNCHANGED vars
  BY <1>1 DEF vars
<1>2. ASSUME NEW i \in Instance, ServiceStep(i) \/ Crash(i)
      PROVE  ReadIsCommitted'
  BY <1>0, <1>2 DEF ServiceStep, CountBlocks, RecountBlocks, CreateGenesis, Crash, writeVars
<1>3. ASSUME NEW w \in Write, ReadTopBlock(w)
      PROVE  ReadIsCommitted'
  <2>1. CASE \E top \in table :
                /\ L!IsTip(top, table)
                /\ prevBlock' = [prevBlock EXCEPT ![w] = top]
                /\ phase' = [phase EXCEPT ![w] = "insert"]
    <3>. PICK top \in table : /\ prevBlock' = [prevBlock EXCEPT ![w] = top]
                              /\ phase' = [phase EXCEPT ![w] = "insert"]
      BY <2>1
    <3>. SUFFICES ASSUME NEW v \in Write, phase'[v] \in {"insert", "commit"}
                  PROVE  prevBlock'[v] \in table'
      OBVIOUS
    <3>. QED
      BY <1>0
  <2>2. CASE table = {} /\ Retry(w) /\ UNCHANGED prevBlock
    BY <1>0, <2>2 DEF Retry
  <2>. QED
    BY <1>3, <2>1, <2>2 DEF ReadTopBlock
<1>4. ASSUME NEW w \in Write, StartWrite(w) \/ BeginTransaction(w) \/ FailBegin(w)
      PROVE  ReadIsCommitted'
  BY <1>0, <1>4 DEF StartWrite, BeginTransaction, FailBegin, Retry
<1>5. ASSUME NEW w \in Write,
             InsertBlock(w) \/ CommitBlock(w) \/ FailStatement(w) \/ LoseCommitReply(w)
      PROVE  ReadIsCommitted'
  BY <1>0, <1>5 DEF InsertBlock, CommitBlock, FailStatement, LoseCommitReply, Retry
<1>. QED
  BY <1>1, <1>2, <1>3, <1>4, <1>5 DEF Next, WriteStep

(* The inductive invariant holds throughout. *)
LEMMA ChainInvariant == Spec => []ChainInv
<1>1. Init => ChainInv
  BY InitTypeOK DEF Init, ChainInv, HeightsSound, Chained, ReadIsCommitted
<1>2. ChainInv /\ [Next]_vars => ChainInv'
  BY NextTypeOK, StepOfTable, TableStepSafe, NextReadIsCommitted DEF ChainInv
<1>. QED
  BY <1>1, <1>2, PTL DEF Spec

(* Heights in the calendar are unique and without gaps, whichever services *)
(* write, retry, fail or crash (writeTransactionAsync with CalendarBlock's *)
(* unique keys).                                                           *)
THEOREM HeightsAlwaysSound == Spec => []HeightsSound
<1>1. ChainInv => HeightsSound
  BY DEF ChainInv
<1>. QED
  BY <1>1, ChainInvariant, PTL

(* Every block carries the hash of the block below it, down to the genesis *)
(* block that initializeCalendarBlock0Async creates.                       *)
THEOREM AlwaysChained == Spec => []Chained
<1>1. ChainInv => Chained
  BY DEF ChainInv
<1>. QED
  BY <1>1, ChainInvariant, PTL

(* The table shared by all calendar services implements the ledger: each   *)
(* step creates the genesis block, appends to the tip, or changes nothing. *)
THEOREM ChainImplementsLedger == Spec => ImplementsLedger
<1>1. Init => L!Init
  BY DEF Init, L!Init
<1>2. ChainInv /\ [Next]_vars => [L!Next]_table
  <2>. SUFFICES ASSUME ChainInv, TableStep PROVE [L!Next]_table
    BY StepOfTable
  <2>1. CASE UNCHANGED table
    BY <2>1
  <2>2. CASE Adds(L!GenesisBlock)
    BY <2>2, GenesisIsFirst DEF Adds, L!Next, L!CreateGenesis
  <2>3. ASSUME NEW w \in Write, phase[w] = "commit", Adds(NewBlock(w))
        PROVE  L!Next
    <3>1. L!IsTip(prevBlock[w], table)
      BY <2>3, CommitsOnTip DEF Adds
    <3>2. L!Append(w)
      BY <2>3, <3>1 DEF Adds, L!Append, L!IsTip, NewBlock
    <3>. QED
      BY <3>2 DEF L!Next
  <2>. QED
    BY <2>1, <2>2, <2>3 DEF TableStep
<1>. QED
  BY <1>1, <1>2, ChainInvariant, PTL DEF Spec, ImplementsLedger, L!Spec

-----------------------------------------------------------------------------

(* Of a write whose outcome is known only "done" says that it has a block  *)
(* it knows of.                                                            *)
Reported(w) == IF phase[w] = "done" THEN 1 ELSE 0

CountInv == TypeOK /\ IsFiniteSet(table) /\ BlocksAccountedFor

(* A step that adds no row of write w, loses no reply of it and does not   *)
(* end or reopen it keeps the account of w.                                *)
LEMMA AccountKept ==
  ASSUME CountInv, NEW w \in Write,
         BlocksOf(w)' = BlocksOf(w), lostCommits'[w] = lostCommits[w],
         phase'[w] = "done" <=> phase[w] = "done"
  PROVE  Cardinality(BlocksOf(w)') = lostCommits'[w] + Reported(w)'
BY DEF CountInv, BlocksAccountedFor, Reported

(* Admitting the row of a write adds one to its blocks, and nothing to     *)
(* those of the others.                                                    *)
LEMMA OneMoreBlock ==
  ASSUME CountInv, NEW w \in Write, Adds(NewBlock(w))
  PROVE  /\ IsFiniteSet(table')
         /\ Cardinality(BlocksOf(w)') = Cardinality(BlocksOf(w)) + 1
         /\ \A v \in Write : v # w => BlocksOf(v)' = BlocksOf(v)
<1>. DEFINE new == NewBlock(w)
<1>1. table' = table \cup {new} /\ new \notin table /\ new.data = w
  BY DEF Adds, ViolatesUnique, NewBlock, L!Block
<1>. HIDE DEF new
<1>2. BlocksOf(w)' = BlocksOf(w) \cup {new} /\ new \notin BlocksOf(w)
  BY <1>1 DEF BlocksOf
<1>3. IsFiniteSet(table) /\ IsFiniteSet(BlocksOf(w))
  <2>1. BlocksOf(w) \subseteq table
    BY DEF BlocksOf
  <2>. QED
    BY <2>1, FS_Subset DEF CountInv
<1>4. IsFiniteSet(table')
  BY <1>1, <1>3, FS_AddElement
<1>5. Cardinality(BlocksOf(w)') = Cardinality(BlocksOf(w)) + 1
  BY <1>2, <1>3, FS_AddElement
<1>6. \A v \in Write : v # w => BlocksOf(v)' = BlocksOf(v)
  BY <1>1 DEF BlocksOf
<1>. QED
  BY <1>4, <1>5, <1>6

(* A commit that took effect is counted once: as the write's outcome, or   *)
(* as a lost reply.                                                        *)
LEMMA CommitCounted ==
  ASSUME CountInv, NEW w \in Write, Adds(NewBlock(w)), CommitBlock(w) \/ LoseCommitReply(w)
  PROVE  BlocksAccountedFor'
<1>1. phase \in [Write -> {"idle"} \cup InFlight \cup Finished] /\ lostCommits \in [Write -> Nat]
  BY DEF CountInv, TypeOK
<1>2. ASSUME NEW v \in Write, v # w
      PROVE  Cardinality(BlocksOf(v)') = lostCommits'[v] + Reported(v)'
  <2>1. lostCommits'[v] = lostCommits[v] /\ phase'[v] = phase[v]
    BY <1>1, <1>2 DEF CommitBlock, LoseCommitReply, Retry
  <2>. QED
    BY <1>2, <2>1, OneMoreBlock, AccountKept
<1>3. Cardinality(BlocksOf(w)') = lostCommits'[w] + Reported(w)'
  <2>1. Cardinality(BlocksOf(w)') = lostCommits[w] + 1
    <3>1. phase[w] = "commit" /\ Cardinality(BlocksOf(w)) = lostCommits[w] + Reported(w)
      BY DEF CommitBlock, LoseCommitReply, CountInv, BlocksAccountedFor, Reported
    <3>. QED
      BY <1>1, <3>1, OneMoreBlock DEF Reported
  <2>2. CASE CommitBlock(w)
    <3>1. lostCommits'[w] = lostCommits[w] /\ phase'[w] = "done"
      BY <1>1, <2>2 DEF CommitBlock, Adds
    <3>. QED
      BY <1>1, <2>1, <3>1 DEF Reported
  <2>3. CASE LoseCommitReply(w)
    <3>1. lostCommits'[w] = lostCommits[w] + 1 /\ phase'[w] # "done"
      BY <1>1, <2>3 DEF LoseCommitReply, Retry
    <3>. QED
      BY <1>1, <2>1, <3>1 DEF Reported
  <2>. QED
    BY <2>2, <2>3
<1>. QED
  BY <1>2, <1>3 DEF BlocksAccountedFor, Reported

(* Every step keeps the account of every write. *)
LEMMA NextAccounted == CountInv /\ [Next]_vars => CountInv'
<1>. SUFFICES ASSUME CountInv, [Next]_vars PROVE IsFiniteSet(table') /\ BlocksAccountedFor'
  BY NextTypeOK DEF CountInv
<1>0. /\ IsFiniteSet(table)
      /\ phase \in [Write -> {"idle"} \cup InFlight \cup Finished]
      /\ lostCommits \in [Write -> Nat]
  BY DEF CountInv, TypeOK
<1>1. ASSUME table' = table, lostCommits' = lostCommits,
             \A v \in Write : phase'[v] = "done" <=> phase[v] = "done"
      PROVE  IsFiniteSet(table') /\ BlocksAccountedFor'
  <2>1. \A v \in Write : BlocksOf(v)' = BlocksOf(v)
    BY <1>1 DEF BlocksOf
  <2>. QED
    BY <1>0, <1>1, <2>1, AccountKept DEF BlocksAccountedFor, Reported
<1>2. CASE UNCHANGED vars
  BY <1>1, <1>2 DEF vars
<1>3. ASSUME NEW i \in Instance, CountBlocks(i) \/ RecountBlocks(i)
      PROVE  IsFiniteSet(table') /\ BlocksAccountedFor'
  BY <1>1, <1>3 DEF CountBlocks, RecountBlocks, writeVars
<1>4. ASSUME NEW i \in Instance, CreateGenesis(i)
      PROVE  IsFiniteSet(table') /\ BlocksAccountedFor'
  <2>1. table' \in {table, table \cup {L!GenesisBlock}} /\ UNCHANGED writeVars
    BY <1>4 DEF CreateGenesis
  <2>2. IsFiniteSet(table')
    BY <1>0, <2>1, FS_AddElement
  <2>3. \A v \in Write : BlocksOf(v)' = BlocksOf(v)
    BY <2>1, GenesisAssumption DEF BlocksOf, L!GenesisBlock, L!Block
  <2>4. \A v \in Write : lostCommits'[v] = lostCommits[v] /\ phase'[v] = phase[v]
    BY <2>1 DEF writeVars
  <2>. QED
    BY <2>2, <2>3, <2>4, AccountKept DEF BlocksAccountedFor, Reported
<1>5. ASSUME NEW i \in Instance, Crash(i)
      PROVE  IsFiniteSet(table') /\ BlocksAccountedFor'
  BY <1>0, <1>1, <1>5 DEF Crash, InFlight, InTransaction
<1>6. ASSUME NEW w \in Write, StartWrite(w) \/ BeginTransaction(w) \/ FailBegin(w)
      PROVE  IsFiniteSet(table') /\ BlocksAccountedFor'
  BY <1>0, <1>1, <1>6 DEF StartWrite, BeginTransaction, FailBegin, Retry
<1>7. ASSUME NEW w \in Write, ReadTopBlock(w) \/ InsertBlock(w) \/ FailStatement(w)
      PROVE  IsFiniteSet(table') /\ BlocksAccountedFor'
  BY <1>0, <1>1, <1>7 DEF ReadTopBlock, InsertBlock, FailStatement, Retry, InFlight, InTransaction
<1>8. ASSUME NEW w \in Write, CommitBlock(w) \/ LoseCommitReply(w)
      PROVE  IsFiniteSet(table') /\ BlocksAccountedFor'
  <2>1. CASE Adds(NewBlock(w))
    BY <1>8, <2>1, OneMoreBlock, CommitCounted
  <2>2. CASE ~Adds(NewBlock(w))
    BY <1>0, <1>1, <1>8, <2>2 DEF CommitBlock, LoseCommitReply, Adds, Retry
  <2>. QED
    BY <2>1, <2>2
<1>. QED
  BY <1>2, <1>3, <1>4, <1>5, <1>6, <1>7, <1>8 DEF Next, ServiceStep, WriteStep

(* A write has as many blocks in the calendar as COMMITs were hidden from  *)
(* it, plus the one it reports: async-retry repeats a block for no other   *)
(* reason (writeTransactionAsync).                                         *)
THEOREM EveryBlockAccountedFor == Spec => []BlocksAccountedFor
<1>1. Init => CountInv
  <2>. SUFFICES ASSUME Init PROVE IsFiniteSet(table) /\ BlocksAccountedFor
    BY InitTypeOK DEF CountInv
  <2>1. table = {} /\ \A w \in Write : BlocksOf(w) = {}
    BY DEF Init, BlocksOf
  <2>. QED
    BY <2>1, FS_EmptySet DEF Init, BlocksAccountedFor
<1>2. CountInv => BlocksAccountedFor
  BY DEF CountInv
<1>. QED
  BY <1>1, <1>2, NextAccounted, PTL DEF Spec

-----------------------------------------------------------------------------
(* The BTC anchor interval: definitions. *)

(* Every calendar block up to h is handed over or precedes the base of the *)
(* first run.                                                              *)
HandedOver(c) == \E a \in anchors : Covers(a, c) /\ a.id \in queued \cup dropped
Covered(h) == \A c \in cals : c <= h => c <= origin \/ HandedOver(c)

MarkerInv == marker # Null => marker < height /\ Covered(marker)

Built == {"queue", "mark"}
Read == {"anchor"} \cup Built

(* A run that found a height starts right above it, and once its block is  *)
(* written that block covers everything between its base and its end.      *)
RunInv(r) ==
    /\ run[r].seen # Null =>
          /\ run[r].seen < height /\ Covered(run[r].seen)
          /\ run[r].base = run[r].seen
    /\ run[r].phase = "default" => run[r].seen = Null
    /\ run[r].phase \in Read => run[r].last < height
    /\ run[r].phase \in Built =>
          [id |-> run[r].id, first |-> run[r].base + 1, last |-> run[r].last] \in anchors
    /\ run[r].phase = "mark" => run[r].id \in queued \cup dropped

AnchorInv == AnchorTypeOK /\ MarkerInv /\ \A r \in Run : RunInv(r)

-----------------------------------------------------------------------------

(* The initial state has its type. *)
LEMMA AnchorInitTypeOK == AnchorInit => AnchorTypeOK
BY AnchorBoundsAssumption DEF AnchorInit, AnchorTypeOK, Idle, RunState, Phase

(* Every step keeps the types. *)
LEMMA AnchorNextTypeOK == AnchorTypeOK /\ [AnchorNext]_anchorVars => AnchorTypeOK'
<1>. SUFFICES ASSUME AnchorTypeOK, [AnchorNext]_anchorVars PROVE AnchorTypeOK'
  OBVIOUS
<1>. USE AnchorBoundsAssumption DEF AnchorTypeOK, ledger, outputs
<1>1. CASE UNCHANGED anchorVars
  BY <1>1 DEF anchorVars
<1>2. CASE AppendCalBlock \/ AppendOtherBlock
  <2>1. height' = height + 1 /\ cals' \in SUBSET Nat
    BY <1>2 DEF AppendCalBlock, AppendOtherBlock
  <2>2. UNCHANGED <<anchors, marker, channel, run, queued, dropped, origin, anchorFaults>>
    BY <1>2 DEF AppendCalBlock, AppendOtherBlock
  <2>. QED
    BY <2>1, <2>2
<1>3. CASE CloseChannel \/ OpenChannel
  <2>1. channel' \in {"open", "closed"} /\ anchorFaults' \in Nat
    BY <1>3 DEF CloseChannel, OpenChannel, AnchorFault
  <2>2. UNCHANGED <<height, cals, anchors, marker, run, queued, dropped, origin>>
    BY <1>3 DEF CloseChannel, OpenChannel
  <2>. QED
    BY <2>1, <2>2
<1>4. ASSUME NEW r \in Run, RunStep(r) \/ AbortRun(r)
      PROVE  AnchorTypeOK'
  <2>. USE DEF RunState, Phase, Idle, Anchor
  <2>0. run[r] \in RunState
    OBVIOUS
  <2>1. CASE ReadMarker(r)
    <3>1. CASE marker = Null
      <4>1. run' = [run EXCEPT ![r] = [@ EXCEPT !.phase = "default", !.seen = Null]]
        BY <2>1, <3>1 DEF ReadMarker
      <4>2. run' \in [Run -> RunState]
        BY <2>0, <4>1
      <4>. QED
        BY <2>1, <4>2 DEF ReadMarker
    <3>2. CASE marker # Null
      <4>1. run' = [run EXCEPT ![r] =
                      [@ EXCEPT !.phase = "blocks", !.seen = marker, !.base = marker]]
        BY <2>1, <3>2 DEF ReadMarker
      <4>2. run' \in [Run -> RunState]
        BY <2>0, <3>2, <4>1
      <4>. QED
        BY <2>1, <4>2 DEF ReadMarker
    <3>. QED
      BY <3>1, <3>2
  <2>2. CASE DefaultBase(r)
    <3>1. PICK b \in {a.id : a \in anchors} \cup {-1} :
                 run' = [run EXCEPT ![r].phase = "blocks", ![r].base = b]
      BY <2>2 DEF DefaultBase
    <3>2. b \in Nat \cup {-1}
      OBVIOUS
    <3>. DEFINE new == [run[r] EXCEPT !.phase = "blocks", !.base = b]
    <3>3. new \in RunState
      BY <2>0, <3>2
    <3>4. run' = [run EXCEPT ![r] = new]
      BY <3>1
    <3>. HIDE DEF new
    <3>5. run' \in [Run -> RunState]
      BY <3>3, <3>4
    <3>. QED
      BY <2>2, <3>5 DEF DefaultBase
  <2>3. CASE ReadBlocks(r)
    <3>1. height - 1 \in Nat
      OBVIOUS
    <3>. DEFINE new == [run[r] EXCEPT !.phase = "anchor", !.last = height - 1]
    <3>2. new \in RunState /\ Idle \in RunState
      BY <2>0, <3>1
    <3>3. run' = [run EXCEPT ![r] = new] \/ run' = [run EXCEPT ![r] = Idle]
      BY <2>3 DEF ReadBlocks
    <3>. HIDE DEF new
    <3>4. run' \in [Run -> RunState]
      BY <3>2, <3>3
    <3>. QED
      BY <2>3, <3>4 DEF ReadBlocks
  <2>4. CASE WriteAnchorBlock(r)
    <3>1. [id |-> height, first |-> run[r].base + 1, last |-> run[r].last] \in Anchor
      BY <2>0
    <3>. DEFINE new == [run[r] EXCEPT !.phase = "queue", !.id = height]
    <3>2. new \in RunState
      BY <2>0
    <3>3. run' = [run EXCEPT ![r] = new]
      BY <2>4 DEF WriteAnchorBlock
    <3>. HIDE DEF new
    <3>4. run' \in [Run -> RunState]
      BY <3>2, <3>3
    <3>. QED
      BY <2>4, <3>1, <3>4 DEF WriteAnchorBlock
  <2>5. CASE QueueAnchorState(r)
    BY <2>5 DEF QueueAnchorState
  <2>6. CASE SetMarker(r)
    <3>1. PICK id \in Highest(run[r].base + 1, run[r].last) : MoveMarker(r, id)
      BY <2>6 DEF SetMarker
    <3>2. id \in Nat /\ run[r].base \in Nat \cup {-1}
      BY DEF Highest, RunState
    <3>. QED
      BY <3>1, <3>2 DEF MoveMarker
  <2>7. CASE AbortRun(r)
    BY <2>7 DEF AbortRun, AnchorFault
  <2>. QED
    BY <1>4, <2>1, <2>2, <2>3, <2>4, <2>5, <2>6, <2>7 DEF RunStep
<1>. QED
  BY <1>1, <1>2, <1>3, <1>4 DEF AnchorNext

(* The model's variables keep their types. *)
THEOREM AnchorTypeCorrect == AnchorSpec => []AnchorTypeOK
<1>. QED
  BY AnchorInitTypeOK, AnchorNextTypeOK, PTL DEF AnchorSpec

-----------------------------------------------------------------------------

(* The calendar, the trees and the hand-overs only grow. *)
LEMMA OnlyGrows ==
  ASSUME AnchorTypeOK, [AnchorNext]_anchorVars
  PROVE  /\ height \in Nat /\ height' \in Nat /\ height <= height'
         /\ anchors \subseteq anchors'
         /\ queued \cup dropped \subseteq queued' \cup dropped'
         /\ cals' = cals \/ cals' = cals \cup {height}
<1>1. /\ height' = height \/ height' = height + 1
      /\ cals' = cals \/ cals' = cals \cup {height}
  BY DEF AnchorNext, anchorVars, ledger, AppendCalBlock, AppendOtherBlock, CloseChannel, OpenChannel,
         RunStep, ReadMarker, DefaultBase, ReadBlocks, WriteAnchorBlock, QueueAnchorState,
         SetMarker, MoveMarker, AbortRun
<1>2. anchors \subseteq anchors'
  BY DEF AnchorNext, anchorVars, ledger, AppendCalBlock, AppendOtherBlock, CloseChannel, OpenChannel,
         RunStep, ReadMarker, DefaultBase, ReadBlocks, WriteAnchorBlock, QueueAnchorState,
         SetMarker, MoveMarker, AbortRun
<1>3. queued \cup dropped \subseteq queued' \cup dropped'
  BY DEF AnchorNext, anchorVars, outputs, AppendCalBlock, AppendOtherBlock, CloseChannel, OpenChannel,
         RunStep, ReadMarker, DefaultBase, ReadBlocks, WriteAnchorBlock, QueueAnchorState,
         SetMarker, MoveMarker, AbortRun
<1>. QED
  BY <1>1, <1>2, <1>3 DEF AnchorTypeOK

(* The origin excused by first runs never moves down. *)
LEMMA OriginGrows ==
  ASSUME AnchorTypeOK, [AnchorNext]_anchorVars
  PROVE  origin \in Int /\ origin' \in Int /\ origin <= origin'
<1>1. origin' = origin \/ \E r \in Run : SetMarker(r)
  BY DEF AnchorNext, anchorVars, AppendCalBlock, AppendOtherBlock, CloseChannel, OpenChannel,
         RunStep, ReadMarker, DefaultBase, ReadBlocks, WriteAnchorBlock, QueueAnchorState,
         AbortRun
<1>2. origin \in Int /\ \A r \in Run : run[r].base \in Int
  BY DEF AnchorTypeOK, RunState
<1>. QED
  BY <1>1, <1>2 DEF SetMarker, MoveMarker

(* Covered ground stays covered: a new block is higher than any marker.    *)
LEMMA CoveredStable ==
  ASSUME AnchorTypeOK, [AnchorNext]_anchorVars, NEW h \in Int, h < height, Covered(h)
  PROVE  Covered(h)'
<1>1. ASSUME NEW c, HandedOver(c)
      PROVE  HandedOver(c)'
  BY <1>1, OnlyGrows DEF HandedOver, Covers
<1>2. \A c \in cals' : c <= h => c \in cals
  BY OnlyGrows DEF AnchorTypeOK
<1>3. \A c \in cals : c \in Int
  BY DEF AnchorTypeOK
<1>. QED
  BY <1>1, <1>2, <1>3, OriginGrows DEF Covered

(* When a run moves the marker, everything up to the highest block of its  *)
(* tree is covered: below its base by what it started from, above it by    *)
(* its own tree.                                                           *)
LEMMA SetMarkerCovers ==
  ASSUME AnchorInv, NEW r \in Run, NEW h \in Highest(run[r].base + 1, run[r].last),
         MoveMarker(r, h)
  PROVE  h \in Nat /\ h < height' /\ Covered(h)'
<1>1. /\ run[r] \in RunState /\ run[r].phase = "mark" /\ RunInv(r)
      /\ \A c \in cals : c \in Int
      /\ origin \in Int
  BY DEF AnchorInv, AnchorTypeOK, MoveMarker
<1>0. /\ h \in Nat /\ h <= run[r].last
      /\ run[r].last \in Nat /\ height \in Nat /\ run[r].last < height
  <2>1. run[r].base + 1 \in Int /\ run[r].last \in Nat
    BY <1>1 DEF RunState
  <2>2. h = run[r].last \/ (h \in Nines /\ h <= run[r].last)
    BY <2>1 DEF Highest
  <2>3. height \in Nat /\ run[r].last < height
    BY <1>1 DEF AnchorInv, AnchorTypeOK, RunInv, Read, Built
  <2>4. h \in Nat
    BY <2>1, <2>2, AnchorBoundsAssumption
  <2>5. CASE h = run[r].last
    BY <2>1, <2>3, <2>4, <2>5
  <2>6. CASE h <= run[r].last
    BY <2>1, <2>3, <2>4, <2>6
  <2>. QED
    BY <2>2, <2>5, <2>6
<1>2. /\ cals' = cals /\ anchors' = anchors /\ height' = height
      /\ queued' = queued /\ dropped' = dropped
      /\ origin' = IF run[r].seen = Null /\ run[r].base > origin THEN run[r].base ELSE origin
  BY DEF MoveMarker, ledger, outputs
<1>3. ASSUME NEW c \in cals, c <= h
      PROVE  c <= origin' \/ HandedOver(c)
  <2>1. CASE c > run[r].base
    <3>. DEFINE a == [id |-> run[r].id, first |-> run[r].base + 1, last |-> run[r].last]
    <3>1. a \in anchors /\ a.id \in queued \cup dropped
      BY <1>1 DEF RunInv, Read, Built
    <3>2. Covers(a, c)
      BY <1>0, <1>1, <1>3, <2>1 DEF Covers, RunState
    <3>. QED
      BY <3>1, <3>2 DEF HandedOver
  <2>2. CASE c <= run[r].base /\ run[r].seen = Null
    BY <1>1, <1>2, <2>2 DEF RunState
  <2>3. CASE c <= run[r].base /\ run[r].seen # Null
    <3>1. c <= origin \/ HandedOver(c)
      BY <1>1, <2>3 DEF RunInv, Covered
    <3>. QED
      BY <1>1, <1>2, <2>3, <3>1 DEF RunState
  <2>. QED
    BY <1>1, <2>1, <2>2, <2>3 DEF RunState
<1>4. h \in Nat /\ h < height'
  BY <1>0, <1>2
<1>. QED
  BY <1>2, <1>3, <1>4 DEF Covered, HandedOver, Covers

(* Every step leaves everything up to the stored height covered. *)
LEMMA NextMarkerInv ==
  ASSUME AnchorInv, [AnchorNext]_anchorVars
  PROVE  MarkerInv'
<1>1. ASSUME NEW r \in Run, SetMarker(r)
      PROVE  MarkerInv'
  <2>. PICK h \in Highest(run[r].base + 1, run[r].last) : MoveMarker(r, h)
    BY <1>1 DEF SetMarker
  <2>1. h \in Nat /\ h < height' /\ Covered(h)' /\ marker' = h
    BY SetMarkerCovers DEF MoveMarker
  <2>. QED
    BY <2>1 DEF MarkerInv, Covered, HandedOver
<1>2. CASE marker' = marker
  <2>. SUFFICES ASSUME NEW m, m = marker, m # Null
                PROVE  m < height' /\ Covered(m)'
    BY <1>2 DEF MarkerInv, Covered, HandedOver
  <2>1. m \in Nat /\ m < height /\ Covered(m)
    BY DEF AnchorInv, MarkerInv, AnchorTypeOK, Covered
  <2>. QED
    BY <2>1, CoveredStable, OnlyGrows DEF AnchorInv
<1>. QED
  BY <1>1, <1>2 DEF AnchorNext, anchorVars, AppendCalBlock, AppendOtherBlock, CloseChannel, OpenChannel,
                    RunStep, ReadMarker, DefaultBase, ReadBlocks, WriteAnchorBlock,
                    QueueAnchorState, AbortRun

(* The invariant of one run, kept by its own steps and everybody else's.   *)
LEMMA NextRunInv ==
  ASSUME AnchorInv, [AnchorNext]_anchorVars, NEW r \in Run
  PROVE  RunInv(r)'
<1>. DEFINE me == run[r]
<1>0. /\ RunInv(r) /\ me \in RunState /\ run \in [Run -> RunState]
      /\ me.base \in Int /\ me.last \in Nat
  BY DEF AnchorInv, AnchorTypeOK, RunState
<1>1. /\ height \in Nat /\ height' \in Nat /\ height <= height'
      /\ anchors \subseteq anchors'
      /\ queued \cup dropped \subseteq queued' \cup dropped'
  BY OnlyGrows DEF AnchorInv
<1>2. ASSUME NEW s, s = me.seen, s # Null
      PROVE  s < height' /\ Covered(s)' /\ me.base = s
  <2>1. s \in Nat /\ s < height /\ Covered(s) /\ me.base = s
    BY <1>0, <1>2 DEF RunInv, Covered, RunState
  <2>. QED
    BY <1>1, <2>1, CoveredStable DEF AnchorInv
<1>3. CASE run'[r] = run[r]
  BY <1>0, <1>1, <1>2, <1>3 DEF RunInv, Covered, HandedOver, Read, Built
<1>4. CASE run'[r] = Idle
  BY <1>4 DEF RunInv, Idle, Read, Built
<1>5. CASE ReadMarker(r)
  <2>1. /\ marker = Null => me'.phase = "default" /\ me'.seen = Null
        /\ marker # Null => me'.phase = "blocks" /\ me'.seen = marker /\ me'.base = marker
    BY <1>0, <1>5 DEF ReadMarker, RunState
  <2>2. ASSUME NEW m, m = marker, m # Null
        PROVE  m < height' /\ Covered(m)'
    <3>1. m \in Nat /\ m < height /\ Covered(m)
      BY <2>2 DEF AnchorInv, MarkerInv, AnchorTypeOK, Covered
    <3>. QED
      BY <1>1, <3>1, CoveredStable DEF AnchorInv
  <2>. QED
    BY <2>1, <2>2 DEF RunInv, Covered, HandedOver, Read, Built
<1>6. CASE DefaultBase(r)
  <2>. PICK b : run' = [run EXCEPT ![r].phase = "blocks", ![r].base = b]
    BY <1>6 DEF DefaultBase
  <2>1. me'.phase = "blocks" /\ me'.seen = me.seen
    BY <1>0 DEF RunState
  <2>2. me.seen = Null
    BY <1>0, <1>6 DEF DefaultBase, RunInv
  <2>. QED
    BY <2>1, <2>2 DEF RunInv, Read, Built
<1>7. CASE ReadBlocks(r) /\ run'[r] # Idle
  <2>1. /\ me'.phase = "anchor" /\ me'.seen = me.seen /\ me'.base = me.base
        /\ me'.last = height - 1
    BY <1>0, <1>7 DEF ReadBlocks, RunState
  <2>. QED
    BY <1>0, <1>1, <1>2, <2>1 DEF RunInv, Covered, HandedOver, Read, Built
<1>8. CASE WriteAnchorBlock(r)
  <2>1. /\ me'.phase = "queue" /\ me'.seen = me.seen /\ me'.base = me.base
        /\ me'.last = me.last /\ me'.id = height /\ me.last < height
        /\ [id |-> height, first |-> me.base + 1, last |-> me.last] \in anchors'
    BY <1>0, <1>8 DEF WriteAnchorBlock, RunState, RunInv, Read
  <2>. QED
    BY <1>0, <1>1, <1>2, <2>1 DEF RunInv, Covered, HandedOver, Read, Built
<1>9. CASE QueueAnchorState(r)
  <2>1. /\ me'.phase = "mark" /\ me'.seen = me.seen /\ me'.base = me.base
        /\ me'.last = me.last /\ me'.id = me.id
        /\ me.id \in queued' \cup dropped'
        /\ me.last < height
        /\ [id |-> me.id, first |-> me.base + 1, last |-> me.last] \in anchors'
    BY <1>0, <1>1, <1>9 DEF QueueAnchorState, RunState, RunInv, Read, Built
  <2>. QED
    BY <1>0, <1>1, <1>2, <2>1 DEF RunInv, Covered, HandedOver, Read, Built
<1>10. \/ run'[r] = run[r] \/ run'[r] = Idle
       \/ ReadMarker(r) \/ DefaultBase(r) \/ ReadBlocks(r)
       \/ WriteAnchorBlock(r) \/ QueueAnchorState(r)
  <2>1. ASSUME NEW q \in Run, RunStep(q) \/ AbortRun(q), q # r
        PROVE  run'[r] = run[r]
    BY <1>0, <2>1 DEF RunStep, ReadMarker, DefaultBase, ReadBlocks, WriteAnchorBlock,
                      QueueAnchorState, SetMarker, MoveMarker, AbortRun
  <2>2. SetMarker(r) \/ AbortRun(r) => run'[r] = Idle
    BY <1>0 DEF SetMarker, MoveMarker, AbortRun
  <2>3. run' = run \/ \E q \in Run : RunStep(q) \/ AbortRun(q)
    BY DEF AnchorNext, anchorVars, AppendCalBlock, AppendOtherBlock, CloseChannel, OpenChannel
  <2>. QED
    BY <2>1, <2>2, <2>3 DEF RunStep
<1>. QED
  BY <1>3, <1>4, <1>5, <1>6, <1>7, <1>8, <1>9, <1>10

(* The inductive invariant holds throughout. *)
LEMMA AnchorInvariant == AnchorSpec => []AnchorInv
<1>1. AnchorInit => AnchorInv
  BY AnchorInitTypeOK DEF AnchorInit, AnchorInv, MarkerInv, RunInv, Idle, Read, Built
<1>2. AnchorInv /\ [AnchorNext]_anchorVars => AnchorInv'
  BY AnchorNextTypeOK, NextMarkerInv, NextRunInv DEF AnchorInv
<1>. QED
  BY <1>1, <1>2, PTL DEF AnchorSpec

(* However hourly runs overlap, fail or move the stored height back, no    *)
(* calendar block below it is in no btc-a block, or in one whose anchor    *)
(* state was neither queued nor lost with a closed channel.                *)
THEOREM NoBlockLeftBehind == AnchorSpec => []CalBlocksHandedOver
<1>1. AnchorInv => CalBlocksHandedOver
  BY DEF AnchorInv, MarkerInv, Covered, HandedOver, CalBlocksHandedOver, Behind
<1>. QED
  BY <1>1, AnchorInvariant, PTL

=============================================================================
