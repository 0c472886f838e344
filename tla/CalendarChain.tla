--------------------------- MODULE CalendarChain ----------------------------
(***************************************************************************)
(* The calendar block table and everything that writes to it               *)
(* (node-calendar-service/server.js, node-lib/lib/models/CalendarBlock.js).*)
(*                                                                         *)
(* Several calendar services (one or more per zone) share one CockroachDB  *)
(* table.  A write is one call of executeRetryableBlockWriteTransaction-   *)
(* Async: a transaction that reads the top block, inserts its successor    *)
(* and commits, tried again after any error up to MaxRetries times.  The   *)
(* database is assumed to do no more than enforce the table's unique keys  *)
(* (CockroachDB's serializable isolation would also detect the stale read, *)
(* which the model includes as a fault), and may fail any statement,       *)
(* including a COMMIT it has already applied.                              *)
(***************************************************************************)
EXTENDS Naturals, FiniteSets

CONSTANTS
    Instance,           \* running calendar services
    Write,              \* calls of executeRetryableBlockWriteTransactionAsync
    Home,               \* the service that makes each call
    GenesisData,        \* contents of the genesis block
    ZeroHash,           \* zeroStr
    MaxRetries,         \* the retries option, 25 in the source
    PoolSize,           \* clients in a service's pgClientPool
    MaxFaults           \* model bound: statements the database fails

ASSUME HomeAssumption == Home \in [Write -> Instance]
ASSUME BoundsAssumption == MaxRetries \in Nat /\ MaxFaults \in Nat /\ PoolSize \in Nat
ASSUME GenesisAssumption == GenesisData \notin Write

VARIABLES
    table,      \* committed rows of chainpoint_calendar_blockchain
    service,    \* start-up progress of each calendar service
    phase,      \* where each write is in its transaction
    prevBlock,  \* the top row the current transaction of each write has read
    retries,    \* retries used by each write
    lostCommits,\* COMMITs that were applied but reported as an error
    leaked,     \* pool clients each service took and will never release
    faults      \* statements the database has failed so far

vars == <<table, service, phase, prevBlock, retries, lostCommits, leaked, faults>>
writeVars == <<phase, prevBlock, retries, lostCommits>>

(* Every write has contents of its own; only the genesis block is shared. *)
L == INSTANCE Ledger WITH Data <- Write, blocks <- table

NoBlock == [id |-> 0, data |-> GenesisData, prevHash |-> ZeroHash, hash |-> ZeroHash]

(* Mutant: only the hash column is declared unique. *)
ViolatesUniqueHash(row) == \E r \in table : r.hash = row.hash

(* primaryKey id, unique prevHash and unique hash of CalendarBlock.js; the *)
(* signature is a function of the hash.                                    *)
ViolatesUnique(row) ==
    \E r \in table : r.id = row.id \/ r.prevHash = row.prevHash \/ r.hash = row.hash

(* Mutant: the successor is linked to a field other than the hash. *)
NewBlockOnData(w) == L!Block(prevBlock[w].id + 1, w, prevBlock[w].data)

(* The row writeBlockAsync builds from the block read in the transaction.  *)
NewBlock(w) == L!Block(prevBlock[w].id + 1, w, prevBlock[w].hash)

(* Clients checked out of a service's pool. *)
InTransaction == {"read", "insert", "commit"}
ClientsOut(i) ==
    leaked[i] + Cardinality({w \in Write : Home[w] = i /\ phase[w] \in InTransaction})

InFlight == {"begin"} \cup InTransaction
Finished == {"done", "failed", "dead"}

-----------------------------------------------------------------------------

Init ==
    /\ table = {}
    /\ service = [i \in Instance |-> "down"]
    /\ phase = [w \in Write |-> "idle"]
    /\ prevBlock = [w \in Write |-> NoBlock]
    /\ retries = [w \in Write |-> 0]
    /\ lostCommits = [w \in Write |-> 0]
    /\ leaked = [i \in Instance |-> 0]
    /\ faults = 0

Fault == faults < MaxFaults /\ faults' = faults + 1

(* openStorageConnectionAsync counts the blocks and creates the genesis    *)
(* block when there are none; the count is not part of the insert.         *)
CountBlocks(i) ==
    /\ service[i] = "down"
    /\ service' = [service EXCEPT ![i] = IF table = {} THEN "genesis" ELSE "up"]
    /\ UNCHANGED <<table, leaked, faults, writeVars>>

(* initializeCalendarBlock0Async counts again, then inserts without a      *)
(* transaction; any error is logged, the client is not released, and the   *)
(* service starts all the same.                                            *)
RecountBlocks(i) ==
    /\ service[i] = "genesis"
    /\ service' = [service EXCEPT ![i] = IF table = {} THEN "create" ELSE "up"]
    /\ UNCHANGED <<table, leaked, faults, writeVars>>

CreateGenesis(i) ==
    /\ service[i] = "create"
    /\ service' = [service EXCEPT ![i] = "up"]
    /\ \/ /\ ~ViolatesUnique(L!GenesisBlock)
          /\ table' = table \cup {L!GenesisBlock}
          /\ UNCHANGED <<leaked, faults>>
       \/ /\ ViolatesUnique(L!GenesisBlock)
          /\ leaked' = [leaked EXCEPT ![i] = @ + 1]
          /\ UNCHANGED <<table, faults>>
       \/ /\ Fault
          /\ leaked' = [leaked EXCEPT ![i] = @ + 1]
          /\ UNCHANGED table
    /\ UNCHANGED writeVars

(* A service stops at any point; its open transactions roll back.          *)
Crash(i) ==
    /\ service[i] # "down"
    /\ service' = [service EXCEPT ![i] = "down"]
    /\ phase' = [w \in Write |->
                    IF Home[w] = i /\ phase[w] \in InFlight THEN "dead" ELSE phase[w]]
    /\ leaked' = [leaked EXCEPT ![i] = 0]
    /\ UNCHANGED <<table, prevBlock, retries, lostCommits, faults>>

-----------------------------------------------------------------------------

(* One of the create...BlockAsync functions is called. *)
StartWrite(w) ==
    /\ service[Home[w]] = "up"
    /\ phase[w] = "idle"
    /\ phase' = [phase EXCEPT ![w] = "begin"]
    /\ UNCHANGED <<table, service, prevBlock, retries, lostCommits, leaked, faults>>

(* Mutants of Retry: off by one, no limit. *)
RetryOnceMore(w) ==
    IF retries[w] <= MaxRetries
      THEN /\ retries' = [retries EXCEPT ![w] = @ + 1]
           /\ phase' = [phase EXCEPT ![w] = "begin"]
      ELSE /\ phase' = [phase EXCEPT ![w] = "failed"]
           /\ UNCHANGED retries

RetryForever(w) == phase' = [phase EXCEPT ![w] = "begin"] /\ UNCHANGED retries

(* The attempt throws: async-retry calls writeTransactionAsync again while *)
(* retries are left, then rejects.                                         *)
Retry(w) ==
    IF retries[w] < MaxRetries
      THEN /\ retries' = [retries EXCEPT ![w] = @ + 1]
           /\ phase' = [phase EXCEPT ![w] = "begin"]
      ELSE /\ phase' = [phase EXCEPT ![w] = "failed"]
           /\ UNCHANGED retries

(* connect waits for a free client of the pool and gives up after          *)
(* connectionTimeoutMillis; a client that fails BEGIN is not released,     *)
(* BEGIN being outside the try block.                                      *)
BeginTransaction(w) ==
    /\ phase[w] = "begin"
    /\ \/ /\ ClientsOut(Home[w]) < PoolSize
          /\ phase' = [phase EXCEPT ![w] = "read"]
          /\ UNCHANGED retries
       \/ /\ ClientsOut(Home[w]) >= PoolSize
          /\ Retry(w)
    /\ UNCHANGED <<table, service, prevBlock, lostCommits, leaked, faults>>

FailBegin(w) ==
    /\ phase[w] = "begin"
    /\ ClientsOut(Home[w]) < PoolSize
    /\ Fault
    /\ leaked' = [leaked EXCEPT ![Home[w]] = @ + 1]
    /\ Retry(w)
    /\ UNCHANGED <<table, service, prevBlock, lostCommits>>

(* SELECT ... ORDER BY id DESC LIMIT 1; no row at all is an error. *)
ReadTopBlock(w) ==
    /\ phase[w] = "read"
    /\ \/ \E top \in table :
            /\ L!IsTip(top, table)
            /\ prevBlock' = [prevBlock EXCEPT ![w] = top]
            /\ phase' = [phase EXCEPT ![w] = "insert"]
            /\ UNCHANGED retries
       \/ /\ table = {}
          /\ Retry(w)
          /\ UNCHANGED prevBlock
    /\ UNCHANGED <<table, service, lostCommits, leaked, faults>>

InsertBlock(w) ==
    /\ phase[w] = "insert"
    /\ \/ /\ ~ViolatesUnique(NewBlock(w))
          /\ phase' = [phase EXCEPT ![w] = "commit"]
          /\ UNCHANGED retries
       \/ ViolatesUnique(NewBlock(w)) /\ Retry(w)
    /\ UNCHANGED <<table, service, prevBlock, lostCommits, leaked, faults>>

(* Mutants of CommitBlock: the unique keys are not checked again; a        *)
(* conflict is taken for the row having been written.                      *)
CommitUnchecked(w) ==
    /\ phase[w] = "commit"
    /\ table' = table \cup {NewBlock(w)}
    /\ phase' = [phase EXCEPT ![w] = "done"]
    /\ UNCHANGED <<service, prevBlock, retries, lostCommits, leaked, faults>>

CommitIgnoringConflict(w) ==
    /\ phase[w] = "commit"
    /\ table' = IF ViolatesUnique(NewBlock(w)) THEN table ELSE table \cup {NewBlock(w)}
    /\ phase' = [phase EXCEPT ![w] = "done"]
    /\ UNCHANGED <<service, prevBlock, retries, lostCommits, leaked, faults>>

(* Another transaction may have committed since the INSERT. *)
CommitBlock(w) ==
    /\ phase[w] = "commit"
    /\ \/ /\ ~ViolatesUnique(NewBlock(w))
          /\ table' = table \cup {NewBlock(w)}
          /\ phase' = [phase EXCEPT ![w] = "done"]
          /\ UNCHANGED retries
       \/ /\ ViolatesUnique(NewBlock(w))
          /\ Retry(w)
          /\ UNCHANGED table
    /\ UNCHANGED <<service, prevBlock, lostCommits, leaked, faults>>

(* connect fails, or a statement does: ROLLBACK, release, throw. *)
FailStatement(w) ==
    /\ phase[w] \in InFlight
    /\ Fault
    /\ Retry(w)
    /\ UNCHANGED <<table, service, prevBlock, lostCommits, leaked>>

(* The COMMIT is applied and its reply is lost: the attempt throws.        *)
LoseCommitReply(w) ==
    /\ phase[w] = "commit"
    /\ ~ViolatesUnique(NewBlock(w))
    /\ Fault
    /\ table' = table \cup {NewBlock(w)}
    /\ lostCommits' = [lostCommits EXCEPT ![w] = @ + 1]
    /\ Retry(w)
    /\ UNCHANGED <<service, prevBlock, leaked>>

-----------------------------------------------------------------------------

ServiceStep(i) == CountBlocks(i) \/ RecountBlocks(i) \/ CreateGenesis(i)

WriteStep(w) ==
    \/ BeginTransaction(w) \/ ReadTopBlock(w) \/ InsertBlock(w) \/ CommitBlock(w)

Next ==
    \/ \E i \in Instance : ServiceStep(i) \/ Crash(i)
    \/ \E w \in Write : \/ StartWrite(w) \/ WriteStep(w)
                        \/ FailBegin(w) \/ FailStatement(w) \/ LoseCommitReply(w)

(* The event loop keeps running a service's callbacks and the database     *)
(* answers or fails every statement.                                       *)
Fairness == \A w \in Write : WF_vars(WriteStep(w))

Spec == Init /\ [][Next]_vars
FairSpec == Spec /\ Fairness

-----------------------------------------------------------------------------

(* Types of the variables: committed rows are whole blocks, a              *)
(* transaction's row is a committed one, and retries stay within async-    *)
(* retry's limit.                                                          *)
TypeOK ==
    /\ \A r \in table : /\ r.id \in Nat
                        /\ r.data \in Write \cup {GenesisData}
                        /\ r = L!Block(r.id, r.data, r.prevHash)
    /\ service \in [Instance -> {"down", "genesis", "create", "up"}]
    /\ phase \in [Write -> {"idle"} \cup InFlight \cup Finished]
    /\ prevBlock \in [Write -> table \cup {NoBlock}]
    /\ retries \in [Write -> 0..MaxRetries]
    /\ lostCommits \in [Write -> Nat]
    /\ leaked \in [Instance -> Nat]
    /\ faults \in 0..MaxFaults

(* Heights are unique and there is no gap below any of them, whatever      *)
(* zones, retries and crashes did (writeTransactionAsync, CalendarBlock).  *)
HeightsSound ==
    /\ \A r, q \in table : r.id = q.id => r = q
    /\ \A r \in table : \A k \in 0..r.id : \E q \in table : q.id = k

(* Every block but the genesis block carries the hash of the block right   *)
(* below it.                                                               *)
Chained ==
    \A r \in table :
        IF r.id = 0 THEN r = L!GenesisBlock
                    ELSE \E q \in table : q.id + 1 = r.id /\ q.hash = r.prevHash

(* A write has as many blocks in the calendar as it had lost COMMIT        *)
(* replies, plus the one it reports when it succeeds: a retry duplicates   *)
(* a block only when the database hid a COMMIT from the service.           *)
BlocksOf(w) == {r \in table : r.data = w}

BlocksAccountedFor ==
    \A w \in Write :
        Cardinality(BlocksOf(w)) = lostCommits[w] + (IF phase[w] = "done" THEN 1 ELSE 0)

(* Every block write that starts reaches an outcome. *)
WritesFinish ==
    \A w \in Write : (phase[w] = "begin") ~> (phase[w] \in Finished)

(* The table implements the ledger: every step appends to the tip or       *)
(* leaves the committed blocks alone.                                      *)
ImplementsLedger == L!Spec

=============================================================================
