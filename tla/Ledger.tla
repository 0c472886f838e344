------------------------------- MODULE Ledger -------------------------------
(***************************************************************************)
(* What the Chainpoint calendar promises, with no mention of transactions, *)
(* retries or concurrent zones: a set of blocks that only grows, one block *)
(* at a time, each block extending the block that was the tip when it was  *)
(* added (id + 1, prevHash = hash of the tip).  CalendarChain implements   *)
(* it; the other calendar modules rely on it by appending to a ledger.     *)
(***************************************************************************)
EXTENDS Naturals

CONSTANTS
    Data,               \* block contents (type, stackId, dataId, dataVal)
    GenesisData,        \* contents of the 'gen' block
    ZeroHash            \* zeroStr, the prevHash of the genesis block

VARIABLE blocks

(* calcBlockHashHex: SHA-256 is taken to have no collisions, so a hash is  *)
(* represented by the fields it is computed from.                          *)
Hash(id, data, prevHash) == <<id, data, prevHash>>

(* The block with the given id and contents that follows prevHash. *)
Block(id, data, prevHash) ==
    [id |-> id, data |-> data, prevHash |-> prevHash,
     hash |-> Hash(id, data, prevHash)]

GenesisBlock == Block(0, GenesisData, ZeroHash)

IsTip(b, B) == b \in B /\ \A c \in B : c.id <= b.id

-----------------------------------------------------------------------------

Init == blocks = {}

CreateGenesis ==
    /\ blocks = {}
    /\ blocks' = {GenesisBlock}

Append(data) ==
    \E tip \in blocks :
        /\ IsTip(tip, blocks)
        /\ blocks' = blocks \cup {Block(tip.id + 1, data, tip.hash)}

Next == CreateGenesis \/ \E d \in Data : Append(d)

Spec == Init /\ [][Next]_blocks

=============================================================================
