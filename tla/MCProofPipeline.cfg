SPECIFICATION Spec
CONSTANTS
    a1 = a1
    a2 = a2
    a3 = a3
    c1 = c1
    c2 = c2
    c3 = c3
    x1 = x1
    x2 = x2
    t1 = t1
    t2 = t2
    h1 = h1
    h2 = h2
    Agg = {a1, a2, a3}
    Cal = {c1, c2, c3}
    Anchor = {x1, x2}
    Tx = {t1, t2}
    None = None
    NullEntry = NullEntry
    CalLeaves <- MCCalLeaves
    AnchorLeaves <- MCAnchorLeaves
    Arrival <- MCArrival
    TxAnchor <- MCTxAnchor
    Handler = {h1, h2}
    Generator = {g1}
    WriteBatch = 1
    GenBatch = 2
    MaxFaults = 1
CONSTRAINT Bound
SYMMETRY Symmetry
INVARIANTS TypeOK CalBatchesHandedOn ConfirmationsHandedOn BtcProofsVerify
CHECK_DEADLOCK FALSE
