-------------------------- MODULE MCTaskAccumulator --------------------------
EXTENDS TaskAccumulator, TLC

CONSTANTS m1, m2, log, score

MCKindOf == [m \in Message |-> IF m = m1 THEN log ELSE score]
=============================================================================
