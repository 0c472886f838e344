----------------------------- MODULE MCE2EAudit -----------------------------
EXTENDS E2EAudit, TLC

CONSTANTS p1, p2, n1

=============================================================================
