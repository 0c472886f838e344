-------------------------- MODULE MCCalendarChain ---------------------------
EXTENDS CalendarChain, TLC

CONSTANTS i1, i2, w1, w2, w3

MCHome == (w1 :> i1) @@ (w2 :> i1) @@ (w3 :> i2)
=============================================================================
