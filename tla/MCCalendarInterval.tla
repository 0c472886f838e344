------------------------- MODULE MCCalendarInterval -------------------------
EXTENDS CalendarInterval

CONSTANTS a1, a2, r1, r2
=============================================================================
