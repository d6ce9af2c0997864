--------------------------- MODULE MCIntervalSet ---------------------------
EXTENDS IntervalSet
=============================================================================
