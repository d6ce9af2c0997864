---------------------------- MODULE MCAutoroute ----------------------------
EXTENDS Autoroute
=============================================================================
