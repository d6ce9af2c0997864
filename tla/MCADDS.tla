------------------------------- MODULE MCADDS -------------------------------
EXTENDS ADDS
=============================================================================
