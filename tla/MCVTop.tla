------------------------------- MODULE MCVTop -------------------------------
EXTENDS VTop, MCProgram
=============================================================================
