------------------------------ MODULE MCSocTop ------------------------------
EXTENDS SocTop, MCProgram
=============================================================================
