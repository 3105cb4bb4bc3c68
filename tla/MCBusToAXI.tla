----------------------------- MODULE MCBusToAXI -----------------------------
EXTENDS CBusToAXI, MCBus
=============================================================================
