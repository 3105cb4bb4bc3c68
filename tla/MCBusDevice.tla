----------------------------- MODULE MCBusDevice ----------------------------
EXTENDS CBusDevice, MCBus
=============================================================================
