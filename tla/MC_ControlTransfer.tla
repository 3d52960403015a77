-------------------------- MODULE MC_ControlTransfer --------------------------
EXTENDS ControlTransfer
==============================================================================
