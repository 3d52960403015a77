---------------------------- MODULE MC_InTransfer ----------------------------
EXTENDS InTransfer
==============================================================================
