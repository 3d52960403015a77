---------------------------- MODULE MC_OutTransfer ----------------------------
EXTENDS OutTransfer
==============================================================================
