----------------------------- MODULE MC_RootPort -----------------------------
EXTENDS RootPort
==============================================================================
