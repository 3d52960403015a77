--------------------------- MODULE MC_UsbtmcExchange ---------------------------
EXTENDS UsbtmcExchange
==============================================================================
