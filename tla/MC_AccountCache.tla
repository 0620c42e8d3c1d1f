--------------------------- MODULE MC_AccountCache ---------------------------
EXTENDS AccountCache

CONSTANTS c1, c2
=============================================================================
