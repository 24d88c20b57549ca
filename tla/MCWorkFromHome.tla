--------------------------- MODULE MCWorkFromHome ---------------------------
EXTENDS WorkFromHome

\* A whole day and its two halves.
MCPeriods == {<<1, 3>>, <<1, 2>>, <<2, 3>>}
=============================================================================
