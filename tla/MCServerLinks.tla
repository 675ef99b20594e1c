--------------------------- MODULE MCServerLinks ---------------------------
EXTENDS ServerLinks
=============================================================================
