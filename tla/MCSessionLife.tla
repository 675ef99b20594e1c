--------------------------- MODULE MCSessionLife ---------------------------
EXTENDS SessionLife
=============================================================================
