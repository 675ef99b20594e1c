---------------------------- MODULE MCSessionIO ----------------------------
EXTENDS SessionIO
=============================================================================
