---------------------------- MODULE MCConnector ----------------------------
EXTENDS Connector
=============================================================================
