---------------------------- MODULE MCUserLogin ----------------------------
EXTENDS UserLogin
=============================================================================
