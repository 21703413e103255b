------------------------------ MODULE MCListen ------------------------------
EXTENDS Server
=============================================================================
