---------------------------- MODULE MCPrivileges ----------------------------
EXTENDS Conference
=============================================================================
