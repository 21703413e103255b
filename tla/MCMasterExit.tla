-------------------------- MODULE MCMasterExit --------------------------
EXTENDS Conference
====
