-------------------------- MODULE MCNewUsers --------------------------
EXTENDS Conference
====
