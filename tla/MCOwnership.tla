----------------------------- MODULE MCOwnership -----------------------------
EXTENDS Conference
==============================================================================
