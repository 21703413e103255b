----------------------------- MODULE MCDialogues -----------------------------
EXTENDS Messaging
=============================================================================
