----------------------------- MODULE MCMessaging -----------------------------
EXTENDS Messaging
=============================================================================
