------------------------------ MODULE MCNotices ------------------------------
EXTENDS Notices
==============================================================================
