-------------------------- MODULE MCPresyncSession --------------------------
EXTENDS PresyncSession
=============================================================================
