-------------------------- MODULE MCClientSession --------------------------
EXTENDS ClientSession
============================================================================
