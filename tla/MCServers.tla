----------------------------- MODULE MCServers ------------------------------
EXTENDS Servers, TLC
=============================================================================
