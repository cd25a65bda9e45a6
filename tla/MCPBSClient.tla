----------------------------- MODULE MCPBSClient -----------------------------
EXTENDS PBSClientProofs

MCHistory == 1..4
==============================================================================
