---------------------------- MODULE MCPeerSessions ----------------------------
EXTENDS PeerSessions
=============================================================================
