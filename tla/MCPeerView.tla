----------------------------- MODULE MCPeerView ----------------------------
\* Instances of PeerView for TLC: interchangeable clients, a short channel.
EXTENDS PeerView, TLC

Symmetric == Permutations(Publishers) \cup Permutations(Clients \ Publishers)
=============================================================================
