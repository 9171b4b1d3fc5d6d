---------------------------- MODULE MCClientList ----------------------------
\* Small instances of the client list for TLC.
EXTENDS ClientList, TLC

Symmetry == Permutations(Thread) \cup Permutations(Client)
=============================================================================
