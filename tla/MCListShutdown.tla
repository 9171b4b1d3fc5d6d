--------------------------- MODULE MCListShutdown ---------------------------
\* Small instances of the shutdown for TLC.
EXTENDS ListShutdown, TLC

Symmetry == Permutations(Thread) \cup Permutations(Client)
=============================================================================
