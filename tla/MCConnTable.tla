----------------------------- MODULE MCConnTable -----------------------------
\* Small instances of the connection table for TLC.
EXTENDS ConnTable, TLC

Symmetry == Permutations(Client) \cup Permutations(Socket)
Separate == {{}, {"restart", "refusal"}, {"refusal"}, {"death"}, {"overlap"}}
=============================================================================
