---------------------------- MODULE MCServerLife ----------------------------
\* Small instances of the handler threads' life for TLC.
EXTENDS ServerLife, TLC

Circumstances == {{}, {"reuse"}, {"refusal"}, {"restart"}}

Symmetry == Permutations(Thread) \cup Permutations(Address)
=============================================================================
