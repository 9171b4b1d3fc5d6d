---------------------------- MODULE MCEngineHost ----------------------------
\* What may happen in a behaviour, for TLC.
EXTENDS EngineHost

Long    == [prompt |-> TRUE,  killed |-> Process, browsers |-> 1, requests |-> 3]
Beside  == [prompt |-> TRUE,  killed |-> {"engine"}, browsers |-> 2, requests |-> 1]
Crowded == [prompt |-> TRUE,  killed |-> {}, browsers |-> 3, requests |-> 1]
Late    == [prompt |-> FALSE, killed |-> {}, browsers |-> 3, requests |-> 1]
MCSettings == {Long, Beside, Crowded, Late}
=============================================================================
