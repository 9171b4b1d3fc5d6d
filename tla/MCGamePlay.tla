----------------------------- MODULE MCGamePlay -----------------------------
\* Kinds of game for TLC.
EXTENDS GamePlay

Kinds == {{}, {"early", "hasty"}, {"stray"}, {"nostep"}, {"other"}}
=============================================================================
