---------------------------- MODULE MCConnection ----------------------------
\* Kinds of client for TLC: short and long headers, a payload larger than the
\* buffer, a message that is too long, frames of other kinds, fragments, and the
\* older types of connection.
EXTENDS Connection

F(op, fin, skip, len)  == [op |-> op, fin |-> fin, skip |-> skip, len |-> len]
K(type, frames, hasty, splits) == [type |-> type, frames |-> frames, hasty |-> hasty, splits |-> splits]

Texts3    == {F("text", TRUE, 6, 2), F("text", TRUE, 8, 17), F("close", TRUE, 6, 0)}
Strange   == {F("text", TRUE, 6, 2), F("text", TRUE, 14, 25), F("other", TRUE, 6, 1)}
Empties   == {F("text", TRUE, 6, 0), F("text", TRUE, 6, 2)}
Fragments == {F("text", FALSE, 6, 2), F("cont", FALSE, 6, 1), F("cont", TRUE, 6, 1)}
Hybis     == {F("text", TRUE, 1, 1), F("text", TRUE, 1, 17), F("close", TRUE, 1, 0)}
HybiTwo   == {F("text", TRUE, 1, 0), F("text", TRUE, 1, 2), F("close", TRUE, 1, 0)}
HybiLong  == {F("text", TRUE, 1, 24)}

All == {K("RFC6455", Texts3, TRUE, TRUE), K("RFC6455", Texts3, TRUE, FALSE),
        K("RFC6455", Strange, TRUE, TRUE), K("RFC6455", Empties, TRUE, TRUE),
        K("RFC6455", Fragments, TRUE, TRUE), K("HYBI00", Hybis, FALSE, FALSE),
        K("HYBI00", HybiTwo, TRUE, TRUE), K("HYBI00", HybiLong, FALSE, FALSE),
        K("HIXIE75", {}, FALSE, FALSE)}
=============================================================================
