---------------------------- MODULE MCHandshake ----------------------------
\* Requests and hosts for TLC.
EXTENDS Handshake

Good    == <<"get", "host", "upgrade", "connection", "version", "key">>
Strange == <<"get", "upgrade", "badhost", "connection", "version", "key">>
Two     == {Good, Strange}
OneHost == <<"host">>
=============================================================================
