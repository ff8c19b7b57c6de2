------------------------------ MODULE MCLogin -------------------------------
(* Small instances of Login: one client that waits and one that does not.   *)
EXTENDS Login

TwoClients == {1, 2}
OnePatient == {1}
\* The database remembers the first code of an earlier run of the server.
FirstRow == {1}
\* Ask and enter; ask twice.
Packets == <<2, 2>>
=============================================================================
