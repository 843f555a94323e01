---------------------------- MODULE MCPersistence ----------------------------
(***************************************************************************)
(* Two devices: one with an entry in configuration.yaml and two records in *)
(* its database.db, the other with one in a system-wide installation's.    *)
(***************************************************************************)
EXTENDS Persistence

CONSTANTS d1, d2

L(d, v) == [dev |-> d, v |-> v]

\* The coordinator, two records of one device with a group between them; or no
\* file yet.
MCDatabases == {Absent, <<L(NoDevice, 0), L(d1, 1), L(NoDevice, 1), L(d1, 2)>>}

MCSystemDb == <<L(d2, 1)>>
=============================================================================
