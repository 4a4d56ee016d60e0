----------------------------- MODULE MCMigration -----------------------------
EXTENDS Migration

CONSTANTS old, new1, new2

MCProcesses == {old, new1, new2}
MCSupportedBy == [p \in MCProcesses |-> IF p = old THEN 1 ELSE 2]
=============================================================================
