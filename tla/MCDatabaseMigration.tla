------------------------ MODULE MCDatabaseMigration ------------------------
(***************************************************************************)
(* Three processes, three migrations of two statements each, and a bounded *)
(* number of deaths.                                                       *)
(***************************************************************************)
EXTENDS DatabaseMigration

CONSTANT MaxCrashes   \* bound: processes die this often at most

VARIABLE crashes

MCInit == Init /\ crashes = 0

MCNext == \E p \in Procs : \/ Initialize(p) /\ UNCHANGED crashes
                           \/ /\ crashes < MaxCrashes
                              /\ Crash(p)
                              /\ crashes' = crashes + 1

MCSpec == MCInit /\ [][MCNext]_<<vars, crashes>> /\ \A p \in Procs : WF_vars(Initialize(p))
=============================================================================
