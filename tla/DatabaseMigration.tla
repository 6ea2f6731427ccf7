------------------------- MODULE DatabaseMigration -------------------------
(***************************************************************************)
(* Database.initialize (store/database.py), run by every CLI command, the  *)
(* proxy and the client before they use the state file.  It reads the      *)
(* schema version and, for each newer migration, runs the migration's      *)
(* script and inserts the version.                                         *)
(*                                                                         *)
(* sqlite3.executescript first commits a pending transaction and then runs *)
(* the script in autocommit mode: every CREATE is committed by itself.     *)
(* The INSERT of the version opens a transaction, which is committed by    *)
(* the next executescript or at the end of the "with" block.               *)
(***************************************************************************)
EXTENDS Integers, FiniteSets

CONSTANTS Procs,       \* processes that open the state file
          Versions,    \* the number of migrations
          Statements   \* statements of each migration script

ASSUME MigrationAssumption ==
  /\ Versions \in Nat \ {0}
  /\ Statements \in Nat \ {0}

VARIABLES created,    \* pairs <<version, statement>>: the tables and indexes there are
          recorded,   \* committed rows of schema_version
          proc,       \* what each process is executing
          result      \* how its last initialize ended

vars == <<created, recorded, proc, result>>

Objects(v) == {v} \X (1 .. Statements)

Idle == [pc |-> "idle", version |-> 0, statement |-> 0, pending |-> 0]

(* The state file is new, or was left by a release with fewer migrations.  *)
Init == /\ \E k \in 0 .. Versions - 1 :
             /\ recorded = 1 .. k
             /\ created = (1 .. k) \X (1 .. Statements)
        /\ proc = [p \in Procs |-> Idle]
        /\ result = [p \in Procs |-> "none"]

(* COALESCE(MAX(version), 0).  As elsewhere, a definition marked "slip" is *)
(* a mistake the properties have to catch.                                 *)
NotRead(k) == k = 0   \* slip: every migration is always run
IsCurrent(k) == /\ k \in recorded \cup {0}
                /\ \A v \in recorded : v <= k

(* A transaction that has written excludes other writers until it ends.    *)
MayWrite(p) == \A q \in Procs \ {p} : proc[q].pending = 0

Committed(p) == IF proc[p].pending = 0 THEN recorded ELSE recorded \cup {proc[p].pending}

FailQuietly(p) == /\ proc' = [proc EXCEPT ![p] = Idle]   \* slip: the error is swallowed
                  /\ result' = [result EXCEPT ![p] = "ok"]
                  /\ UNCHANGED <<created, recorded>>
Fail(p) == /\ proc' = [proc EXCEPT ![p] = Idle]
           /\ result' = [result EXCEPT ![p] = "failed"]
           /\ UNCHANGED <<created, recorded>>

-----------------------------------------------------------------------------
(* The first migration newer than the version that was read.               *)
FirstNewer(current) == current + 1

Begin(p) ==
  /\ proc[p].pc = "idle"
  /\ result[p] # "ok"
  /\ \E current \in 0 .. Versions :
       /\ IsCurrent(current)
       /\ proc' = [proc EXCEPT ![p] = [Idle EXCEPT
             !.pc = IF current < Versions THEN "script" ELSE "exit",
             !.version = FirstNewer(current)]]
  /\ result' = [result EXCEPT ![p] = "none"]
  /\ UNCHANGED <<created, recorded>>

(* executescript: COMMIT, then one CREATE after the other; one that exists *)
(* already raises.                                                         *)
ImplicitCommit(p) ==
  /\ proc[p].pc = "script"
  /\ proc[p].statement = 0
  /\ recorded' = Committed(p)
  /\ proc' = [proc EXCEPT ![p].statement = 1, ![p].pending = 0]
  /\ UNCHANGED <<created, result>>

NextStatementOneLess(p) ==   \* slip: the last statement is left out
  IF proc[p].statement < Statements - 1
  THEN [proc EXCEPT ![p].statement = proc[p].statement + 1]
  ELSE [proc EXCEPT ![p].pc = "insert"]
NextStatement(p) ==
  IF proc[p].statement < Statements
  THEN [proc EXCEPT ![p].statement = proc[p].statement + 1]
  ELSE [proc EXCEPT ![p].pc = "insert"]

StatementIfNotExists(p) ==   \* slip: objects that exist are passed over
  /\ proc[p].pc = "script"
  /\ proc[p].statement > 0
  /\ MayWrite(p)
  /\ created' = created \cup {<<proc[p].version, proc[p].statement>>}
  /\ proc' = NextStatement(p)
  /\ UNCHANGED <<recorded, result>>
Statement(p) ==
  /\ proc[p].pc = "script"
  /\ proc[p].statement > 0
  /\ MayWrite(p)
  /\ LET object == <<proc[p].version, proc[p].statement>> IN
       IF object \in created
       THEN Fail(p)
       ELSE /\ created' = created \cup {object}
            /\ proc' = NextStatement(p)
            /\ UNCHANGED <<recorded, result>>

Insert(p) ==
  /\ proc[p].pc = "insert"
  /\ MayWrite(p)
  /\ IF proc[p].version \in recorded
     THEN Fail(p)
     ELSE /\ proc' = [proc EXCEPT ![p] = [
                pc |-> IF proc[p].version < Versions THEN "script" ELSE "exit",
                version |-> proc[p].version + 1, statement |-> 0,
                pending |-> proc[p].version]]
          /\ UNCHANGED <<created, recorded, result>>

(* The "with" block commits and initialize returns.                        *)
Exit(p) ==
  /\ proc[p].pc = "exit"
  /\ recorded' = Committed(p)
  /\ proc' = [proc EXCEPT ![p] = Idle]
  /\ result' = [result EXCEPT ![p] = "ok"]
  /\ UNCHANGED created

(* The process dies; SQLite rolls back what it had not committed.          *)
Crash(p) ==
  /\ proc[p].pc # "idle"
  /\ proc' = [proc EXCEPT ![p] = Idle]
  /\ UNCHANGED <<created, recorded, result>>

Initialize(p) == Begin(p) \/ ImplicitCommit(p) \/ Statement(p) \/ Insert(p) \/ Exit(p)

Next == \E p \in Procs : Initialize(p) \/ Crash(p)

(* A process that runs makes progress; initialize is called again until it *)
(* has succeeded once.                                                     *)
Spec == Init /\ [][Next]_vars /\ \A p \in Procs : WF_vars(Initialize(p))

-----------------------------------------------------------------------------
ProcState == [pc : {"idle", "script", "insert", "exit"}, version : 0 .. Versions + 1,
              statement : 0 .. Statements, pending : 0 .. Versions]

(* The types.                                                              *)
TypeOK == /\ created \subseteq (1 .. Versions) \X (1 .. Statements)
          /\ recorded \subseteq 1 .. Versions
          /\ proc \in [Procs -> ProcState]
          /\ result \in [Procs -> {"none", "ok", "failed"}]

(* A recorded version has all of its tables and indexes, whatever crashed  *)
(* and whoever migrated at the same time.                                  *)
RecordedIsComplete == \A v \in recorded : Objects(v) \subseteq created

(* MAX(version) stands for all of them: no version is recorded before the  *)
(* versions below it.                                                      *)
RecordedIsPrefix == \A v \in recorded : 1 .. v \subseteq recorded

(* An initialize that returned leaves a schema that is up to date, even    *)
(* when another process did the migration.                                 *)
ReturnedMeansCurrent == \A p \in Procs : result[p] = "ok" => Versions \in recorded

(* Two processes never create the objects of one migration together: of    *)
(* the processes that race, all but one are turned away at its first one.  *)
OneMigrator ==
  \A p, q \in Procs :
    /\ p # q
    /\ proc[p].pc \in {"script", "insert"} /\ proc[p].statement > 1
    /\ proc[q].pc \in {"script", "insert"} /\ proc[q].statement > 1
    => proc[p].version # proc[q].version

(* Once processes cease to die, every one of them gets through, also those *)
(* that lost a race; unless a death has left a migration half applied.     *)
HalfApplied == \E v \in 1 .. Versions : /\ Objects(v) \cap created # {}
                                        /\ v \notin recorded
EventuallyInitialized == <>[](\A p \in Procs : result[p] = "ok") \/ <>[]HalfApplied

(* docs/security.md, "transactional migrations": when nobody migrates, a   *)
(* migration has been applied as a whole or not at all.                    *)
MigrationsAreTransactional ==
  (\A p \in Procs : proc[p].pc = "idle")
    => \A v \in 1 .. Versions : \/ Objects(v) \cap created = {} /\ v \notin recorded
                                \/ Objects(v) \subseteq created /\ v \in recorded
=============================================================================
