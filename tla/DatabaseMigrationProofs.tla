---------------------- MODULE DatabaseMigrationProofs ----------------------
(***************************************************************************)
(* What the recorded versions mean, for any number of processes,           *)
(* migrations and statements, with and without crashes.                    *)
(***************************************************************************)
EXTENDS DatabaseMigration, TLAPS

(* The first n - 1 statements of migration v are among the objects C.      *)
Done(v, n, C) == \A i \in 1 .. Statements : i < n => <<v, i>> \in C

(* What a process has made sure of when its local state is q, the objects  *)
(* are C and the committed versions R.                                     *)
Progress(q, C, R) ==
  /\ q.pc \in {"script", "insert"}
       => /\ q.version \in 1 .. Versions
          /\ \A v \in 1 .. Versions : v < q.version => v \in R \/ v = q.pending
  /\ q.pc = "exit" => \A v \in 1 .. Versions : v \in R \/ v = q.pending
  /\ q.pc = "script" /\ q.statement > 0 => q.pending = 0 /\ Done(q.version, q.statement, C)
  /\ q.pc = "insert" => q.pending = 0 /\ Done(q.version, Statements + 1, C)
  /\ q.pending # 0 => /\ Done(q.pending, Statements + 1, C)
                      /\ \A v \in 1 .. Versions : v < q.pending => v \in R

Progressed == \A p \in Procs : Progress(proc[p], created, recorded)

Complete == \A v \in recorded : Done(v, Statements + 1, created)

Prefix == \A v \in recorded : \A u \in 1 .. Versions : u < v => u \in recorded

UpToDate == \A p \in Procs : result[p] = "ok" => \A v \in 1 .. Versions : v \in recorded

IInv == TypeOK /\ Progressed /\ Complete /\ Prefix /\ UpToDate

-----------------------------------------------------------------------------
(* The state file as it is found: some migrations applied, all complete.   *)
LEMMA InitInvariant == Init => IInv
<1>. SUFFICES ASSUME Init PROVE IInv
  OBVIOUS
<1>1. PICK k \in 0 .. Versions - 1 :
        /\ recorded = 1 .. k
        /\ created = (1 .. k) \X (1 .. Statements)
  BY DEF Init
<1>2. /\ recorded \subseteq 1 .. Versions
      /\ created \subseteq (1 .. Versions) \X (1 .. Statements)
  BY <1>1, MigrationAssumption
<1>3. TypeOK
  BY <1>2, MigrationAssumption DEF TypeOK, Init, Idle, ProcState
<1>4. Progressed
  BY DEF Init, Idle, Progress, Progressed
<1>5. Complete /\ Prefix
  BY <1>1, MigrationAssumption DEF Complete, Done, Prefix
<1>6. UpToDate
  BY DEF Init, UpToDate
<1>. QED
  BY <1>3, <1>4, <1>5, <1>6 DEF IInv

LEMMA IdleType == Idle \in ProcState
  BY MigrationAssumption DEF Idle, ProcState

(* A step that gives one process a local state of its type.                *)
LEMMA ProcTypes ==
  ASSUME proc \in [Procs -> ProcState], NEW p \in Procs, NEW q \in ProcState,
         proc' = [proc EXCEPT ![p] = q]
  PROVE  proc' \in [Procs -> ProcState]
  OBVIOUS

LEMMA CommittedType ==
  ASSUME TypeOK, NEW p \in Procs PROVE Committed(p) \subseteq 1 .. Versions
<1>1. proc[p].pending \in 0 .. Versions
  BY DEF TypeOK, ProcState
<1>2. proc[p].pending # 0 => proc[p].pending \in 1 .. Versions
  BY <1>1, MigrationAssumption
<1>. QED
  BY <1>2 DEF Committed, TypeOK

LEMMA FailTypes ==
  ASSUME TypeOK, NEW p \in Procs, Fail(p) PROVE TypeOK'
  BY IdleType, ProcTypes DEF Fail, TypeOK

LEMMA Counting == \A m, n \in Nat : m < n => m + 1 \in 0 .. n
  OBVIOUS

LEMMA CountingFrom1 == \A n \in Nat : \A v \in 1 .. n : v + 1 \in 0 .. n + 1 /\ v \in 0 .. n
  OBVIOUS

LEMMA VersionNat == Versions \in Nat /\ Statements \in Nat /\ 1 \in 0 .. Statements
  BY MigrationAssumption

LEMMA TypeStep ==
  ASSUME TypeOK, Progressed, [Next]_vars
  PROVE  TypeOK'
<1>1. ASSUME NEW p \in Procs, Begin(p) PROVE TypeOK'
  <2>1. PICK current \in 0 .. Versions :
          proc' = [proc EXCEPT ![p] = [Idle EXCEPT
                     !.pc = IF current < Versions THEN "script" ELSE "exit",
                     !.version = FirstNewer(current)]]
    BY <1>1 DEF Begin
  <2>2. FirstNewer(current) \in 0 .. Versions + 1
    BY VersionNat DEF FirstNewer
  <2>3. [Idle EXCEPT !.pc = IF current < Versions THEN "script" ELSE "exit",
                     !.version = FirstNewer(current)] \in ProcState
    BY <2>2, IdleType DEF ProcState
  <2>. QED
    BY <1>1, <2>1, <2>3, ProcTypes DEF Begin, TypeOK
<1>2. ASSUME NEW p \in Procs, ImplicitCommit(p) PROVE TypeOK'
  <2>1. 1 \in 0 .. Statements /\ 0 \in 0 .. Versions
    BY MigrationAssumption
  <2>2. proc[p] \in ProcState
    BY DEF TypeOK
  <2>3. [proc[p] EXCEPT !.statement = 1, !.pending = 0] \in ProcState
    BY <2>1, <2>2 DEF ProcState
  <2>4. proc' = [proc EXCEPT ![p] = [proc[p] EXCEPT !.statement = 1, !.pending = 0]]
    BY <1>2 DEF ImplicitCommit
  <2>. QED
    BY <1>2, <2>3, <2>4, ProcTypes, CommittedType DEF ImplicitCommit, TypeOK
<1>3. ASSUME NEW p \in Procs, Statement(p) PROVE TypeOK'
  <2>1. CASE Fail(p)
    BY <2>1, FailTypes
  <2>2. CASE /\ created' = created \cup {<<proc[p].version, proc[p].statement>>}
             /\ proc' = NextStatement(p)
             /\ UNCHANGED <<recorded, result>>
    <3>1. proc[p] \in ProcState
      BY DEF TypeOK
    <3>2. proc[p].version \in 1 .. Versions
      BY <1>3 DEF Statement, Progress, Progressed
    <3>3. proc[p].statement \in 1 .. Statements
      BY <1>3, <3>1, VersionNat DEF Statement, ProcState
    <3>4. created' \subseteq (1 .. Versions) \X (1 .. Statements)
      BY <2>2, <3>2, <3>3 DEF TypeOK
    <3>5. proc' \in [Procs -> ProcState]
      <4>1. CASE proc[p].statement < Statements
        <5>1. proc[p].statement + 1 \in 0 .. Statements
          BY <3>3, <4>1, VersionNat
        <5>2. [proc[p] EXCEPT !.statement = proc[p].statement + 1] \in ProcState
          BY <3>1, <5>1 DEF ProcState
        <5>. QED
          BY <2>2, <4>1, <5>2 DEF NextStatement, TypeOK
      <4>2. CASE ~(proc[p].statement < Statements)
        <5>1. [proc[p] EXCEPT !.pc = "insert"] \in ProcState
          BY <3>1 DEF ProcState
        <5>. QED
          BY <2>2, <4>2, <5>1 DEF NextStatement, TypeOK
      <4>. QED
        BY <4>1, <4>2
    <3>. QED
      BY <2>2, <3>4, <3>5 DEF TypeOK
  <2>. QED
    BY <1>3, <2>1, <2>2 DEF Statement
<1>4. ASSUME NEW p \in Procs, Insert(p) PROVE TypeOK'
  <2>1. CASE Fail(p)
    BY <2>1, FailTypes
  <2> DEFINE q == [pc |-> IF proc[p].version < Versions THEN "script" ELSE "exit",
                   version |-> proc[p].version + 1, statement |-> 0,
                   pending |-> proc[p].version]
  <2>2. CASE proc' = [proc EXCEPT ![p] = q] /\ UNCHANGED <<created, recorded, result>>
    <3>1. proc[p].version \in 1 .. Versions
      BY <1>4 DEF Insert, Progress, Progressed
    <3>2. /\ proc[p].version + 1 \in 0 .. Versions + 1
          /\ proc[p].version \in 0 .. Versions
          /\ 0 \in 0 .. Statements
      BY <3>1, CountingFrom1, VersionNat
    <3>3. q \in ProcState
      BY <3>2 DEF ProcState
    <3>. QED
      BY <2>2, <3>3, ProcTypes DEF TypeOK
  <2>. QED
    BY <1>4, <2>1, <2>2 DEF Insert
<1>5. ASSUME NEW p \in Procs, Exit(p) PROVE TypeOK'
  BY <1>5, IdleType, CommittedType, ProcTypes DEF Exit, TypeOK
<1>6. ASSUME NEW p \in Procs, Crash(p) PROVE TypeOK'
  BY <1>6, IdleType, ProcTypes DEF Crash, TypeOK
<1>7. CASE UNCHANGED vars
  BY <1>7 DEF vars, TypeOK
<1>. QED
  BY <1>1, <1>2, <1>3, <1>4, <1>5, <1>6, <1>7 DEF Next, Initialize

-----------------------------------------------------------------------------
(* More objects and more versions do not disturb a process.                *)
LEMMA ProgressMonotone ==
  ASSUME NEW q, NEW C, NEW R, NEW C2, NEW R2, C \subseteq C2, R \subseteq R2,
         Progress(q, C, R)
  PROVE  Progress(q, C2, R2)
  BY DEF Progress, Done

LEMMA ProgressedStep ==
  ASSUME TypeOK, Progressed, NEW p \in Procs, NEW q,
         proc' = [proc EXCEPT ![p] = q], Progress(q, created', recorded'),
         created \subseteq created', recorded \subseteq recorded'
  PROVE  Progressed'
<1>. SUFFICES ASSUME NEW r \in Procs PROVE Progress(proc'[r], created', recorded')
  BY DEF Progressed
<1>1. CASE r = p
  BY <1>1 DEF TypeOK
<1>2. CASE r # p
  <2>1. proc'[r] = proc[r]
    BY <1>2 DEF TypeOK
  <2>2. Progress(proc[r], created, recorded)
    BY DEF Progressed
  <2>. QED
    BY <2>1, <2>2, ProgressMonotone
<1>. QED
  BY <1>1, <1>2

LEMMA IdleProgress == \A C, R : Progress(Idle, C, R)
  BY DEF Idle, Progress

(* Committing a version of which everything is done keeps what the         *)
(* recorded versions mean.                                                 *)
LEMMA CommitStep ==
  ASSUME IInv, NEW p \in Procs, recorded' = Committed(p), UNCHANGED created
  PROVE  /\ Complete' /\ Prefix'
         /\ recorded \subseteq recorded'
         /\ \A v \in 1 .. Versions : v \in recorded \/ v = proc[p].pending => v \in recorded'
<1>. USE DEF IInv
<1>1. Progress(proc[p], created, recorded)
  BY DEF Progressed
<1>2. CASE proc[p].pending = 0
  <2>1. recorded' = recorded
    BY <1>2 DEF Committed
  <2>2. \A v \in 1 .. Versions : v # 0
    BY VersionNat
  <2>. QED
    BY <1>2, <2>1, <2>2 DEF Complete, Prefix, Done
<1>3. CASE proc[p].pending # 0
  <2>1. recorded' = recorded \cup {proc[p].pending}
    BY <1>3 DEF Committed
  <2>2. /\ Done(proc[p].pending, Statements + 1, created)
        /\ \A v \in 1 .. Versions : v < proc[p].pending => v \in recorded
    BY <1>1, <1>3 DEF Progress
  <2>. QED
    BY <2>1, <2>2 DEF Complete, Prefix
<1>. QED
  BY <1>2, <1>3

LEMMA InvariantStep ==
  ASSUME IInv, [Next]_vars
  PROVE  IInv'
<1>. USE DEF IInv
<1>1. TypeOK'
  BY TypeStep
<1>2. ASSUME NEW p \in Procs, Begin(p) PROVE Progressed' /\ Complete' /\ Prefix' /\ UpToDate'
  <2>1. PICK current \in 0 .. Versions :
          /\ IsCurrent(current)
          /\ proc' = [proc EXCEPT ![p] = [Idle EXCEPT
                        !.pc = IF current < Versions THEN "script" ELSE "exit",
                        !.version = FirstNewer(current)]]
    BY <1>2 DEF Begin
  <2>2. UNCHANGED <<created, recorded>>
    BY <1>2 DEF Begin
  <2> DEFINE q == [Idle EXCEPT !.pc = IF current < Versions THEN "script" ELSE "exit",
                               !.version = FirstNewer(current)]
  <2>3. \A v \in 1 .. Versions : v <= current => v \in recorded
    <3>1. TAKE v \in 1 .. Versions
    <3>2. HAVE v <= current
    <3>3. current # 0 /\ (v = current \/ v < current)
      BY <3>2, VersionNat
    <3>. QED
      BY <2>1, <3>3 DEF IsCurrent, Prefix
  <2>4. /\ current < Versions => current + 1 \in 1 .. Versions
        /\ \A v \in 1 .. Versions : v < current + 1 => v <= current
        /\ ~(current < Versions) => current = Versions
        /\ \A v \in 1 .. Versions : v <= Versions
    BY VersionNat
  <2>5. Progress(q, created', recorded')
    <3>1. CASE current < Versions
      BY <2>2, <2>3, <2>4, <3>1 DEF Progress, Idle, FirstNewer
    <3>2. CASE ~(current < Versions)
      BY <2>2, <2>3, <2>4, <3>2 DEF Progress, Idle, FirstNewer
    <3>. QED
      BY <3>1, <3>2
  <2>6. Progressed'
    BY <2>1, <2>2, <2>5, ProgressedStep
  <2>7. UpToDate'
    BY <1>2 DEF Begin, UpToDate, TypeOK
  <2>. QED
    BY <2>2, <2>6, <2>7 DEF Complete, Prefix
<1>3. ASSUME NEW p \in Procs, ImplicitCommit(p)
      PROVE  Progressed' /\ Complete' /\ Prefix' /\ UpToDate'
  <2> DEFINE q == [proc[p] EXCEPT !.statement = 1, !.pending = 0]
  <2>1. /\ proc' = [proc EXCEPT ![p] = q]
        /\ recorded' = Committed(p)
        /\ UNCHANGED <<created, result>>
        /\ proc[p].pc = "script"
    BY <1>3 DEF ImplicitCommit
  <2>2. /\ Complete' /\ Prefix'
        /\ recorded \subseteq recorded'
        /\ \A v \in 1 .. Versions : v \in recorded \/ v = proc[p].pending => v \in recorded'
    BY <2>1, CommitStep
  <2>3. proc[p] \in ProcState /\ Progress(proc[p], created, recorded)
    BY DEF TypeOK, Progressed
  <2>4. /\ q.pc = "script" /\ q.statement = 1 /\ q.pending = 0
        /\ q.version = proc[p].version
    BY <2>1, <2>3 DEF ProcState
  <2>5. Done(q.version, 1, created')
    BY VersionNat DEF Done
  <2>6. Progress(q, created', recorded')
    <3>. HIDE DEF q
    <3>. QED
      BY <2>1, <2>2, <2>3, <2>4, <2>5 DEF Progress
  <2>7. Progressed'
    BY <2>1, <2>2, <2>6, ProgressedStep
  <2>8. UpToDate'
    BY <2>1, <2>2 DEF UpToDate
  <2>. QED
    BY <2>2, <2>7, <2>8
<1>4. ASSUME NEW p \in Procs, Fail(p) PROVE Progressed' /\ Complete' /\ Prefix' /\ UpToDate'
  <2>1. Progressed'
    BY <1>4, IdleProgress, ProgressedStep DEF Fail
  <2>2. UpToDate'
    BY <1>4 DEF Fail, UpToDate, TypeOK
  <2>. QED
    BY <1>4, <2>1, <2>2 DEF Fail, Complete, Prefix
<1>5. ASSUME NEW p \in Procs, Statement(p)
      PROVE  Progressed' /\ Complete' /\ Prefix' /\ UpToDate'
  <2>1. CASE Fail(p)
    BY <1>4, <2>1
  <2>2. CASE /\ created' = created \cup {<<proc[p].version, proc[p].statement>>}
             /\ proc' = NextStatement(p)
             /\ UNCHANGED <<recorded, result>>
    <3>1. /\ proc[p].pc = "script" /\ proc[p].statement > 0
          /\ proc[p] \in ProcState
          /\ Progress(proc[p], created, recorded)
      BY <1>5 DEF Statement, TypeOK, Progressed
    <3>2. proc[p].pending = 0 /\ Done(proc[p].version, proc[p].statement, created)
      BY <3>1 DEF Progress
    <3>3. proc[p].statement \in 1 .. Statements
      BY <3>1, VersionNat DEF ProcState
    <3>4. Done(proc[p].version, proc[p].statement + 1, created')
      <4>1. \A i \in 1 .. Statements :
               i < proc[p].statement + 1 => i < proc[p].statement \/ i = proc[p].statement
        BY <3>3, VersionNat
      <4>. QED
        BY <2>2, <3>2, <4>1 DEF Done
    <3>5. CASE proc[p].statement < Statements
      <4> DEFINE q == [proc[p] EXCEPT !.statement = proc[p].statement + 1]
      <4>1. proc' = [proc EXCEPT ![p] = q]
        BY <2>2, <3>5 DEF NextStatement
      <4>2. /\ q.pc = "script" /\ q.statement = proc[p].statement + 1
            /\ q.pending = 0 /\ q.version = proc[p].version
        BY <3>1, <3>2 DEF ProcState
      <4>3. Progress(q, created', recorded')
        <5>. HIDE DEF q
        <5>. QED
          BY <2>2, <3>1, <3>4, <4>2 DEF Progress
      <4>. QED
        BY <2>2, <4>1, <4>3, ProgressedStep DEF Complete, Done, Prefix, UpToDate
    <3>6. CASE ~(proc[p].statement < Statements)
      <4> DEFINE q == [proc[p] EXCEPT !.pc = "insert"]
      <4>1. proc' = [proc EXCEPT ![p] = q]
        BY <2>2, <3>6 DEF NextStatement
      <4>2. proc[p].statement = Statements
        BY <3>3, <3>6, VersionNat
      <4>3. /\ q.pc = "insert" /\ q.pending = 0 /\ q.version = proc[p].version
        BY <3>1, <3>2 DEF ProcState
      <4>4. Progress(q, created', recorded')
        <5>. HIDE DEF q
        <5>. QED
          BY <2>2, <3>1, <3>4, <4>2, <4>3 DEF Progress
      <4>. QED
        BY <2>2, <4>1, <4>4, ProgressedStep DEF Complete, Done, Prefix, UpToDate
    <3>. QED
      BY <3>5, <3>6
  <2>. QED
    BY <1>5, <2>1, <2>2 DEF Statement
<1>6. ASSUME NEW p \in Procs, Insert(p)
      PROVE  Progressed' /\ Complete' /\ Prefix' /\ UpToDate'
  <2>1. CASE Fail(p)
    BY <1>4, <2>1
  <2> DEFINE n == proc[p].version
             q == [pc |-> IF n < Versions THEN "script" ELSE "exit",
                   version |-> n + 1, statement |-> 0, pending |-> n]
  <2>2. CASE proc' = [proc EXCEPT ![p] = q] /\ UNCHANGED <<created, recorded, result>>
    <3>1. proc[p].pc = "insert" /\ Progress(proc[p], created, recorded)
      BY <1>6 DEF Insert, Progressed
    <3>2. /\ n \in 1 .. Versions
          /\ \A v \in 1 .. Versions : v < n => v \in recorded
          /\ Done(n, Statements + 1, created)
      <4>1. \A v \in 1 .. Versions : v # 0
        BY VersionNat
      <4>. QED
        BY <3>1, <4>1 DEF Progress
    <3>3. /\ \A v \in 1 .. Versions : v < n + 1 => v < n \/ v = n
          /\ n < Versions => n + 1 \in 1 .. Versions
          /\ ~(n < Versions) => \A v \in 1 .. Versions : v < n \/ v = n
      <4>. HIDE DEF n
      <4>. QED
        BY <3>2, VersionNat
    <3>4. Progress(q, created', recorded')
      <4>. HIDE DEF n
      <4>. QED
        BY <2>2, <3>2, <3>3 DEF Progress
    <3>. QED
      BY <2>2, <3>4, ProgressedStep DEF Complete, Done, Prefix, UpToDate
  <2>. QED
    BY <1>6, <2>1, <2>2 DEF Insert
<1>7. ASSUME NEW p \in Procs, Exit(p) PROVE Progressed' /\ Complete' /\ Prefix' /\ UpToDate'
  <2>1. /\ proc[p].pc = "exit"
        /\ recorded' = Committed(p)
        /\ proc' = [proc EXCEPT ![p] = Idle]
        /\ result' = [result EXCEPT ![p] = "ok"]
        /\ UNCHANGED created
    BY <1>7 DEF Exit
  <2>2. /\ Complete' /\ Prefix'
        /\ recorded \subseteq recorded'
        /\ \A v \in 1 .. Versions : v \in recorded \/ v = proc[p].pending => v \in recorded'
    BY <2>1, CommitStep
  <2>3. Progressed'
    BY <2>1, <2>2, IdleProgress, ProgressedStep
  <2>4. \A v \in 1 .. Versions : v \in recorded'
    <3>1. Progress(proc[p], created, recorded)
      BY DEF Progressed
    <3>. QED
      BY <2>1, <2>2, <3>1 DEF Progress
  <2>5. UpToDate'
    BY <2>4 DEF UpToDate
  <2>. QED
    BY <2>2, <2>3, <2>5
<1>8. ASSUME NEW p \in Procs, Crash(p) PROVE Progressed' /\ Complete' /\ Prefix' /\ UpToDate'
  <2>1. Progressed'
    BY <1>8, IdleProgress, ProgressedStep DEF Crash
  <2>. QED
    BY <1>8, <2>1 DEF Crash, Complete, Prefix, UpToDate
<1>9. CASE UNCHANGED vars
  BY <1>1, <1>9 DEF vars, Progressed, Complete, Prefix, UpToDate
<1>. QED
  BY <1>1, <1>2, <1>3, <1>5, <1>6, <1>7, <1>8, <1>9 DEF Next, Initialize

-----------------------------------------------------------------------------
THEOREM MigrationInvariant == Spec => []IInv
<1>1. IInv /\ [Next]_vars => IInv'
  BY InvariantStep
<1>. QED
  BY <1>1, InitInvariant, PTL DEF Spec

(* A version that is recorded has all of its objects, for any number of    *)
(* processes that migrate and crash.                                       *)
THEOREM RecordedComplete == Spec => []RecordedIsComplete
<1>1. IInv => RecordedIsComplete
  <2>1. \A i \in 1 .. Statements : i < Statements + 1
    BY VersionNat
  <2>2. ASSUME IInv, NEW v \in recorded PROVE Objects(v) \subseteq created
    BY <2>1, <2>2 DEF IInv, Complete, Done, Objects
  <2>. QED
    BY <2>2 DEF RecordedIsComplete
<1>. QED
  BY <1>1, MigrationInvariant, PTL

(* The recorded versions are all those up to the one that is read.         *)
THEOREM RecordedPrefix == Spec => []RecordedIsPrefix
<1>1. IInv => RecordedIsPrefix
  <2>1. ASSUME IInv, NEW v \in recorded, NEW u \in 1 .. v PROVE u \in recorded
    <3>1. v \in 1 .. Versions
      BY <2>1 DEF IInv, TypeOK
    <3>2. u \in 1 .. Versions /\ (u = v \/ u < v)
      BY <3>1, VersionNat
    <3>. QED
      BY <2>1, <3>2 DEF IInv, Prefix
  <2>. QED
    BY <2>1 DEF RecordedIsPrefix
<1>. QED
  BY <1>1, MigrationInvariant, PTL

(* An initialize that returned has left the schema at the newest version.  *)
THEOREM ReturnedCurrent == Spec => []ReturnedMeansCurrent
<1>1. Versions \in 1 .. Versions
  BY MigrationAssumption
<1>2. IInv => ReturnedMeansCurrent
  BY <1>1 DEF IInv, UpToDate, ReturnedMeansCurrent
<1>. QED
  BY <1>2, MigrationInvariant, PTL

-----------------------------------------------------------------------------
(* The first object of a migration is there once a process is beyond it.   *)
LEMMA FirstObject ==
  ASSUME IInv, NEW q \in Procs, proc[q].pc \in {"script", "insert"}, proc[q].statement > 1
  PROVE  <<proc[q].version, 1>> \in created
<1>1. proc[q] \in ProcState
  BY DEF IInv, TypeOK
<1>2. 1 \in 1 .. Statements /\ 1 < Statements + 1
  BY <1>1, MigrationAssumption DEF ProcState
<1>3. Progress(proc[q], created, recorded)
  BY DEF IInv, Progressed
<1>4. proc[q].statement > 0 /\ 1 < proc[q].statement
  BY <1>1, MigrationAssumption DEF ProcState
<1>. QED
  BY <1>2, <1>3, <1>4 DEF Progress, Done

(* A process comes to the second statement of a migration only if it made  *)
(* the first object itself, so nobody else has.                            *)
LEMMA OneMigratorStep ==
  ASSUME IInv, OneMigrator, [Next]_vars
  PROVE  OneMigrator'
<1>1. SUFFICES ASSUME NEW p \in Procs, NEW q \in Procs, p # q,
                      proc'[p].pc \in {"script", "insert"}, proc'[p].statement > 1,
                      proc'[q].pc \in {"script", "insert"}, proc'[q].statement > 1
               PROVE  proc'[p].version # proc'[q].version
  BY DEF OneMigrator
<1>2. proc \in [Procs -> ProcState]
  BY DEF IInv, TypeOK
<1>3. ASSUME proc'[p] = proc[p], proc'[q] = proc[q] PROVE proc'[p].version # proc'[q].version
  BY <1>1, <1>3 DEF OneMigrator
<1>4. ASSUME NEW a \in {p, q}, NEW b \in {p, q}, a # b, Initialize(a) \/ Crash(a)
      PROVE  proc'[a].version # proc'[b].version
  <2>1. proc'[b] = proc[b]
    BY <1>2, <1>4 DEF Initialize, Begin, ImplicitCommit, Statement, NextStatement, Insert, Exit,
       Crash, Fail
  <2>2. proc'[a].pc \in {"script", "insert"} /\ proc'[a].statement > 1
    BY <1>1
  <2>3. Idle.statement = 0 /\ Idle.pc = "idle"
    BY DEF Idle
  <2>4. CASE Begin(a)
    BY <1>2, <2>2, <2>3, <2>4 DEF Begin, Idle
  <2>5. CASE ImplicitCommit(a)
    BY <1>2, <2>2, <2>5 DEF ImplicitCommit, ProcState
  <2>6. CASE Insert(a)
    BY <1>2, <2>2, <2>3, <2>6 DEF Insert, Fail
  <2>7. CASE Exit(a) \/ Crash(a)
    BY <1>2, <2>2, <2>3, <2>7 DEF Exit, Crash
  <2>8. CASE Statement(a)
    <3>1. <<proc[a].version, proc[a].statement>> \notin created /\ proc' = NextStatement(a)
      BY <1>2, <2>2, <2>3, <2>8 DEF Statement, Fail
    <3>2. proc'[a].version = proc[a].version
      BY <1>2, <3>1 DEF NextStatement
    <3>3. <<proc[b].version, 1>> \in created
      BY <1>1, <2>1, FirstObject
    <3>4. CASE proc[a].statement = 1
      BY <2>1, <3>1, <3>2, <3>3, <3>4
    <3>5. CASE proc[a].statement # 1
      <4>1. proc[a].statement > 1
        BY <1>2, <2>8, <3>5, MigrationAssumption DEF Statement, ProcState
      <4>2. proc[b].pc \in {"script", "insert"} /\ proc[b].statement > 1
        BY <1>1, <2>1
      <4>3. a \in Procs /\ b \in Procs /\ a # b /\ proc[a].pc = "script"
        BY <1>4, <2>8 DEF Statement
      <4>4. proc[a].version # proc[b].version
        BY <4>1, <4>2, <4>3 DEF OneMigrator
      <4>. QED
        BY <2>1, <3>2, <4>4
    <3>. QED
      BY <3>4, <3>5
  <2>. QED
    BY <1>4, <2>4, <2>5, <2>6, <2>7, <2>8 DEF Initialize
<1>5. ASSUME NEW r \in Procs, Initialize(r) \/ Crash(r) PROVE proc'[p].version # proc'[q].version
  <2>1. CASE r \in {p, q}
    BY <1>1, <1>4, <1>5, <2>1
  <2>2. CASE r \notin {p, q}
    <3>1. proc'[p] = proc[p] /\ proc'[q] = proc[q]
      BY <1>2, <1>5, <2>2 DEF Initialize, Begin, ImplicitCommit, Statement, NextStatement, Insert,
         Exit, Crash, Fail
    <3>. QED
      BY <1>3, <3>1
  <2>. QED
    BY <2>1, <2>2
<1>6. CASE UNCHANGED vars
  BY <1>3, <1>6 DEF vars
<1>. QED
  BY <1>5, <1>6 DEF Next

(* No two processes get beyond the first statement of one migration, for   *)
(* any number of them.                                                     *)
THEOREM MigratorsExclude == Spec => []OneMigrator
<1>1. Init => OneMigrator
  BY DEF Init, Idle, OneMigrator
<1>2. IInv /\ OneMigrator /\ [Next]_vars => OneMigrator'
  BY OneMigratorStep
<1>. QED
  BY <1>1, <1>2, MigrationInvariant, PTL DEF Spec
=============================================================================
