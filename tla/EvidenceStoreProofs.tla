------------------------ MODULE EvidenceStoreProofs ------------------------
(***************************************************************************)
(* The invariants of EvidenceStore hold for every set of processes, texts  *)
(* and checkpoints, and the store implements Retention.                    *)
(***************************************************************************)
EXTENDS EvidenceStore, SequenceTheorems, TLAPS

(* Where a process whose local state is q can be in each operation, and    *)
(* what it then holds, when the references are R and the checkpoints C: a  *)
(* save has referred to the evidence it has been through, and a load is    *)
(* about a checkpoint that has been saved.                                 *)
Inside(q) == /\ q.checkpoint \in Checkpoints
             /\ q.at < Len(q.checkpoint.evidence)

CallInv(q, R, C) ==
  /\ q.pc \in {"put select", "put insert"} => q.op = "put" /\ q.text \in Texts
  /\ q.pc \in {"get select", "get update"}
       => \/ q.op = "get" /\ q.text \in Texts
          \/ q.op \in {"save", "load"} /\ Inside(q)
  /\ q.pc = "save reference" => q.op = "save" /\ Inside(q)
  /\ q.pc = "save insert" => /\ q.op = "save"
                             /\ q.checkpoint \in Checkpoints
                             /\ q.at = Len(q.checkpoint.evidence)
  /\ q.pc = "load check" => q.op = "load" /\ q.checkpoint \in Checkpoints
  /\ q.op = "save" => \A i \in 1 .. q.at : <<q.checkpoint.id, q.checkpoint.evidence[i]>> \in R
  /\ q.op = "load" => q.checkpoint \in C

CallsInv == \A p \in Procs : CallInv(proc[p], refs, checkpoints)

(* The evidence of a saved checkpoint is referenced in its name.           *)
Referred == \A c \in checkpoints : \A i \in DOMAIN c.evidence :
              <<c.id, c.evidence[i]>> \in refs

IInv == /\ TypeOK
        /\ CallsInv
        /\ ForeignKey
        /\ Referred
        /\ LoadNeverMissing
        /\ ReadsAreVerified
        /\ RetentionNeverRejected
        /\ CheckpointIdsUnique

-----------------------------------------------------------------------------
LEMMA MaxClockNat == MaxClock \in Nat
  BY ConstantsAssumption

LEMMA NextIndex == \A m, n \in Nat : m < n => m + 1 \in 1 .. n
  OBVIOUS

(* The piece of evidence a process asks for is a text: get was given one,  *)
(* and save and load are inside the list of their checkpoint.              *)
LEMMA AskedIsText ==
  ASSUME TypeOK, CallsInv, NEW p \in Procs,
         proc[p].pc \in {"get select", "get update", "save reference"}
  PROVE  Asked(p) \in Texts
<1>1. CASE proc[p].op = "get"
  BY <1>1 DEF CallsInv, CallInv, Inside, Asked
<1>2. CASE proc[p].op # "get"
  <2>1. /\ proc[p].checkpoint \in Checkpoints
        /\ proc[p].at < Len(proc[p].checkpoint.evidence)
    BY <1>2 DEF CallsInv, CallInv, Inside
  <2>2. proc[p].checkpoint.evidence \in Seq(Texts)
    BY <2>1, ConstantsAssumption
  <2>3. proc[p].at \in Nat
    BY DEF TypeOK, ProcState
  <2>4. Len(proc[p].checkpoint.evidence) \in Nat
    BY <2>2, LenProperties
  <2>6. proc[p].at + 1 \in 1 .. Len(proc[p].checkpoint.evidence)
    BY <2>1, <2>3, <2>4, NextIndex
  <2>5. proc[p].checkpoint.evidence[proc[p].at + 1] \in Texts
    BY <2>2, <2>6, ElementOfSeq
  <2>. QED
    BY <1>2, <2>5 DEF Asked
<1>. QED  BY <1>1, <1>2

(* An idle process and no outcome have their types; a call that returns or *)
(* raises leaves both typed, and so does the start of a call.              *)
LEMMA IdleTypes == Idle \in ProcState /\ NoOutcome \in Outcome
  BY ConstantsAssumption DEF Idle, ProcState, Steps, NoOutcome, Outcome

LEMMA AnswerTypes ==
  ASSUME TypeOK, NEW p \in Procs, NEW op, NEW result, NEW asked, NEW got,
         [op |-> op, result |-> result, asked |-> asked, got |-> got] \in Outcome,
         Answer(p, op, result, asked, got)
  PROVE  /\ proc' \in [Procs -> ProcState]
         /\ outcome' \in [Procs -> Outcome]
  BY IdleTypes DEF Answer, TypeOK

LEMMA BeginTypes ==
  ASSUME TypeOK, NEW p \in Procs, NEW call \in ProcState, Begin(p, call)
  PROVE  TypeOK'
  BY IdleTypes DEF Begin, TypeOK, TablesOK

(* The empty store, idle processes and no outcome satisfy the invariant.   *)
LEMMA InitInvariant == Init => IInv
<1>. SUFFICES ASSUME Init PROVE IInv
  OBVIOUS
<1>. USE ConstantsAssumption DEF Init
<1>1. TypeOK
  <2>1. proc \in [Procs -> ProcState]
    BY DEF Idle, ProcState, Steps
  <2>. QED
    BY <2>1, IdleTypes DEF TypeOK, TablesOK, Row
<1>2. CallsInv
  BY DEF CallsInv, CallInv, Idle
<1>3. ForeignKey /\ Referred /\ CheckpointIdsUnique
  BY DEF ForeignKey, Referenced, Referred, CheckpointIdsUnique
<1>4. LoadNeverMissing /\ ReadsAreVerified /\ RetentionNeverRejected
  BY DEF LoadNeverMissing, ReadsAreVerified, RetentionNeverRejected, NoOutcome
<1>. QED
  BY <1>1, <1>2, <1>3, <1>4 DEF IInv

(* Where a save or a load continues is one of the steps.                   *)
LEMMA ResumeIsStep == \A op, c, n : Resume(op, c, n) \in Steps
  BY DEF Resume, Steps

(* Every step keeps the types.                                             *)
LEMMA TypeStep ==
  ASSUME TypeOK, CallsInv, [Next]_vars
  PROVE  TypeOK'
<1>1. ASSUME NEW p \in Procs, NEW c \in Contents, BeginPut(p, c) PROVE TypeOK'
  <2>1. [Idle EXCEPT !.op = "put", !.pc = "put select",
                     !.text = PersistedText(c), !.now = clock] \in ProcState
    <3>1. PersistedText(c) \in Texts /\ clock \in 0 .. MaxClock
      BY ConstantsAssumption DEF PersistedText, TypeOK, TablesOK
    <3>. QED
      BY <3>1, IdleTypes DEF ProcState, Steps
  <2>2. Begin(p, [Idle EXCEPT !.op = "put", !.pc = "put select",
                              !.text = PersistedText(c), !.now = clock])
    BY <1>1 DEF BeginPut
  <2>. QED
    BY <2>1, <2>2, BeginTypes
<1>2. ASSUME NEW p \in Procs, PutSelect(p) PROVE TypeOK'
  <2>1. TablesOK'
    BY <1>2 DEF PutSelect, TypeOK, TablesOK
  <2>2. CASE Answer(p, "put", "collision", proc[p].text, Nothing)
    <3>1. [op |-> "put", result |-> "collision", asked |-> proc[p].text, got |-> Nothing]
            \in Outcome
      BY DEF TypeOK, ProcState, Outcome
    <3>. QED
      BY <2>1, <2>2, <3>1, AnswerTypes DEF TypeOK
  <2>3. CASE proc' = [proc EXCEPT ![p].pc = "put insert"] /\ UNCHANGED outcome
    <3>1. [proc[p] EXCEPT !.pc = "put insert"] \in ProcState
      BY DEF TypeOK, ProcState, Steps
    <3>. QED
      BY <2>1, <2>3, <3>1 DEF TypeOK
  <2>4. \/ Answer(p, "put", "collision", proc[p].text, Nothing)
        \/ proc' = [proc EXCEPT ![p].pc = "put insert"] /\ UNCHANGED outcome
    BY <1>2 DEF PutSelect
  <2>. QED
    BY <2>2, <2>3, <2>4
<1>3. ASSUME NEW p \in Procs, PutInsert(p) PROVE TypeOK'
  <2>1. proc[p].text \in Texts /\ proc[p].now \in 0 .. MaxClock
    BY <1>3 DEF PutInsert, CallsInv, CallInv, Inside, TypeOK, ProcState
  <2>2. [content |-> proc[p].text, last |-> proc[p].now] \in Row
    BY <2>1 DEF Row
  <2>3. /\ DOMAIN evidence' \subseteq Texts
        /\ evidence' \in [DOMAIN evidence' -> Row]
    BY <1>3, <2>1, <2>2 DEF PutInsert, Put, WithRow, TypeOK, TablesOK
  <2>4. TablesOK'
    BY <1>3, <2>3 DEF PutInsert, TypeOK, TablesOK
  <2>5. [op |-> "put", result |-> "ok", asked |-> proc[p].text, got |-> Nothing] \in Outcome
    BY <2>1 DEF Outcome
  <2>6. Answer(p, "put", "ok", proc[p].text, Nothing)
    BY <1>3 DEF PutInsert
  <2>. QED
    BY <2>4, <2>5, <2>6, AnswerTypes DEF TypeOK
<1>4. ASSUME NEW p \in Procs, NEW d \in Texts, BeginGet(p, d) PROVE TypeOK'
  <2>1. [Idle EXCEPT !.op = "get", !.pc = "get select", !.text = d] \in ProcState
    BY IdleTypes DEF ProcState, Steps
  <2>. QED
    BY <1>4, <2>1, BeginTypes DEF BeginGet
<1>5. ASSUME NEW p \in Procs, GetSelect(p) PROVE TypeOK'
  <2>1. Asked(p) \in Texts
    BY <1>5, AskedIsText DEF GetSelect
  <2>2. TablesOK'
    BY <1>5 DEF GetSelect, TypeOK, TablesOK
  <2>3. CASE Asked(p) \in DOMAIN evidence
    <3>1. evidence[Asked(p)].content \in Texts /\ clock \in 0 .. MaxClock
      BY <2>3 DEF TypeOK, TablesOK, Row
    <3>2. /\ proc' = [proc EXCEPT ![p].pc = "get update", ![p].now = clock,
                                  ![p].read = evidence[Asked(p)].content]
          /\ UNCHANGED outcome
      BY <1>5, <2>3 DEF GetSelect
    <3>3. proc[p] \in ProcState
      BY DEF TypeOK
    <3>4. [proc[p] EXCEPT !.pc = "get update", !.now = clock,
                          !.read = evidence[Asked(p)].content] \in ProcState
      BY <3>1, <3>3 DEF ProcState, Steps
    <3>. QED
      BY <2>2, <3>2, <3>4 DEF TypeOK
  <2>4. CASE Asked(p) \notin DOMAIN evidence
    <3>1. [op |-> proc[p].op, result |-> "evidence missing", asked |-> Asked(p),
           got |-> Nothing] \in Outcome
      BY <2>1 DEF TypeOK, ProcState, Outcome
    <3>2. Answer(p, proc[p].op, "evidence missing", Asked(p), Nothing)
      BY <1>5, <2>4 DEF GetSelect
    <3>. QED
      BY <2>2, <3>1, <3>2, AnswerTypes DEF TypeOK
  <2>. QED
    BY <2>3, <2>4
<1>6. ASSUME NEW p \in Procs, GetUpdate(p) PROVE TypeOK'
  <2>1. Asked(p) \in Texts
    BY <1>6, AskedIsText DEF GetUpdate
  <2>2. PICK now \in proc[p].now .. clock :
          evidence' = IF Asked(p) \in DOMAIN evidence
                      THEN [evidence EXCEPT ![Asked(p)].last = now] ELSE evidence
    BY <1>6 DEF GetUpdate
  <2>3. now \in 0 .. MaxClock
    BY ConstantsAssumption DEF TypeOK, TablesOK, ProcState
  <2>4. /\ DOMAIN evidence' \subseteq Texts
        /\ evidence' \in [DOMAIN evidence' -> Row]
    BY <2>2, <2>3 DEF TypeOK, TablesOK, Row
  <2>5. TablesOK'
    BY <1>6, <2>4 DEF GetUpdate, TypeOK, TablesOK
  <2>6. AfterGet(p)
    BY <1>6 DEF GetUpdate
  <2>7. proc[p].op \in {"get", "save", "load"} /\ proc[p].read \in Texts \cup {Nothing}
    BY <1>6 DEF GetUpdate, CallsInv, CallInv, Inside, TypeOK, ProcState
  <2>8. CASE ~Verified(Asked(p), proc[p].read)
    <3>1. [op |-> proc[p].op, result |-> "corrupt", asked |-> Asked(p), got |-> Nothing]
            \in Outcome
      BY <2>1, <2>7 DEF Outcome
    <3>2. Answer(p, proc[p].op, "corrupt", Asked(p), Nothing)
      BY <2>6, <2>8 DEF AfterGet
    <3>. QED
      BY <2>5, <3>1, <3>2, AnswerTypes DEF TypeOK
  <2>9. CASE Verified(Asked(p), proc[p].read) /\ proc[p].op = "get"
    <3>1. [op |-> "get", result |-> "ok", asked |-> Asked(p), got |-> proc[p].read] \in Outcome
      BY <2>1, <2>7 DEF Outcome
    <3>2. Answer(p, "get", "ok", Asked(p), proc[p].read)
      BY <2>6, <2>9 DEF AfterGet
    <3>. QED
      BY <2>5, <3>1, <3>2, AnswerTypes DEF TypeOK
  <2>10. CASE Verified(Asked(p), proc[p].read) /\ proc[p].op = "save"
    <3>1. /\ proc' = [proc EXCEPT ![p].pc = "save reference", ![p].read = Nothing]
          /\ UNCHANGED outcome
      BY <2>6, <2>10 DEF AfterGet
    <3>2. proc[p] \in ProcState
      BY DEF TypeOK
    <3>3. [proc[p] EXCEPT !.pc = "save reference", !.read = Nothing] \in ProcState
      BY <3>2 DEF ProcState, Steps
    <3>. QED
      BY <2>5, <3>1, <3>3 DEF TypeOK
  <2>11. CASE Verified(Asked(p), proc[p].read) /\ proc[p].op = "load"
    <3>1. /\ proc' = [proc EXCEPT
                ![p].pc = Resume("load", proc[p].checkpoint, proc[p].at + 1),
                ![p].at = proc[p].at + 1, ![p].read = Nothing]
          /\ UNCHANGED outcome
      BY <2>6, <2>11 DEF AfterGet
    <3>2. Resume("load", proc[p].checkpoint, proc[p].at + 1) \in Steps
      BY ResumeIsStep
    <3>. QED
      BY <2>5, <3>1, <3>2 DEF TypeOK, ProcState
  <2>. QED
    BY <2>7, <2>8, <2>9, <2>10, <2>11
<1>7. ASSUME NEW p \in Procs, NEW o \in Owners, NEW d \in Texts, Reference(p, o, d)
      PROVE  TypeOK'
  <2>1. TablesOK'
    <3>1. refs' \subseteq Owners \X Texts
      <4>1. refs' \subseteq refs \cup {<<o, d>>}
        BY <1>7 DEF Reference
      <4>. QED
        BY <4>1 DEF TypeOK, TablesOK
    <3>2. UNCHANGED <<evidence, checkpoints, clock, head>>
      BY <1>7 DEF Reference
    <3>. QED
      BY <3>1, <3>2 DEF TypeOK, TablesOK
  <2>2. PICK result \in {"ok", "foreign key"} : Answer(p, "reference", result, d, Nothing)
    BY <1>7 DEF Reference
  <2>3. [op |-> "reference", result |-> result, asked |-> d, got |-> Nothing] \in Outcome
    BY DEF Outcome
  <2>. QED
    BY <2>1, <2>2, <2>3, AnswerTypes DEF TypeOK
<1>8. ASSUME NEW p \in Procs, NEW cutoff \in 0 .. clock, Collect(p, cutoff) PROVE TypeOK'
  <2>1. /\ DOMAIN evidence' \subseteq Texts
        /\ evidence' \in [DOMAIN evidence' -> Row]
    BY <1>8 DEF Collect, WithoutRows, TypeOK, TablesOK
  <2>2. TablesOK'
    BY <1>8, <2>1 DEF Collect, TypeOK, TablesOK
  <2>3. cutoff \in 0 .. MaxClock
    <3>1. clock \in 0 .. MaxClock
      BY DEF TypeOK, TablesOK
    <3>. QED
      BY <3>1, MaxClockNat
  <2>4. PICK result \in {"ok", "foreign key"} : Answer(p, "collect", result, cutoff, Nothing)
    BY <1>8 DEF Collect
  <2>5. [op |-> "collect", result |-> result, asked |-> cutoff, got |-> Nothing] \in Outcome
    BY <2>3 DEF Outcome
  <2>. QED
    BY <2>2, <2>4, <2>5, AnswerTypes DEF TypeOK
<1>9. ASSUME NEW p \in Procs, NEW c \in Checkpoints, BeginSave(p, c) PROVE TypeOK'
  <2>1. [Idle EXCEPT !.op = "save", !.pc = Resume("save", c, 0), !.checkpoint = c] \in ProcState
    BY IdleTypes, ResumeIsStep DEF ProcState
  <2>. QED
    BY <1>9, <2>1, BeginTypes DEF BeginSave
<1>10. ASSUME NEW p \in Procs, SaveReference(p) PROVE TypeOK'
  <2>1. Asked(p) \in Texts
    BY <1>10, AskedIsText DEF SaveReference
  <2>2. proc[p].checkpoint \in Checkpoints /\ proc[p].checkpoint.id \in Owners
    BY <1>10, ConstantsAssumption DEF SaveReference, CallsInv, CallInv, Inside
  <2>3. TablesOK'
    <3>1. refs' \subseteq refs \cup {<<proc[p].checkpoint.id, Asked(p)>>}
      BY <1>10 DEF SaveReference
    <3>2. refs' \subseteq Owners \X Texts
      BY <2>1, <2>2, <3>1 DEF TypeOK, TablesOK
    <3>. QED
      BY <1>10, <3>2 DEF SaveReference, TypeOK, TablesOK
  <2>4. CASE Acceptable(Asked(p))
    <3>1. /\ proc' = [proc EXCEPT
                ![p].pc = Resume("save", proc[p].checkpoint, proc[p].at + 1),
                ![p].at = proc[p].at + 1]
          /\ UNCHANGED outcome
      BY <1>10, <2>4 DEF SaveReference
    <3>2. Resume("save", proc[p].checkpoint, proc[p].at + 1) \in Steps
      BY ResumeIsStep
    <3>. QED
      BY <2>3, <3>1, <3>2 DEF TypeOK, ProcState
  <2>5. CASE ~Acceptable(Asked(p))
    <3>1. [op |-> "save", result |-> "foreign key", asked |-> Asked(p), got |-> Nothing]
            \in Outcome
      BY <2>1 DEF Outcome
    <3>2. Answer(p, "save", "foreign key", Asked(p), Nothing)
      BY <1>10, <2>5 DEF SaveReference
    <3>. QED
      BY <2>3, <3>1, <3>2, AnswerTypes DEF TypeOK
  <2>. QED
    BY <2>4, <2>5
<1>11. ASSUME NEW p \in Procs, SaveInsert(p) PROVE TypeOK'
  <2>1. proc[p].checkpoint \in Checkpoints /\ proc[p].checkpoint.id \in Owners
    BY <1>11, ConstantsAssumption DEF SaveInsert, CallsInv, CallInv, Inside
  <2>2. TablesOK'
    BY <1>11, <2>1 DEF SaveInsert, TypeOK, TablesOK
  <2>3. PICK result \in {"ok", "duplicate"} :
          Answer(p, "save", result, proc[p].checkpoint.id, Nothing)
    BY <1>11 DEF SaveInsert
  <2>4. [op |-> "save", result |-> result, asked |-> proc[p].checkpoint.id, got |-> Nothing]
          \in Outcome
    BY <2>1 DEF Outcome
  <2>. QED
    BY <2>2, <2>3, <2>4, AnswerTypes DEF TypeOK
<1>12. ASSUME NEW p \in Procs, NEW id \in Owners, LoadSelect(p, id) PROVE TypeOK'
  <2>1. TablesOK'
    BY <1>12 DEF LoadSelect, TypeOK, TablesOK
  <2>2. CASE Answer(p, "load", "checkpoint missing", id, Nothing)
    <3>1. [op |-> "load", result |-> "checkpoint missing", asked |-> id, got |-> Nothing]
            \in Outcome
      BY DEF Outcome
    <3>. QED
      BY <2>1, <2>2, <3>1, AnswerTypes DEF TypeOK
  <2>3. ASSUME NEW c \in checkpoints,
               proc' = [proc EXCEPT ![p] = [Idle EXCEPT !.op = "load", !.checkpoint = c,
                                                        !.pc = Resume("load", c, 0)]],
               outcome' = [outcome EXCEPT ![p] = NoOutcome]
        PROVE  TypeOK'
    <3>1. c \in Checkpoints
      BY DEF TypeOK, TablesOK
    <3>2. [Idle EXCEPT !.op = "load", !.checkpoint = c, !.pc = Resume("load", c, 0)]
            \in ProcState
      BY <3>1, IdleTypes, ResumeIsStep DEF ProcState
    <3>. QED
      BY <2>1, <2>3, <3>2, IdleTypes DEF TypeOK
  <2>. QED
    BY <1>12, <2>2, <2>3 DEF LoadSelect
<1>13. ASSUME NEW p \in Procs, LoadCheck(p) PROVE TypeOK'
  <2>1. TablesOK'
    BY <1>13 DEF LoadCheck, TypeOK, TablesOK
  <2>2. PICK result \in {"ok", "stale"} :
          Answer(p, "load", result, proc[p].checkpoint.id, Nothing)
    BY <1>13 DEF LoadCheck
  <2>3. proc[p].checkpoint.id \in Owners
    BY <1>13, ConstantsAssumption DEF LoadCheck, CallsInv, CallInv, Inside
  <2>4. [op |-> "load", result |-> result, asked |-> proc[p].checkpoint.id, got |-> Nothing]
          \in Outcome
    BY <2>3 DEF Outcome
  <2>. QED
    BY <2>1, <2>2, <2>4, AnswerTypes DEF TypeOK
<1>14. ASSUME NEW p \in Procs, Crash(p) PROVE TypeOK'
  BY <1>14, IdleTypes DEF Crash, TypeOK, TablesOK
<1>15. ASSUME Tick PROVE TypeOK'
  BY <1>15, ConstantsAssumption DEF Tick, TypeOK, TablesOK
<1>16. ASSUME MoveHead PROVE TypeOK'
  BY <1>16 DEF MoveHead, TypeOK, TablesOK
<1>17. ASSUME NEW d \in Texts, NEW raw \in Texts, Tamper(d, raw) PROVE TypeOK'
  BY <1>17 DEF Tamper, Row, TypeOK, TablesOK
<1>18. CASE UNCHANGED vars
  BY <1>18 DEF vars, TypeOK, TablesOK
<1>. QED
  BY <1>1, <1>2, <1>3, <1>4, <1>5, <1>6, <1>7, <1>8, <1>9, <1>10, <1>11, <1>12,
     <1>13, <1>14, <1>15, <1>16, <1>17, <1>18 DEF Next
-----------------------------------------------------------------------------
(* More references and more checkpoints do not disturb a call.             *)
LEMMA CallInvMonotone ==
  ASSUME NEW q, NEW R, NEW C, NEW R2, NEW C2, R \subseteq R2, C \subseteq C2,
         CallInv(q, R, C)
  PROVE  CallInv(q, R2, C2)
  BY DEF CallInv

(* A step of p that ends with a local state as it should be keeps CallsInv.*)
LEMMA CallsStep ==
  ASSUME TypeOK, CallsInv, NEW p \in Procs, NEW q,
         proc' = [proc EXCEPT ![p] = q], CallInv(q, refs', checkpoints'),
         refs \subseteq refs', checkpoints \subseteq checkpoints'
  PROVE  CallsInv'
<1>. SUFFICES ASSUME NEW r \in Procs PROVE CallInv(proc'[r], refs', checkpoints')
  BY DEF CallsInv
<1>1. CASE r = p
  <2>1. proc'[r] = q
    BY <1>1 DEF TypeOK
  <2>. QED
    BY <2>1
<1>2. CASE r # p
  <2>1. proc'[r] = proc[r]
    BY <1>2 DEF TypeOK
  <2>2. CallInv(proc[r], refs, checkpoints)
    BY DEF CallsInv
  <2>3. CallInv(proc[r], refs', checkpoints')
    BY <2>2, CallInvMonotone
  <2>. QED
    BY <2>1, <2>3
<1>. QED
  BY <1>1, <1>2

(* An idle process is in no call.                                          *)
LEMMA IdleCall == \A R, C : CallInv(Idle, R, C)
  BY DEF CallInv, Idle

LEMMA AnswerCall ==
  ASSUME TypeOK, CallsInv, NEW p \in Procs, NEW op, NEW result, NEW asked, NEW got,
         Answer(p, op, result, asked, got),
         refs \subseteq refs', checkpoints \subseteq checkpoints'
  PROVE  CallsInv'
<1>1. proc' = [proc EXCEPT ![p] = Idle]
  BY DEF Answer
<1>. QED
  BY <1>1, IdleCall, CallsStep
LEMMA EvidenceLength == \A c \in Checkpoints : Len(c.evidence) \in Nat
<1>. TAKE c \in Checkpoints
<1>1. c.evidence \in Seq(Texts)
  BY ConstantsAssumption
<1>. QED
  BY <1>1, LenProperties

LEMMA AtMostOneMore == \A m, n \in Nat : m < n /\ ~(m + 1 < n) => m + 1 = n
  OBVIOUS

(* A save that has referred to one more piece of evidence than before.     *)
LEMMA OneMore ==
  ASSUME NEW c, NEW n \in Nat, NEW R,
         \A i \in 1 .. n : <<c.id, c.evidence[i]>> \in R,
         <<c.id, c.evidence[n + 1]>> \in R
  PROVE  \A i \in 1 .. (n + 1) : <<c.id, c.evidence[i]>> \in R
<1>1. \A i \in 1 .. (n + 1) : i \in 1 .. n \/ i = n + 1
  OBVIOUS
<1>. QED
  BY <1>1

LEMMA NothingYet == \A c, R : \A i \in 1 .. 0 : <<c.id, c.evidence[i]>> \in R
  OBVIOUS

(* A save or a load that resumes after n pieces of evidence is well placed.*)
LEMMA ResumeCall ==
  ASSUME NEW c \in Checkpoints, NEW n \in Nat, n < Len(c.evidence) \/ n = Len(c.evidence),
         NEW q, NEW R, NEW C, NEW op \in {"save", "load"},
         q.op = op, q.checkpoint = c, q.at = n, q.pc = Resume(op, c, n),
         op = "save" => \A i \in 1 .. n : <<c.id, c.evidence[i]>> \in R,
         op = "load" => c \in C
  PROVE  CallInv(q, R, C)
<1>1. CASE n < Len(c.evidence)
  BY <1>1 DEF Resume, CallInv, Inside
<1>2. CASE ~(n < Len(c.evidence))
  BY <1>2 DEF Resume, CallInv, Inside
<1>. QED
  BY <1>1, <1>2

(* Every step keeps each process where its operation may be.               *)
LEMMA CallsInvStep ==
  ASSUME TypeOK, CallsInv, [Next]_vars
  PROVE  CallsInv'
<1>1. ASSUME NEW p \in Procs, NEW c \in Contents, BeginPut(p, c) PROVE CallsInv'
  <2> DEFINE q == [Idle EXCEPT !.op = "put", !.pc = "put select",
                               !.text = PersistedText(c), !.now = clock]
  <2>1. CallInv(q, refs', checkpoints')
    BY ConstantsAssumption DEF CallInv, Idle, PersistedText
  <2>2. /\ proc' = [proc EXCEPT ![p] = q]
        /\ UNCHANGED <<refs, checkpoints>>
    BY <1>1 DEF BeginPut, Begin
  <2>. QED
    BY <2>1, <2>2, CallsStep
<1>2. ASSUME NEW p \in Procs, PutSelect(p) PROVE CallsInv'
  <2>1. UNCHANGED <<refs, checkpoints>>
    BY <1>2 DEF PutSelect
  <2>2. CASE Answer(p, "put", "collision", proc[p].text, Nothing)
    BY <2>1, <2>2, AnswerCall
  <2>3. CASE proc' = [proc EXCEPT ![p].pc = "put insert"]
    <3> DEFINE q == [proc[p] EXCEPT !.pc = "put insert"]
    <3>1. CallInv(proc[p], refs, checkpoints) /\ proc[p].pc = "put select"
      BY <1>2 DEF CallsInv, PutSelect
    <3>2. CallInv(q, refs', checkpoints')
      BY <2>1, <3>1 DEF CallInv, TypeOK, ProcState
    <3>. QED
      BY <2>1, <2>3, <3>2, CallsStep
  <2>. QED
    BY <1>2, <2>2, <2>3 DEF PutSelect
<1>3. ASSUME NEW p \in Procs, PutInsert(p) PROVE CallsInv'
  BY <1>3, AnswerCall DEF PutInsert
<1>4. ASSUME NEW p \in Procs, NEW d \in Texts, BeginGet(p, d) PROVE CallsInv'
  <2> DEFINE q == [Idle EXCEPT !.op = "get", !.pc = "get select", !.text = d]
  <2>1. CallInv(q, refs', checkpoints')
    BY DEF CallInv, Idle
  <2>2. /\ proc' = [proc EXCEPT ![p] = q]
        /\ UNCHANGED <<refs, checkpoints>>
    BY <1>4 DEF BeginGet, Begin
  <2>. QED
    BY <2>1, <2>2, CallsStep
<1>5. ASSUME NEW p \in Procs, GetSelect(p) PROVE CallsInv'
  <2>1. UNCHANGED <<refs, checkpoints>>
    BY <1>5 DEF GetSelect
  <2>2. CASE Asked(p) \in DOMAIN evidence
    <3> DEFINE q == [proc[p] EXCEPT !.pc = "get update", !.now = clock,
                                    !.read = evidence[Asked(p)].content]
    <3>1. CallInv(proc[p], refs, checkpoints) /\ proc[p].pc = "get select"
      BY <1>5 DEF CallsInv, GetSelect
    <3>2. CallInv(q, refs', checkpoints')
      BY <2>1, <3>1 DEF CallInv, Inside, TypeOK, ProcState
    <3>3. proc' = [proc EXCEPT ![p] = q]
      BY <1>5, <2>2 DEF GetSelect
    <3>. QED
      BY <2>1, <3>2, <3>3, CallsStep
  <2>3. CASE Asked(p) \notin DOMAIN evidence
    <3>1. Answer(p, proc[p].op, "evidence missing", Asked(p), Nothing)
      BY <1>5, <2>3 DEF GetSelect
    <3>. QED
      BY <2>1, <3>1, AnswerCall
  <2>. QED
    BY <2>2, <2>3
<1>6. ASSUME NEW p \in Procs, GetUpdate(p) PROVE CallsInv'
  <2>1. UNCHANGED <<refs, checkpoints>> /\ AfterGet(p)
    BY <1>6 DEF GetUpdate
  <2>2. CallInv(proc[p], refs, checkpoints) /\ proc[p].pc = "get update"
    BY <1>6 DEF CallsInv, GetUpdate
  <2>3. CASE ~Verified(Asked(p), proc[p].read)
    <3>1. Answer(p, proc[p].op, "corrupt", Asked(p), Nothing)
      BY <2>1, <2>3 DEF AfterGet
    <3>. QED
      BY <2>1, <3>1, AnswerCall
  <2>4. CASE Verified(Asked(p), proc[p].read) /\ proc[p].op = "get"
    <3>1. Answer(p, "get", "ok", Asked(p), proc[p].read)
      BY <2>1, <2>4 DEF AfterGet
    <3>. QED
      BY <2>1, <3>1, AnswerCall
  <2>5. CASE Verified(Asked(p), proc[p].read) /\ proc[p].op = "save"
    <3> DEFINE q == [proc[p] EXCEPT !.pc = "save reference", !.read = Nothing]
    <3>1. CallInv(q, refs', checkpoints')
      BY <2>1, <2>2, <2>5 DEF CallInv, Inside, TypeOK, ProcState
    <3>2. proc' = [proc EXCEPT ![p] = q]
      BY <2>1, <2>5 DEF AfterGet
    <3>. QED
      BY <2>1, <3>1, <3>2, CallsStep
  <2>6. CASE Verified(Asked(p), proc[p].read) /\ proc[p].op = "load"
    <3> DEFINE c == proc[p].checkpoint
               n == proc[p].at + 1
               q == [proc[p] EXCEPT !.pc = Resume("load", c, n), !.at = n, !.read = Nothing]
    <3>1. Inside(proc[p]) /\ c \in checkpoints
      BY <2>2, <2>6 DEF CallInv
    <3>2. proc[p] \in ProcState /\ proc[p].at \in Nat
      BY DEF TypeOK, ProcState
    <3>3. n \in Nat /\ (n < Len(c.evidence) \/ n = Len(c.evidence))
      BY <3>1, <3>2, EvidenceLength, AtMostOneMore DEF Inside
    <3>4. /\ q.op = "load"
          /\ q.checkpoint = c
          /\ q.at = n
          /\ q.pc = Resume("load", c, n)
      BY <2>6, <3>2 DEF ProcState
    <3>5. CallInv(q, refs', checkpoints')
      <4>. HIDE DEF q, n, c
      <4>1. c \in Checkpoints /\ c \in checkpoints'
        BY <2>1, <3>1 DEF Inside, c
      <4>. QED
        BY <3>3, <3>4, <4>1, ResumeCall
    <3>6. proc' = [proc EXCEPT ![p] = q]
      BY <2>1, <2>6 DEF AfterGet
    <3>. QED
      BY <2>1, <3>5, <3>6, CallsStep
  <2>7. proc[p].op \in {"get", "save", "load"}
    BY <2>2 DEF CallInv
  <2>. QED
    BY <2>3, <2>4, <2>5, <2>6, <2>7
<1>7. ASSUME NEW p \in Procs, NEW o \in Owners, NEW d \in Texts, Reference(p, o, d)
      PROVE  CallsInv'
  <2>1. PICK result \in {"ok", "foreign key"} : Answer(p, "reference", result, d, Nothing)
    BY <1>7 DEF Reference
  <2>2. refs \subseteq refs' /\ checkpoints \subseteq checkpoints'
    BY <1>7 DEF Reference
  <2>. QED
    BY <2>1, <2>2, AnswerCall
<1>8. ASSUME NEW p \in Procs, NEW cutoff \in 0 .. clock, Collect(p, cutoff) PROVE CallsInv'
  <2>1. PICK result \in {"ok", "foreign key"} : Answer(p, "collect", result, cutoff, Nothing)
    BY <1>8 DEF Collect
  <2>2. refs \subseteq refs' /\ checkpoints \subseteq checkpoints'
    BY <1>8 DEF Collect
  <2>. QED
    BY <2>1, <2>2, AnswerCall
<1>9. ASSUME NEW p \in Procs, NEW c \in Checkpoints, BeginSave(p, c) PROVE CallsInv'
  <2> DEFINE q == [Idle EXCEPT !.op = "save", !.pc = Resume("save", c, 0), !.checkpoint = c]
  <2>1. /\ q.op = "save"
        /\ q.checkpoint = c
        /\ q.at = 0
        /\ q.pc = Resume("save", c, 0)
    BY DEF Idle
  <2>2. 0 < Len(c.evidence) \/ 0 = Len(c.evidence)
    BY EvidenceLength
  <2>3. CallInv(q, refs', checkpoints')
    <3>. HIDE DEF q
    <3>. QED
      BY <2>1, <2>2, ResumeCall, NothingYet
  <2>4. /\ proc' = [proc EXCEPT ![p] = q]
        /\ UNCHANGED <<refs, checkpoints>>
    BY <1>9 DEF BeginSave, Begin
  <2>. QED
    BY <2>3, <2>4, CallsStep
<1>10. ASSUME NEW p \in Procs, SaveReference(p) PROVE CallsInv'
  <2>1. CASE Acceptable(Asked(p))
    <3> DEFINE c == proc[p].checkpoint
               n == proc[p].at + 1
               q == [proc[p] EXCEPT !.pc = Resume("save", c, n), !.at = n]
    <3>1. CallInv(proc[p], refs, checkpoints) /\ proc[p].pc = "save reference"
      BY <1>10 DEF CallsInv, SaveReference
    <3>2. /\ Inside(proc[p])
          /\ proc[p].op = "save"
          /\ \A i \in 1 .. proc[p].at : <<c.id, c.evidence[i]>> \in refs
      BY <3>1 DEF CallInv
    <3>3. proc[p] \in ProcState /\ proc[p].at \in Nat
      BY DEF TypeOK, ProcState
    <3>4. n \in Nat /\ (n < Len(c.evidence) \/ n = Len(c.evidence))
      BY <3>2, <3>3, EvidenceLength, AtMostOneMore DEF Inside
    <3>5. /\ q.op = "save"
          /\ q.checkpoint = c
          /\ q.at = n
          /\ q.pc = Resume("save", c, n)
      BY <3>2, <3>3 DEF ProcState
    <3>6. refs' = refs \cup {<<c.id, c.evidence[n]>>} /\ UNCHANGED checkpoints
      BY <1>10, <2>1, <3>2 DEF SaveReference, Asked
    <3>7. \A i \in 1 .. n : <<c.id, c.evidence[i]>> \in refs'
      <4>. HIDE DEF c
      <4>1. \A i \in 1 .. proc[p].at : <<c.id, c.evidence[i]>> \in refs'
        BY <3>2, <3>6
      <4>. QED
        BY <3>3, <3>6, <4>1, OneMore
    <3>8. CallInv(q, refs', checkpoints')
      <4>. HIDE DEF q, n, c
      <4>1. c \in Checkpoints
        BY <3>2 DEF Inside, c
      <4>. QED
        BY <3>4, <3>5, <3>7, <4>1, ResumeCall
    <3>9. proc' = [proc EXCEPT ![p] = q]
      BY <1>10, <2>1 DEF SaveReference
    <3>. QED
      BY <3>6, <3>8, <3>9, CallsStep
  <2>2. CASE ~Acceptable(Asked(p))
    <3>1. /\ Answer(p, "save", "foreign key", Asked(p), Nothing)
          /\ UNCHANGED <<refs, checkpoints>>
      BY <1>10, <2>2 DEF SaveReference
    <3>. QED
      BY <3>1, AnswerCall
  <2>. QED
    BY <2>1, <2>2
<1>11. ASSUME NEW p \in Procs, SaveInsert(p) PROVE CallsInv'
  <2>1. PICK result \in {"ok", "duplicate"} :
          Answer(p, "save", result, proc[p].checkpoint.id, Nothing)
    BY <1>11 DEF SaveInsert
  <2>2. refs \subseteq refs' /\ checkpoints \subseteq checkpoints'
    BY <1>11 DEF SaveInsert
  <2>. QED
    BY <2>1, <2>2, AnswerCall
<1>12. ASSUME NEW p \in Procs, NEW id \in Owners, LoadSelect(p, id) PROVE CallsInv'
  <2>1. UNCHANGED <<refs, checkpoints>>
    BY <1>12 DEF LoadSelect
  <2>2. CASE Answer(p, "load", "checkpoint missing", id, Nothing)
    BY <2>1, <2>2, AnswerCall
  <2>3. ASSUME NEW c \in checkpoints,
               proc' = [proc EXCEPT ![p] = [Idle EXCEPT !.op = "load", !.checkpoint = c,
                                                        !.pc = Resume("load", c, 0)]]
        PROVE  CallsInv'
    <3> DEFINE q == [Idle EXCEPT !.op = "load", !.checkpoint = c, !.pc = Resume("load", c, 0)]
    <3>1. c \in Checkpoints
      BY DEF TypeOK, TablesOK
    <3>2. /\ q.op = "load"
          /\ q.checkpoint = c
          /\ q.at = 0
          /\ q.pc = Resume("load", c, 0)
      BY DEF Idle
    <3>3. 0 < Len(c.evidence) \/ 0 = Len(c.evidence)
      BY <3>1, EvidenceLength
    <3>4. CallInv(q, refs', checkpoints')
      <4>. HIDE DEF q
      <4>. QED
        BY <2>1, <3>1, <3>2, <3>3, ResumeCall
    <3>. QED
      BY <2>1, <2>3, <3>4, CallsStep
  <2>. QED
    BY <1>12, <2>2, <2>3 DEF LoadSelect
<1>13. ASSUME NEW p \in Procs, LoadCheck(p) PROVE CallsInv'
  <2>1. PICK result \in {"ok", "stale"} :
          Answer(p, "load", result, proc[p].checkpoint.id, Nothing)
    BY <1>13 DEF LoadCheck
  <2>. QED
    BY <1>13, <2>1, AnswerCall DEF LoadCheck
<1>14. ASSUME NEW p \in Procs, Crash(p) PROVE CallsInv'
  BY <1>14, IdleCall, CallsStep DEF Crash
<1>15. ASSUME UNCHANGED <<refs, checkpoints, proc>> PROVE CallsInv'
  BY <1>15 DEF CallsInv
<1>. QED
  BY <1>1, <1>2, <1>3, <1>4, <1>5, <1>6, <1>7, <1>8, <1>9, <1>10, <1>11, <1>12,
     <1>13, <1>14, <1>15 DEF Next, Tick, MoveHead, Tamper, vars
-----------------------------------------------------------------------------
(* The tables.  Only put and collect change which rows are there: put adds *)
(* one, collect removes rows that nothing refers to.                       *)
LEMMA PutKeepsRows ==
  ASSUME NEW d, NEW now PROVE DOMAIN Put(d, now) = DOMAIN evidence \cup {d}
  BY DEF Put, WithRow

LEMMA CollectKeepsReferenced ==
  ASSUME ForeignKey, NEW p, NEW cutoff, Collect(p, cutoff)
  PROVE  /\ ForeignKey'
         /\ DOMAIN evidence' \subseteq DOMAIN evidence
         /\ (DOMAIN evidence \ DOMAIN evidence') \cap Referenced = {}
<1>1. Referenced' = Referenced
  BY DEF Collect, Referenced
<1>2. CASE UNCHANGED evidence
  BY <1>1, <1>2 DEF ForeignKey
<1>3. CASE evidence' = WithoutRows(Collectable(cutoff))
  <2>1. DOMAIN evidence' = DOMAIN evidence \ Collectable(cutoff)
    BY <1>3 DEF WithoutRows
  <2>2. Collectable(cutoff) \cap Referenced = {}
    BY DEF Collectable
  <2>. QED
    BY <1>1, <2>1, <2>2 DEF ForeignKey
<1>. QED
  BY <1>2, <1>3 DEF Collect

(* Every step keeps the foreign key: a reference is only made to a row     *)
(* that is there at that moment.                                           *)
LEMMA ForeignKeyStep ==
  ASSUME TypeOK, CallsInv, ForeignKey, [Next]_vars
  PROVE  ForeignKey'
<1>1. ASSUME NEW p \in Procs, PutInsert(p) PROVE ForeignKey'
  BY <1>1, PutKeepsRows DEF PutInsert, ForeignKey, Referenced
<1>2. ASSUME NEW p \in Procs, GetUpdate(p) PROVE ForeignKey'
  <2>1. DOMAIN evidence' = DOMAIN evidence /\ UNCHANGED refs
    BY <1>2 DEF GetUpdate, TypeOK, TablesOK
  <2>. QED
    BY <2>1 DEF ForeignKey, Referenced
<1>3. ASSUME NEW p \in Procs, NEW o \in Owners, NEW d \in Texts, Reference(p, o, d)
      PROVE  ForeignKey'
  <2>1. UNCHANGED evidence
    BY <1>3 DEF Reference
  <2>2. \/ UNCHANGED refs
        \/ d \in DOMAIN evidence /\ refs' = refs \cup {<<o, d>>}
    BY <1>3 DEF Reference, Acceptable, ForeignKeysOn
  <2>. QED
    BY <2>1, <2>2 DEF ForeignKey, Referenced
<1>4. ASSUME NEW p \in Procs, NEW cutoff \in 0 .. clock, Collect(p, cutoff) PROVE ForeignKey'
  BY <1>4, CollectKeepsReferenced
<1>5. ASSUME NEW p \in Procs, SaveReference(p) PROVE ForeignKey'
  <2>1. UNCHANGED evidence
    BY <1>5 DEF SaveReference
  <2>2. \/ UNCHANGED refs
        \/ /\ Asked(p) \in DOMAIN evidence
           /\ refs' = refs \cup {<<proc[p].checkpoint.id, Asked(p)>>}
    BY <1>5 DEF SaveReference, Acceptable, ForeignKeysOn
  <2>. QED
    BY <2>1, <2>2 DEF ForeignKey, Referenced
<1>6. ASSUME NEW d \in Texts, NEW raw \in Texts, Tamper(d, raw) PROVE ForeignKey'
  <2>1. DOMAIN evidence' = DOMAIN evidence /\ UNCHANGED refs
    BY <1>6 DEF Tamper, TypeOK, TablesOK
  <2>. QED
    BY <2>1 DEF ForeignKey, Referenced
<1>7. ASSUME UNCHANGED <<evidence, refs>> PROVE ForeignKey'
  BY <1>7 DEF ForeignKey, Referenced
<1>. QED
  BY <1>1, <1>2, <1>3, <1>4, <1>5, <1>6, <1>7 DEF Next, vars, BeginPut, BeginGet, BeginSave,
     Begin, PutSelect, GetSelect, SaveInsert, LoadSelect, LoadCheck, Crash, Tick, MoveHead

(* A checkpoint enters the table when a save has referred to all of its    *)
(* evidence and no other checkpoint has its identifier.                    *)
LEMMA CheckpointStep ==
  ASSUME TypeOK, CallsInv, [Next]_vars
  PROVE  /\ refs \subseteq refs'
         /\ \/ UNCHANGED checkpoints
            \/ \E c \in Checkpoints :
                 /\ checkpoints' = checkpoints \cup {c}
                 /\ \A k \in checkpoints : k.id # c.id
                 /\ \A i \in DOMAIN c.evidence : <<c.id, c.evidence[i]>> \in refs
                 /\ UNCHANGED <<evidence, refs>>
<1>1. ASSUME NEW p \in Procs, SaveInsert(p), ~UNCHANGED checkpoints
      PROVE  \E c \in Checkpoints :
                 /\ checkpoints' = checkpoints \cup {c}
                 /\ \A k \in checkpoints : k.id # c.id
                 /\ \A i \in DOMAIN c.evidence : <<c.id, c.evidence[i]>> \in refs
                 /\ UNCHANGED <<evidence, refs>>
  <2> DEFINE c == proc[p].checkpoint
  <2>1. CallInv(proc[p], refs, checkpoints) /\ proc[p].pc = "save insert"
    BY <1>1 DEF CallsInv, SaveInsert
  <2>2. /\ c \in Checkpoints
        /\ proc[p].at = Len(c.evidence)
        /\ \A i \in 1 .. proc[p].at : <<c.id, c.evidence[i]>> \in refs
    BY <2>1 DEF CallInv
  <2>3. DOMAIN c.evidence = 1 .. Len(c.evidence)
    <3>1. c.evidence \in Seq(Texts)
      BY <2>2, ConstantsAssumption
    <3>. QED
      BY <3>1, LenProperties
  <2>4. /\ ~Taken(c)
        /\ checkpoints' = checkpoints \cup {c}
        /\ UNCHANGED <<evidence, refs>>
    BY <1>1 DEF SaveInsert
  <2>. QED
    BY <2>2, <2>3, <2>4 DEF Taken
<1>2. ASSUME NEW p \in Procs, SaveReference(p)
      PROVE  refs \subseteq refs' /\ UNCHANGED checkpoints
  BY <1>2 DEF SaveReference
<1>3. ASSUME NEW p \in Procs, NEW o \in Owners, NEW d \in Texts, Reference(p, o, d)
      PROVE  refs \subseteq refs' /\ UNCHANGED checkpoints
  BY <1>3 DEF Reference
<1>4. ASSUME NEW p \in Procs, SaveInsert(p) PROVE UNCHANGED refs
  BY <1>4 DEF SaveInsert
<1>. QED
  BY <1>1, <1>2, <1>3, <1>4 DEF Next, vars, BeginPut, BeginGet, BeginSave, Begin, PutSelect,
     PutInsert, GetSelect, GetUpdate, Collect, LoadSelect, LoadCheck, Crash, Tick, MoveHead,
     Tamper

-----------------------------------------------------------------------------
(* A digest in a pair of the table of references is referenced.            *)
LEMMA PairReferenced == \A o, d : <<o, d>> \in refs => d \in Referenced
<1>. TAKE o, d
<1>. HAVE <<o, d>> \in refs
<1>1. <<o, d>>[2] = d
  OBVIOUS
<1>. QED
  BY <1>1 DEF Referenced

(* What calls answer.  Only an answer of p changes outcome[p] to something *)
(* other than "none"; the lemma names the three answers that matter.       *)
OutcomesOK == LoadNeverMissing /\ ReadsAreVerified /\ RetentionNeverRejected

GoodOutcome(o) == /\ o.op = "load" => o.result # "evidence missing"
                  /\ o.op = "get" /\ o.result = "ok" => o.got = o.asked
                  /\ o.op = "collect" => o.result = "ok"

LEMMA OutcomesAreGood == OutcomesOK <=> \A p \in Procs : GoodOutcome(outcome[p])
  BY DEF OutcomesOK, LoadNeverMissing, ReadsAreVerified, RetentionNeverRejected, GoodOutcome

LEMMA AnswerIsGood ==
  ASSUME TypeOK, OutcomesOK, NEW p \in Procs,
         NEW op, NEW result, NEW asked, NEW got,
         Answer(p, op, result, asked, got),
         GoodOutcome([op |-> op, result |-> result, asked |-> asked, got |-> got])
  PROVE  OutcomesOK'
<1>1. outcome' = [outcome EXCEPT ![p] = [op |-> op, result |-> result,
                                         asked |-> asked, got |-> got]]
  BY DEF Answer
<1>2. \A r \in Procs : GoodOutcome(outcome[r])
  BY OutcomesAreGood
<1>3. \A r \in Procs : GoodOutcome(outcome'[r])
  BY <1>1, <1>2 DEF TypeOK
<1>. QED
  BY <1>3 DEF OutcomesOK, LoadNeverMissing, ReadsAreVerified, RetentionNeverRejected,
              GoodOutcome

LEMMA NoOutcomeIsGood ==
  ASSUME TypeOK, OutcomesOK, NEW p \in Procs,
         outcome' = [outcome EXCEPT ![p] = NoOutcome]
  PROVE  OutcomesOK'
<1>1. \A r \in Procs : GoodOutcome(outcome[r])
  BY OutcomesAreGood
<1>2. GoodOutcome(NoOutcome)
  BY DEF GoodOutcome, NoOutcome
<1>3. \A r \in Procs : GoodOutcome(outcome'[r])
  BY <1>1, <1>2 DEF TypeOK
<1>. QED
  BY <1>3 DEF OutcomesOK, LoadNeverMissing, ReadsAreVerified, RetentionNeverRejected,
              GoodOutcome

LEMMA OutcomeStep ==
  ASSUME TypeOK, CallsInv, ForeignKey, Referred, OutcomesOK, [Next]_vars
  PROVE  OutcomesOK'
<1>1. ASSUME NEW p \in Procs, NEW call, Begin(p, call) PROVE OutcomesOK'
  BY <1>1, NoOutcomeIsGood DEF Begin
<1>2. ASSUME NEW p \in Procs, NEW op \in {"put", "save", "reference"}, NEW result,
             NEW asked, NEW got, Answer(p, op, result, asked, got)
      PROVE  OutcomesOK'
  BY <1>2, AnswerIsGood DEF GoodOutcome
<1>3. ASSUME NEW p \in Procs, PutSelect(p) PROVE OutcomesOK'
  <2>1. \/ UNCHANGED outcome
        \/ Answer(p, "put", "collision", proc[p].text, Nothing)
    BY <1>3 DEF PutSelect
  <2>2. ASSUME UNCHANGED outcome PROVE OutcomesOK'
    BY <2>2 DEF OutcomesOK, LoadNeverMissing, ReadsAreVerified, RetentionNeverRejected
  <2>. QED
    BY <1>2, <2>1, <2>2
<1>4. ASSUME NEW p \in Procs, GetSelect(p) PROVE OutcomesOK'
  <2>1. CASE UNCHANGED outcome
    BY <2>1 DEF OutcomesOK, LoadNeverMissing, ReadsAreVerified, RetentionNeverRejected
  <2>2. CASE /\ Asked(p) \notin DOMAIN evidence
             /\ Answer(p, proc[p].op, "evidence missing", Asked(p), Nothing)
    <3>1. CallInv(proc[p], refs, checkpoints) /\ proc[p].pc = "get select"
      BY <1>4 DEF CallsInv, GetSelect
    <3>2. proc[p].op # "load"
      <4> DEFINE c == proc[p].checkpoint
      <4>1. SUFFICES ASSUME proc[p].op = "load" PROVE FALSE
        OBVIOUS
      <4>2. c \in checkpoints /\ Inside(proc[p])
        BY <3>1, <4>1 DEF CallInv
      <4>3. c.evidence \in Seq(Texts) /\ Len(c.evidence) \in Nat /\ proc[p].at \in Nat
        BY <4>2, ConstantsAssumption, EvidenceLength DEF Inside, TypeOK, ProcState
      <4>4. DOMAIN c.evidence = 1 .. Len(c.evidence)
        BY <4>3, LenProperties
      <4>5. proc[p].at + 1 \in DOMAIN c.evidence
        BY <4>2, <4>3, <4>4, NextIndex DEF Inside
      <4>6. c.evidence[proc[p].at + 1] \in Referenced
        BY <4>2, <4>5, PairReferenced DEF Referred
      <4>. QED
        BY <2>2, <4>1, <4>6 DEF ForeignKey, Asked
    <3>3. proc[p].op \in {"get", "save", "load"}
      BY <3>1 DEF CallInv
    <3>. QED
      BY <2>2, <3>2, <3>3, AnswerIsGood DEF GoodOutcome
  <2>. QED
    BY <1>4, <2>1, <2>2 DEF GetSelect
<1>5. ASSUME NEW p \in Procs, GetUpdate(p) PROVE OutcomesOK'
  <2>1. AfterGet(p)
    BY <1>5 DEF GetUpdate
  <2>2. CASE UNCHANGED outcome
    BY <2>2 DEF OutcomesOK, LoadNeverMissing, ReadsAreVerified, RetentionNeverRejected
  <2>3. proc[p].op \in {"get", "save", "load"}
    BY <1>5 DEF GetUpdate, CallsInv, CallInv
  <2>4. CASE Answer(p, proc[p].op, "corrupt", Asked(p), Nothing)
    BY <2>3, <2>4, AnswerIsGood DEF GoodOutcome
  <2>5. CASE /\ Verified(Asked(p), proc[p].read)
             /\ Answer(p, "get", "ok", Asked(p), proc[p].read)
    BY <2>5, AnswerIsGood DEF GoodOutcome, Verified
  <2>. QED
    BY <2>1, <2>2, <2>3, <2>4, <2>5 DEF AfterGet
<1>6. ASSUME NEW p \in Procs, NEW cutoff \in 0 .. clock, Collect(p, cutoff) PROVE OutcomesOK'
  <2>1. Collectable(cutoff) \cap Referenced = {}
    BY DEF Collectable
  <2>2. Answer(p, "collect", "ok", cutoff, Nothing)
    BY <1>6, <2>1 DEF Collect
  <2>. QED
    BY <2>2, AnswerIsGood DEF GoodOutcome
<1>7. ASSUME NEW p \in Procs, SaveReference(p) PROVE OutcomesOK'
  <2>1. CASE UNCHANGED outcome
    BY <2>1 DEF OutcomesOK, LoadNeverMissing, ReadsAreVerified, RetentionNeverRejected
  <2>. QED
    BY <1>2, <1>7, <2>1 DEF SaveReference
<1>8. ASSUME NEW p \in Procs, NEW id \in Owners, LoadSelect(p, id) PROVE OutcomesOK'
  <2>1. CASE Answer(p, "load", "checkpoint missing", id, Nothing)
    BY <2>1, AnswerIsGood DEF GoodOutcome
  <2>2. CASE outcome' = [outcome EXCEPT ![p] = NoOutcome]
    BY <2>2, NoOutcomeIsGood
  <2>. QED
    BY <1>8, <2>1, <2>2 DEF LoadSelect
<1>9. ASSUME NEW p \in Procs, LoadCheck(p) PROVE OutcomesOK'
  <2>1. PICK result \in {"ok", "stale"} :
          Answer(p, "load", result, proc[p].checkpoint.id, Nothing)
    BY <1>9 DEF LoadCheck
  <2>. QED
    BY <2>1, AnswerIsGood DEF GoodOutcome
<1>10. ASSUME UNCHANGED outcome PROVE OutcomesOK'
  BY <1>10 DEF OutcomesOK, LoadNeverMissing, ReadsAreVerified, RetentionNeverRejected
<1>. QED
  BY <1>1, <1>2, <1>3, <1>4, <1>5, <1>6, <1>7, <1>8, <1>9, <1>10 DEF Next, vars, BeginPut,
     BeginGet, BeginSave, PutInsert, Reference, SaveInsert, Crash, Tick, MoveHead, Tamper

-----------------------------------------------------------------------------
LEMMA ReferredStep ==
  ASSUME TypeOK, CallsInv, Referred, CheckpointIdsUnique, [Next]_vars
  PROVE  Referred' /\ CheckpointIdsUnique'
<1>1. CASE UNCHANGED checkpoints
  BY <1>1, CheckpointStep DEF Referred, CheckpointIdsUnique
<1>2. CASE ~UNCHANGED checkpoints
  <2>1. PICK c \in Checkpoints :
          /\ checkpoints' = checkpoints \cup {c}
          /\ \A k \in checkpoints : k.id # c.id
          /\ \A i \in DOMAIN c.evidence : <<c.id, c.evidence[i]>> \in refs
          /\ UNCHANGED <<evidence, refs>>
    BY <1>2, CheckpointStep
  <2>. QED
    BY <2>1 DEF Referred, CheckpointIdsUnique
<1>. QED
  BY <1>1, <1>2

(* The invariant of the store: every reachable state satisfies IInv.       *)
THEOREM StoreInvariant == Spec => []IInv
<1>1. IInv /\ [Next]_vars => IInv'
  <2>. SUFFICES ASSUME IInv, [Next]_vars PROVE IInv'
    OBVIOUS
  <2>. USE DEF IInv
  <2>1. TypeOK' /\ CallsInv'
    BY TypeStep, CallsInvStep
  <2>2. ForeignKey'
    BY ForeignKeyStep
  <2>3. Referred' /\ CheckpointIdsUnique'
    BY ReferredStep
  <2>4. OutcomesOK'
    BY OutcomeStep DEF OutcomesOK
  <2>. QED
    BY <2>1, <2>2, <2>3, <2>4 DEF OutcomesOK
<1>. QED
  BY <1>1, InitInvariant, PTL DEF Spec

(* Types: what is stored has always gone through redaction.                *)
THEOREM TypeCorrect == Spec => []TypeOK
<1>1. IInv => TypeOK
  BY DEF IInv
<1>. QED
  BY <1>1, StoreInvariant, PTL

(* Evidence a saved checkpoint names is referenced and stored, however     *)
(* sweeps, saves, crashes and changes from outside are interleaved.        *)
THEOREM EvidenceRetained == Spec => []CheckpointEvidenceRetained
<1>1. IInv => CheckpointEvidenceRetained
  BY PairReferenced DEF IInv, Referred, ForeignKey, CheckpointEvidenceRetained
<1>. QED
  BY <1>1, StoreInvariant, PTL

(* A checkpoint whose row was found can be loaded to the end, unless a row *)
(* of its evidence was changed from outside or the revision is stale.      *)
THEOREM LoadsFindEvidence == Spec => []LoadNeverMissing
<1>1. IInv => LoadNeverMissing
  BY DEF IInv
<1>. QED
  BY <1>1, StoreInvariant, PTL

(* What get returns is the text that was asked for, though rows are        *)
(* changed from outside at any time.                                       *)
THEOREM ReadsVerified == Spec => []ReadsAreVerified
<1>1. IInv => ReadsAreVerified
  BY DEF IInv
<1>. QED
  BY <1>1, StoreInvariant, PTL

-----------------------------------------------------------------------------
(* The other side of the refinement: steps that change no table stutter,   *)
(* and each statement that changes one is a step of Retention.             *)
LEMMA ReferencedGrows ==
  ASSUME NEW o, NEW d, refs' = refs \cup {<<o, d>>}
  PROVE  Referenced' = Referenced \cup {d}
<1>1. <<o, d>>[2] = d
  OBVIOUS
<1>. QED
  BY <1>1 DEF Referenced

LEMMA Stutter ==
  ASSUME DOMAIN evidence' = DOMAIN evidence, UNCHANGED <<refs, checkpoints>>
  PROVE  UNCHANGED Promise!vars
<1>1. Referenced' = Referenced
  BY DEF Referenced
<1>. QED
  BY <1>1 DEF Promise!vars

LEMMA RefinementStep ==
  ASSUME IInv, [Next]_vars
  PROVE  [Promise!Next]_(Promise!vars)
<1>. USE DEF IInv
<1>1. ASSUME NEW p \in Procs, PutInsert(p) PROVE Promise!Next
  <2>1. proc[p].text \in Texts
    BY <1>1 DEF PutInsert, CallsInv, CallInv
  <2>2. DOMAIN evidence' = DOMAIN evidence \cup {proc[p].text}
    BY <1>1, PutKeepsRows DEF PutInsert
  <2>3. Referenced' = Referenced /\ UNCHANGED checkpoints
    BY <1>1 DEF PutInsert, Referenced
  <2>4. Promise!Store(proc[p].text)
    BY <2>2, <2>3 DEF Promise!Store
  <2>. QED
    BY <2>1, <2>4 DEF Promise!Next
<1>2. ASSUME NEW p \in Procs, GetUpdate(p) PROVE UNCHANGED Promise!vars
  <2>1. DOMAIN evidence' = DOMAIN evidence /\ UNCHANGED <<refs, checkpoints>>
    BY <1>2 DEF GetUpdate, TypeOK, TablesOK
  <2>. QED
    BY <2>1, Stutter
<1>3. ASSUME NEW o, NEW d \in Texts, d \in DOMAIN evidence, refs' = refs \cup {<<o, d>>},
             UNCHANGED <<evidence, checkpoints>>
      PROVE  Promise!Next
  <2>1. Promise!Pin(d)
    BY <1>3, ReferencedGrows DEF Promise!Pin
  <2>. QED
    BY <2>1 DEF Promise!Next
<1>4. ASSUME NEW p \in Procs, NEW o \in Owners, NEW d \in Texts, Reference(p, o, d)
      PROVE  [Promise!Next]_(Promise!vars)
  <2>1. UNCHANGED <<evidence, checkpoints>>
    BY <1>4 DEF Reference
  <2>2. \/ UNCHANGED refs
        \/ d \in DOMAIN evidence /\ refs' = refs \cup {<<o, d>>}
    BY <1>4 DEF Reference, Acceptable, ForeignKeysOn
  <2>. QED
    BY <1>3, <2>1, <2>2, Stutter
<1>5. ASSUME NEW p \in Procs, SaveReference(p) PROVE [Promise!Next]_(Promise!vars)
  <2>1. UNCHANGED <<evidence, checkpoints>>
    BY <1>5 DEF SaveReference
  <2>2. \/ UNCHANGED refs
        \/ /\ Asked(p) \in DOMAIN evidence
           /\ refs' = refs \cup {<<proc[p].checkpoint.id, Asked(p)>>}
    BY <1>5 DEF SaveReference, Acceptable, ForeignKeysOn
  <2>3. Asked(p) \in Texts
    BY <1>5, AskedIsText DEF SaveReference
  <2>. QED
    BY <1>3, <2>1, <2>2, <2>3, Stutter
<1>6. ASSUME NEW p \in Procs, NEW cutoff \in 0 .. clock, Collect(p, cutoff) PROVE Promise!Next
  <2> DEFINE garbage == DOMAIN evidence \ DOMAIN evidence'
  <2>1. /\ DOMAIN evidence' \subseteq DOMAIN evidence
        /\ garbage \cap Referenced = {}
    BY <1>6, CollectKeepsReferenced
  <2>2. Referenced' = Referenced /\ UNCHANGED checkpoints
    BY <1>6 DEF Collect, Referenced
  <2>3. Promise!Sweep(garbage)
    BY <2>1, <2>2 DEF Promise!Sweep
  <2>4. garbage \in SUBSET Texts
    BY DEF TypeOK, TablesOK
  <2>. QED
    BY <2>3, <2>4 DEF Promise!Next
<1>7. ASSUME NEW p \in Procs, SaveInsert(p) PROVE [Promise!Next]_(Promise!vars)
  <2>1. CASE UNCHANGED checkpoints
    BY <1>7, <2>1, Stutter DEF SaveInsert
  <2>2. CASE ~UNCHANGED checkpoints
    <3>1. PICK c \in Checkpoints :
            /\ checkpoints' = checkpoints \cup {c}
            /\ \A k \in checkpoints : k.id # c.id
            /\ \A i \in DOMAIN c.evidence : <<c.id, c.evidence[i]>> \in refs
            /\ UNCHANGED <<evidence, refs>>
      BY <1>7, <2>2, CheckpointStep
    <3>2. Promise!Evidence(c) \subseteq Referenced
      BY <3>1, PairReferenced DEF Promise!Evidence
    <3>3. Referenced' = Referenced
      BY <3>1 DEF Referenced
    <3>4. Promise!Publish(c)
      BY <3>1, <3>2, <3>3 DEF Promise!Publish
    <3>. QED
      BY <3>4 DEF Promise!Next
  <2>. QED
    BY <2>1, <2>2
<1>8. ASSUME NEW d \in Texts, NEW raw \in Texts, Tamper(d, raw) PROVE UNCHANGED Promise!vars
  <2>1. DOMAIN evidence' = DOMAIN evidence /\ UNCHANGED <<refs, checkpoints>>
    BY <1>8 DEF Tamper, TypeOK, TablesOK
  <2>. QED
    BY <2>1, Stutter
<1>9. ASSUME UNCHANGED <<evidence, refs, checkpoints>> PROVE UNCHANGED Promise!vars
  BY <1>9, Stutter
<1>. QED
  BY <1>1, <1>2, <1>4, <1>5, <1>6, <1>7, <1>8, <1>9 DEF Next, vars, BeginPut, BeginGet,
     BeginSave, Begin, PutSelect, GetSelect, LoadSelect, LoadCheck, Crash, Tick, MoveHead

(* The store keeps the promise of Retention: evidence goes only when it is *)
(* not pinned, and a checkpoint appears once, with its evidence pinned.    *)
THEOREM StoreImplementsRetention == Spec => ImplementsRetention
<1>1. Init => Promise!Init
  BY DEF Init, Promise!Init, Referenced
<1>2. IInv /\ [Next]_vars => [Promise!Next]_(Promise!vars)
  BY RefinementStep
<1>. QED
  BY <1>1, <1>2, StoreInvariant, PTL DEF Spec, ImplementsRetention, Promise!Spec
=============================================================================
