--------------------------- MODULE EvidenceStore ---------------------------
(***************************************************************************)
(* EvidenceStore (store/evidence.py) and CheckpointStore                   *)
(* (core/checkpoint.py) over one SQLite file (store/database.py).          *)
(*                                                                         *)
(* Several processes (CLI commands, the proxy, managed runs) use the file  *)
(* at once.  Every method opens a connection of its own; a SELECT runs in  *)
(* autocommit mode and an INSERT, UPDATE or DELETE is committed when the   *)
(* "with" block ends, so each action below is one database statement and   *)
(* the program is interleaved between any two of them.                     *)
(*                                                                         *)
(* A persisted text stands for its SHA-256 digest: digests are taken to be *)
(* free of collisions, so a stored row whose content is not its key has    *)
(* been changed from outside (Tamper).                                     *)
(***************************************************************************)
EXTENDS Integers, Sequences, FiniteSets

CONSTANTS Procs,        \* processes sharing the state directory
          Contents,     \* what callers pass to put
          Texts,        \* what may be persisted: contents after redaction
          Persisted,    \* redact_for_persistence, or the placeholder text
          Owners,       \* owners of references, the checkpoint ids among them
          Revisions,    \* what repository_revision returns, None included
          Checkpoints,  \* the Checkpoint objects callers pass to save
          Nothing,      \* Python's None, and fields not in use
          MaxClock      \* bound: time.time() stops at this second

ASSUME ConstantsAssumption ==
  /\ Persisted \in [Contents -> Texts]
  /\ Checkpoints \subseteq [id : Owners, evidence : Seq(Texts), revision : Revisions]
  /\ MaxClock \in Nat

VARIABLES evidence,     \* table evidence: digest -> [content, last_accessed]
          refs,         \* table evidence_refs: pairs <<owner, digest>>
          checkpoints,  \* table checkpoints
          clock,        \* time.time() in seconds
          head,         \* HEAD of the user's repository
          proc,         \* what each process is executing, and where
          outcome       \* how the call of each process that has just ended, ended

vars == <<evidence, refs, checkpoints, clock, head, proc, outcome>>

Idle == [op |-> "none", pc |-> "idle", text |-> Nothing, read |-> Nothing,
         checkpoint |-> Nothing, at |-> 0, now |-> 0]

NoOutcome == [op |-> "none", result |-> "none", asked |-> Nothing, got |-> Nothing]

Init == /\ evidence = [d \in {} |-> Nothing]
        /\ refs = {}
        /\ checkpoints = {}
        /\ clock = 0
        /\ head \in Revisions
        /\ proc = [p \in Procs |-> Idle]
        /\ outcome = [p \in Procs |-> NoOutcome]

-----------------------------------------------------------------------------
(* Rows.  Foreign keys are enforced because every connection asks for it.  *)
(* A definition marked "slip" is a mistake the properties have to catch;   *)
(* the definition after it is the code.                                    *)

ForeignKeysOff == FALSE   \* slip: SQLite's default
ForeignKeysOn == TRUE

Referenced == {r[2] : r \in refs}

WithRow(d, row) == [x \in DOMAIN evidence \cup {d} |-> IF x = d THEN row ELSE evidence[x]]

WithoutRows(gone) == [x \in DOMAIN evidence \ gone |-> evidence[x]]

(* digest_bytes(raw) = digest *)
AlwaysVerified(digest, raw) == TRUE   \* slip: what was read is taken on trust
Verified(digest, raw) == raw = digest

(* The rows a sweep deletes: last accessed before the cutoff, and named by *)
(* no reference.                                                           *)
Collectable(cutoff) ==
  {d \in DOMAIN evidence : evidence[d].last < cutoff /\ d \notin Referenced}

(* put inserts a new row with now as last_accessed; INSERT OR IGNORE       *)
(* leaves a row that is there already as it is.                            *)
Put(d, now) == IF d \in DOMAIN evidence THEN evidence
               ELSE WithRow(d, [content |-> d, last |-> now])

(* A call of p returns or raises.                                          *)
Answer(p, op, result, asked, got) ==
  /\ proc' = [proc EXCEPT ![p] = Idle]
  /\ outcome' = [outcome EXCEPT ![p] = [op |-> op, result |-> result,
                                        asked |-> asked, got |-> got]]

Begin(p, call) == /\ proc[p].pc = "idle"
                  /\ proc' = [proc EXCEPT ![p] = call]
                  /\ outcome' = [outcome EXCEPT ![p] = NoOutcome]
                  /\ UNCHANGED <<evidence, refs, checkpoints, clock, head>>

-----------------------------------------------------------------------------
(* EvidenceStore.put: the text is redacted and the time is taken before    *)
(* the connection is opened.                                               *)

RawText(c) == c   \* slip: the content is stored as it came
PersistedText(c) == Persisted[c]

BeginPut(p, c) ==
  Begin(p, [Idle EXCEPT !.op = "put", !.pc = "put select",
                        !.text = PersistedText(c), !.now = clock])

PutSelect(p) ==
  /\ proc[p].pc = "put select"
  /\ LET d == proc[p].text IN
       IF d \in DOMAIN evidence /\ ~Verified(d, evidence[d].content)
       THEN Answer(p, "put", "collision", d, Nothing)
       ELSE /\ proc' = [proc EXCEPT ![p].pc = "put insert"]
            /\ UNCHANGED outcome
  /\ UNCHANGED <<evidence, refs, checkpoints, clock, head>>

PutInsert(p) ==
  /\ proc[p].pc = "put insert"
  /\ evidence' = Put(proc[p].text, proc[p].now)
  /\ Answer(p, "put", "ok", proc[p].text, Nothing)
  /\ UNCHANGED <<refs, checkpoints, clock, head>>

-----------------------------------------------------------------------------
(* EvidenceStore.get, called on its own, by save or by load.  Two          *)
(* statements: the row is read, then its last_accessed is set to the time  *)
(* taken in between; an UPDATE that finds the row gone changes nothing.    *)
(* The digest is verified after the UPDATE is committed.                   *)

Asked(p) == IF proc[p].op = "get" THEN proc[p].text
            ELSE proc[p].checkpoint.evidence[proc[p].at + 1]

(* Where save and load go on once the first n pieces of evidence are done. *)
ResumeOneShort(op, c, n) == IF n + 1 < Len(c.evidence) THEN "get select"   \* slip
                            ELSE IF op = "save" THEN "save insert" ELSE "load check"
Resume(op, c, n) == IF n < Len(c.evidence) THEN "get select"
                    ELSE IF op = "save" THEN "save insert" ELSE "load check"

BeginGet(p, d) == Begin(p, [Idle EXCEPT !.op = "get", !.pc = "get select", !.text = d])

GetSelect(p) ==
  /\ proc[p].pc = "get select"
  /\ IF Asked(p) \in DOMAIN evidence
     THEN /\ proc' = [proc EXCEPT ![p].pc = "get update", ![p].now = clock,
                                  ![p].read = evidence[Asked(p)].content]
          /\ UNCHANGED outcome
     ELSE Answer(p, proc[p].op, "evidence missing", Asked(p), Nothing)
  /\ UNCHANGED <<evidence, refs, checkpoints, clock, head>>

AfterGetUnpinned(p) ==   \* slip: save reads its evidence and forgets to refer to it
  IF proc[p].op = "get" THEN Answer(p, "get", "ok", Asked(p), proc[p].read)
  ELSE /\ proc' = [proc EXCEPT
            ![p].pc = Resume(proc[p].op, proc[p].checkpoint, proc[p].at + 1),
            ![p].at = proc[p].at + 1, ![p].read = Nothing]
       /\ UNCHANGED outcome
AfterGet(p) ==
  CASE ~Verified(Asked(p), proc[p].read) ->
         Answer(p, proc[p].op, "corrupt", Asked(p), Nothing)
    [] Verified(Asked(p), proc[p].read) /\ proc[p].op = "get" ->
         Answer(p, "get", "ok", Asked(p), proc[p].read)
    [] Verified(Asked(p), proc[p].read) /\ proc[p].op = "save" ->
         /\ proc' = [proc EXCEPT ![p].pc = "save reference", ![p].read = Nothing]
         /\ UNCHANGED outcome
    [] Verified(Asked(p), proc[p].read) /\ proc[p].op = "load" ->
         /\ proc' = [proc EXCEPT
              ![p].pc = Resume("load", proc[p].checkpoint, proc[p].at + 1),
              ![p].at = proc[p].at + 1, ![p].read = Nothing]
         /\ UNCHANGED outcome

GetUpdate(p) ==
  /\ proc[p].pc = "get update"
  /\ \E now \in proc[p].now .. clock :
       evidence' = IF Asked(p) \in DOMAIN evidence
                   THEN [evidence EXCEPT ![Asked(p)].last = now]
                   ELSE evidence
  /\ AfterGet(p)
  /\ UNCHANGED <<refs, checkpoints, clock, head>>

-----------------------------------------------------------------------------
(* EvidenceStore.reference: INSERT OR IGNORE does not cover the foreign    *)
(* key, so a digest that is not stored raises.                             *)

Acceptable(d) == ForeignKeysOn => d \in DOMAIN evidence

Reference(p, owner, d) ==
  /\ proc[p].pc = "idle"
  /\ IF Acceptable(d)
     THEN /\ refs' = refs \cup {<<owner, d>>}
          /\ Answer(p, "reference", "ok", d, Nothing)
     ELSE /\ Answer(p, "reference", "foreign key", d, Nothing)
          /\ UNCHANGED refs
  /\ UNCHANGED <<evidence, checkpoints, clock, head>>

(* EvidenceStore.collect: one DELETE, rolled back as a whole if it would   *)
(* leave a reference to a deleted row.                                     *)
Collect(p, cutoff) ==
  /\ proc[p].pc = "idle"
  /\ IF ForeignKeysOn /\ Collectable(cutoff) \cap Referenced # {}
     THEN /\ Answer(p, "collect", "foreign key", cutoff, Nothing)
          /\ UNCHANGED evidence
     ELSE /\ evidence' = WithoutRows(Collectable(cutoff))
          /\ Answer(p, "collect", "ok", cutoff, Nothing)
  /\ UNCHANGED <<refs, checkpoints, clock, head>>

-----------------------------------------------------------------------------
(* CheckpointStore.save: for each digest in order get and reference, then  *)
(* one INSERT of the checkpoint.  A save that fails keeps the references   *)
(* it has made.                                                            *)

BeginSave(p, c) ==
  Begin(p, [Idle EXCEPT !.op = "save", !.pc = Resume("save", c, 0), !.checkpoint = c])

SaveReference(p) ==
  /\ proc[p].pc = "save reference"
  /\ LET c == proc[p].checkpoint IN
       IF Acceptable(Asked(p))
       THEN /\ refs' = refs \cup {<<c.id, Asked(p)>>}
            /\ proc' = [proc EXCEPT ![p].pc = Resume("save", c, proc[p].at + 1),
                                    ![p].at = proc[p].at + 1]
            /\ UNCHANGED outcome
       ELSE /\ Answer(p, "save", "foreign key", Asked(p), Nothing)
            /\ UNCHANGED refs
  /\ UNCHANGED <<evidence, checkpoints, clock, head>>

Taken(c) == \E k \in checkpoints : k.id = c.id

SaveInsert(p) ==
  /\ proc[p].pc = "save insert"
  /\ LET c == proc[p].checkpoint IN
       IF Taken(c)
       THEN /\ Answer(p, "save", "duplicate", c.id, Nothing)
            /\ UNCHANGED checkpoints
       ELSE /\ checkpoints' = checkpoints \cup {c}
            /\ Answer(p, "save", "ok", c.id, Nothing)
  /\ UNCHANGED <<evidence, refs, clock, head>>

-----------------------------------------------------------------------------
(* CheckpointStore.load: the row is read, each piece of its evidence is    *)
(* read through get, then the revision of the repository is compared when  *)
(* the caller names one.                                                   *)

LoadSelect(p, id) ==
  /\ proc[p].pc = "idle"
  /\ \/ /\ \A c \in checkpoints : c.id # id
        /\ Answer(p, "load", "checkpoint missing", id, Nothing)
     \/ \E c \in checkpoints :
          /\ c.id = id
          /\ proc' = [proc EXCEPT ![p] = [Idle EXCEPT !.op = "load", !.checkpoint = c,
                                                      !.pc = Resume("load", c, 0)]]
          /\ outcome' = [outcome EXCEPT ![p] = NoOutcome]
  /\ UNCHANGED <<evidence, refs, checkpoints, clock, head>>

LoadCheck(p) ==
  /\ proc[p].pc = "load check"
  /\ LET c == proc[p].checkpoint IN
       \E withRepo \in BOOLEAN :
         IF withRepo /\ c.revision # head
         THEN Answer(p, "load", "stale", c.id, Nothing)
         ELSE Answer(p, "load", "ok", c.id, Nothing)
  /\ UNCHANGED <<evidence, refs, checkpoints, clock, head>>

-----------------------------------------------------------------------------
(* The world: time passes, the user commits, a process dies between two    *)
(* statements (an open transaction is rolled back), a row is changed by    *)
(* something other than this program.                                      *)

Tick == /\ clock < MaxClock
        /\ clock' = clock + 1
        /\ UNCHANGED <<evidence, refs, checkpoints, head, proc, outcome>>

MoveHead == /\ \E r \in Revisions \ {head} : head' = r
            /\ UNCHANGED <<evidence, refs, checkpoints, clock, proc, outcome>>

Crash(p) == /\ proc[p].pc # "idle"
            /\ proc' = [proc EXCEPT ![p] = Idle]
            /\ UNCHANGED <<evidence, refs, checkpoints, clock, head, outcome>>

Tamper(d, raw) == /\ d \in DOMAIN evidence
                  /\ evidence' = [evidence EXCEPT ![d].content = raw]
                  /\ UNCHANGED <<refs, checkpoints, clock, head, proc, outcome>>

Next ==
  \/ \E p \in Procs :
       \/ \E c \in Contents : BeginPut(p, c)
       \/ PutSelect(p)
       \/ PutInsert(p)
       \/ \E d \in Texts : BeginGet(p, d)
       \/ GetSelect(p)
       \/ GetUpdate(p)
       \/ \E o \in Owners, d \in Texts : Reference(p, o, d)
       \/ \E cutoff \in 0 .. clock : Collect(p, cutoff)
       \/ \E c \in Checkpoints : BeginSave(p, c)
       \/ SaveReference(p)
       \/ SaveInsert(p)
       \/ \E id \in Owners : LoadSelect(p, id)
       \/ LoadCheck(p)
       \/ Crash(p)
  \/ Tick
  \/ MoveHead
  \/ \E d, raw \in Texts : Tamper(d, raw)

Spec == Init /\ [][Next]_vars

-----------------------------------------------------------------------------
Row == [content : Texts, last : 0 .. MaxClock]

Steps == {"idle", "put select", "put insert", "get select", "get update",
          "save reference", "save insert", "load check"}

ProcState == [op : {"none", "put", "get", "save", "load"}, pc : Steps,
              text : Texts \cup {Nothing}, read : Texts \cup {Nothing},
              checkpoint : Checkpoints \cup {Nothing}, at : Nat, now : 0 .. MaxClock]

Outcome == [op : {"none", "put", "get", "reference", "collect", "save", "load"},
            result : {"none", "ok", "collision", "evidence missing", "corrupt", "foreign key",
                      "duplicate", "checkpoint missing", "stale"},
            asked : Texts \cup Owners \cup (0 .. MaxClock) \cup {Nothing},
            got : Texts \cup {Nothing}]

TablesOK == /\ DOMAIN evidence \subseteq Texts
            /\ evidence \in [DOMAIN evidence -> Row]
            /\ refs \subseteq Owners \X Texts
            /\ checkpoints \subseteq Checkpoints
            /\ clock \in 0 .. MaxClock
            /\ head \in Revisions

(* The types.  What is on disk is always a text that went through          *)
(* redaction: no content reaches the table as the caller passed it.        *)
TypeOK == /\ TablesOK
          /\ proc \in [Procs -> ProcState]
          /\ outcome \in [Procs -> Outcome]

(* Every reference names a stored row, though rows are swept while other   *)
(* processes are between the read of a row and their reference to it.      *)
ForeignKey == Referenced \subseteq DOMAIN evidence

(* The evidence of a saved checkpoint is referenced in its name and still  *)
(* stored, whatever was collected during and after the save.               *)
CheckpointEvidenceRetained ==
  \A c \in checkpoints : \A i \in DOMAIN c.evidence :
    /\ <<c.id, c.evidence[i]>> \in refs
    /\ c.evidence[i] \in DOMAIN evidence

(* A checkpoint that could be found can be loaded: a load that has read    *)
(* its row never stops at a piece of evidence that is gone.                *)
LoadNeverMissing ==
  \A p \in Procs : outcome[p].op = "load" => outcome[p].result # "evidence missing"

(* What get returns has the digest that was asked for, even when rows are  *)
(* changed behind the store's back.                                        *)
ReadsAreVerified ==
  \A p \in Procs : outcome[p].op = "get" /\ outcome[p].result = "ok"
                     => outcome[p].got = outcome[p].asked

(* A sweep is never turned down by the foreign key: the rows it picks and  *)
(* the rows that are referenced are decided in one statement.              *)
RetentionNeverRejected ==
  \A p \in Procs : outcome[p].op = "collect" => outcome[p].result = "ok"

(* One checkpoint per identifier, also when two processes save under the   *)
(* same identifier or a save is retried after a crash.                     *)
CheckpointIdsUnique ==
  \A c, k \in checkpoints : c.id = k.id => c = k

(* The store implements the promise of module Retention.                   *)
Promise == INSTANCE Retention WITH available <- DOMAIN evidence,
                                   pinned <- Referenced, saved <- checkpoints
ImplementsRetention == Promise!Spec
=============================================================================
