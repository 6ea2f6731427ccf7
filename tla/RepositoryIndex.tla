---------------------------- MODULE RepositoryIndex ----------------------------
(***************************************************************************)
(* RepositoryIndex.build (index/repository.py) over a git worktree that    *)
(* developers change meanwhile, with its table of records keyed by path    *)
(* and blob, and RepositoryContext (mcp/server.py), which serves files on  *)
(* the strength of the records of one build.                               *)
(*                                                                         *)
(* Any number of processes build at the same time, with several versions   *)
(* of the parser.  The files are regular ones that _safe lets through.  A  *)
(* blob is identified with its content.  Of a record, what depends on      *)
(* content alone (digest, size, imports, symbols) is the content itself    *)
(* and the version of the parser.                                          *)
(***************************************************************************)
EXTENDS Integers, FiniteSets

CONSTANTS Builders,    \* processes that run build
          Paths,       \* paths of files
          Contents,    \* contents of files
          Text,        \* what read_text makes of a content: line ends are
                       \* translated, what is no UTF-8 is replaced
          Versions,    \* versions of the parser
          Nothing      \* Python's None, and the content of a file that is not there

ASSUME IndexAssumption ==
  /\ Nothing \notin Contents \cup Paths
  /\ Text \in [Contents -> Contents]
  /\ Versions # {}

VARIABLES work, staged, head,   \* the worktree, the index of git and its HEAD
          rows,                 \* table repository_index
          phase,                \* where each builder is
          version,              \* its PARSER_VERSION
          listed,               \* the set paths of build
          dirty,                \* the paths that git status names
          oids,                 \* blob_oids
          todo,                 \* the paths still to be looked at, removed or stored again
          at,                   \* the path being looked at
          raw,                  \* what has been read of it
          records,              \* the records so far
          snapshot,             \* records of the server
          moved,                \* history: the files changed since the paths were listed
          since,                \* history: the same, of the build that the server made
          disturbed             \* history: the files into which something was written while
                                \* git knew them, or while a build went on

tree == <<work, staged, head>>
building == <<phase, version, listed, dirty, oids, todo, at, raw, records>>
history == <<moved, since, disturbed>>
vars == <<tree, rows, building, snapshot, history>>

Files == [Paths -> Contents \cup {Nothing}]
Record == [content : Contents, parser : Versions]
Row == [blob : Contents \cup {Nothing}, content : Contents, parser : Versions]

Init ==
  /\ head \in Files /\ staged = head /\ work = head
  /\ rows = <<>>
  /\ phase = [b \in Builders |-> "idle"]
  /\ version = [b \in Builders |-> CHOOSE v \in Versions : TRUE]
  /\ listed = [b \in Builders |-> {}]
  /\ dirty = [b \in Builders |-> {}]
  /\ oids = [b \in Builders |-> [p \in Paths |-> Nothing]]
  /\ todo = [b \in Builders |-> {}]
  /\ at = [b \in Builders |-> Nothing]
  /\ raw = [b \in Builders |-> Nothing]
  /\ records = [b \in Builders |-> <<>>]
  /\ snapshot = <<>>
  /\ moved = [b \in Builders |-> {}]
  /\ since = {}
  /\ disturbed = {}

-----------------------------------------------------------------------------
(* The developers.  Nothing keeps them from changing a file, or from       *)
(* taking it away, while builds go on.                                     *)

Resting == {"idle", "done"}

Building == \E b \in Builders : phase[b] \notin Resting

Untracked(p) == staged[p] = Nothing /\ head[p] = Nothing

Changes(p, c, disturbs) ==
  /\ work[p] # c
  /\ work' = [work EXCEPT ![p] = c]
  /\ moved' = [b \in Builders |-> IF phase[b] = "idle" THEN {} ELSE moved[b] \cup {p}]
  /\ since' = since \cup {p}
  /\ disturbed' = IF c # Nothing /\ disturbs THEN disturbed \cup {p} ELSE disturbed
  /\ UNCHANGED <<rows, building, snapshot>>

(* A file is written or deleted.                                           *)
Write(p, c) ==
  /\ Changes(p, c, Building \/ ~Untracked(p))
  /\ UNCHANGED <<staged, head>>

(* Another commit is checked out, in which the file is another one.        *)
Checkout(p, c) ==
  /\ head[p] = staged[p] /\ staged[p] = work[p]
  /\ Changes(p, c, Building)
  /\ head' = [head EXCEPT ![p] = c]
  /\ staged' = [staged EXCEPT ![p] = c]

Stage(p) ==
  /\ staged' = [staged EXCEPT ![p] = work[p]]
  /\ UNCHANGED <<work, head, rows, building, snapshot, history>>

Commit ==
  /\ head' = staged
  /\ UNCHANGED <<work, staged, rows, building, snapshot, history>>

Developer ==
  \/ \E p \in Paths, c \in Contents \cup {Nothing} : Write(p, c) \/ Checkout(p, c)
  \/ \E p \in Paths : Stage(p)
  \/ Commit

-----------------------------------------------------------------------------
(* build.  git ls-files, git status and git ls-files -s are three calls.   *)
(* A definition marked "slip" is a mistake the properties have to catch;   *)
(* the definition after it is the code.                                    *)

Goto(b, where) == phase' = [phase EXCEPT ![b] = where]

(* What git has told a build is gone with it.                              *)
Forget(b) ==
  /\ dirty' = [dirty EXCEPT ![b] = {}]
  /\ oids' = [oids EXCEPT ![b] = [p \in Paths |-> Nothing]]

Tracked == {p \in Paths : staged[p] # Nothing}
Others == {p \in Paths : staged[p] = Nothing /\ work[p] # Nothing}

ListPaths(b) ==
  /\ phase[b] \in Resting
  /\ \E v \in Versions : version' = [version EXCEPT ![b] = v]
  /\ \E paths \in {Tracked, Tracked \cup Others} :
       /\ listed' = [listed EXCEPT ![b] = paths]
       /\ todo' = [todo EXCEPT ![b] = paths]
  /\ records' = [records EXCEPT ![b] = <<>>]
  /\ moved' = [moved EXCEPT ![b] = {}]
  /\ Goto(b, "status")
  /\ UNCHANGED <<tree, rows, dirty, oids, at, raw, snapshot, since, disturbed>>

IsDirty(p) == head[p] # staged[p] \/ staged[p] # work[p]

Status(b) ==
  /\ phase[b] = "status"
  /\ dirty' = [dirty EXCEPT ![b] = {p \in Paths : IsDirty(p)}]
  /\ Goto(b, "oids")
  /\ UNCHANGED <<tree, rows, version, listed, oids, todo, at, raw, records, snapshot, history>>

StagedBlobs(b) ==
  /\ phase[b] = "oids"
  /\ oids' = [oids EXCEPT ![b] = staged]
  /\ Goto(b, "visit")
  /\ UNCHANGED <<tree, rows, version, listed, dirty, todo, at, raw, records, snapshot, history>>

CachedForAnyBlob(b, p) ==   \* slip
  p \in DOMAIN rows /\ oids[b][p] # Nothing /\ rows[p].parser = version[b]
Cached(b, p) == /\ oids[b][p] # Nothing
                /\ p \in DOMAIN rows
                /\ rows[p].blob = oids[b][p]
                /\ rows[p].parser = version[b]

(* A path is skipped if there is no file; the record of a clean file may   *)
(* come from the table.                                                    *)
Visit(b) ==
  /\ phase[b] = "visit"
  /\ \E p \in todo[b] :
       /\ todo' = [todo EXCEPT ![b] = @ \ {p}]
       /\ IF work[p] = Nothing
          THEN UNCHANGED <<at, records, phase>>
          ELSE IF p \notin dirty[b] /\ Cached(b, p)
          THEN /\ records' = [records EXCEPT ![b] =
                    [q \in DOMAIN @ \cup {p} |->
                       IF q = p THEN [content |-> rows[p].content, parser |-> rows[p].parser]
                       ELSE @[q]]]
               /\ UNCHANGED <<at, phase>>
          ELSE /\ at' = [at EXCEPT ![b] = p]
               /\ Goto(b, "read")
               /\ UNCHANGED records
  /\ UNCHANGED <<tree, rows, version, listed, dirty, oids, raw, snapshot, history>>

(* The file may have gone since is_file was asked; the build then fails.   *)
ReadFile(b) ==
  /\ phase[b] = "read"
  /\ IF work[at[b]] = Nothing
     THEN /\ Goto(b, "idle")
          /\ at' = [at EXCEPT ![b] = Nothing]
          /\ Forget(b)
          /\ listed' = [listed EXCEPT ![b] = {}]
          /\ todo' = [todo EXCEPT ![b] = {}]
          /\ records' = [records EXCEPT ![b] = <<>>]
          /\ moved' = [moved EXCEPT ![b] = {}]
          /\ UNCHANGED raw
     ELSE /\ raw' = [raw EXCEPT ![b] = work[at[b]]]
          /\ Goto(b, "store")
          /\ UNCHANGED <<at, dirty, oids, listed, todo, records, moved>>
  /\ UNCHANGED <<tree, rows, version, snapshot, since, disturbed>>

(* The row of a path is inserted or replaced.                              *)
Upsert(p, row) == rows' = [q \in DOMAIN rows \cup {p} |-> IF q = p THEN row ELSE rows[q]]

BlobOf(b, p) == oids[b][p]

RowFor(b, p, record) ==
  [blob |-> BlobOf(b, p), content |-> record.content, parser |-> version[b]]

StoreRecord(b) ==
  /\ phase[b] = "store"
  /\ LET p == at[b]
         record == [content |-> raw[b], parser |-> version[b]]
     IN /\ records' = [records EXCEPT ![b] =
                         [q \in DOMAIN @ \cup {p} |-> IF q = p THEN record ELSE @[q]]]
        /\ Upsert(p, RowFor(b, p, record))
  /\ at' = [at EXCEPT ![b] = Nothing]
  /\ raw' = [raw EXCEPT ![b] = Nothing]
  /\ Goto(b, "visit")
  /\ UNCHANGED <<tree, version, listed, dirty, oids, todo, snapshot, history>>

(* Rows of paths that are not listed are selected and, in a transaction of *)
(* their own, deleted; then all records are stored once more, with the     *)
(* tests associated to them, those too whose rows another build has        *)
(* removed meanwhile.                                                      *)
SelectRows(b) ==
  /\ phase[b] = "visit" /\ todo[b] = {}
  /\ todo' = [todo EXCEPT ![b] = DOMAIN rows \ listed[b]]
  /\ Goto(b, "remove")
  /\ UNCHANGED <<tree, rows, version, listed, dirty, oids, at, raw, records, snapshot, history>>

DeleteRows(b) ==
  /\ phase[b] = "remove"
  /\ rows' = [p \in DOMAIN rows \ todo[b] |-> rows[p]]
  /\ todo' = [todo EXCEPT ![b] = DOMAIN records[b]]
  /\ Goto(b, "again")
  /\ UNCHANGED <<tree, version, listed, dirty, oids, at, raw, records, snapshot, history>>

StoreAgain(b) ==
  /\ phase[b] = "again" /\ todo[b] # {}
  /\ \E p \in todo[b] :
       /\ todo' = [todo EXCEPT ![b] = @ \ {p}]
       /\ Upsert(p, RowFor(b, p, records[b][p]))
  /\ UNCHANGED <<tree, phase, version, listed, dirty, oids, at, raw, records, snapshot, history>>

Finish(b) ==
  /\ phase[b] = "again" /\ todo[b] = {}
  /\ Forget(b)
  /\ Goto(b, "done")
  /\ UNCHANGED <<tree, rows, version, listed, todo, at, raw, records, snapshot, history>>

Build(b) == \/ ListPaths(b) \/ Status(b) \/ StagedBlobs(b) \/ Visit(b) \/ ReadFile(b)
            \/ StoreRecord(b) \/ SelectRows(b) \/ DeleteRows(b) \/ StoreAgain(b) \/ Finish(b)

-----------------------------------------------------------------------------
(* The server builds once, when it starts.                                 *)
RowsInstead(b) ==   \* slip: the records come from the table
  [p \in DOMAIN rows \cap listed[b] |->
     [content |-> rows[p].content, parser |-> rows[p].parser]]
RecordsOf(b) == records[b]

StartServer(b) ==
  /\ phase[b] = "done"
  /\ snapshot' = RecordsOf(b)
  /\ since' = moved[b]
  /\ UNCHANGED <<tree, rows, building, moved, disturbed>>

(* read takes the file as text and compares the digest of this with that   *)
(* of the record, which is one of bytes; if they differ the file is stale. *)
Matches(p) == work[p] # Nothing /\ Text[work[p]] = snapshot[p].content

Next == Developer \/ \E b \in Builders : Build(b) \/ StartServer(b)

Spec == Init /\ [][Next]_vars

-----------------------------------------------------------------------------
(* The types.                                                              *)
TypeOK ==
  /\ work \in Files /\ staged \in Files /\ head \in Files
  /\ DOMAIN rows \subseteq Paths /\ rows \in [DOMAIN rows -> Row]
  /\ \A b \in Builders :
       /\ phase[b] \in Resting \cup {"status", "oids", "visit", "read", "store", "remove", "again"}
       /\ version[b] \in Versions
       /\ todo[b] \subseteq Paths /\ listed[b] \subseteq Paths /\ dirty[b] \subseteq Paths
       /\ oids[b] \in Files
       /\ phase[b] \in {"read", "store"} => at[b] \in Paths
       /\ phase[b] = "store" => raw[b] \in Contents
       /\ DOMAIN records[b] \subseteq listed[b]
       /\ records[b] \in [DOMAIN records[b] -> Record]

(* A build that has ended reports every listed file that is there, with    *)
(* the content it has and what this version of the parser makes of it, but *)
(* for the files changed since the build began.                            *)
CurrentFor(S) ==
  \A b \in Builders : phase[b] = "done" =>
    \A p \in (S \cap listed[b]) \ moved[b] :
      /\ work[p] # Nothing <=> p \in DOMAIN records[b]
      /\ work[p] # Nothing => records[b][p] = [content |-> work[p], parser |-> version[b]]

(* Files whose row can be trusted, because nothing was ever stored for     *)
(* them under a blob it was not, and those that git reports as changed,    *)
(* whose row is not looked at.                                             *)
Settled == {p \in Paths : p \notin disturbed \/ IsDirty(p)}

(* The records of these are right, though files come and go by checkouts,  *)
(* forward and back, other processes build with other parsers at the same  *)
(* time, and an older build stores rows of deleted files again.            *)
SettledAreCurrent == CurrentFor(Settled)

(* A file that has not changed since the server began to build is not      *)
(* refused as stale, unless read_text alters it.                           *)
UnchangedIsServed ==
  \A p \in (Settled \cap DOMAIN snapshot) \ since :
    Text[snapshot[p].content] = snapshot[p].content => Matches(p)

(* docs/architecture.md: clean records are reused by blob identity, and    *)
(* working-tree changes invalidate.                                        *)
ChangesInvalidate == CurrentFor(Paths)
================================================================================
