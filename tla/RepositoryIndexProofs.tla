------------------------- MODULE RepositoryIndexProofs -------------------------
(***************************************************************************)
(* Proofs about RepositoryIndex, for any number of processes that build,   *)
(* of paths, of contents and of versions of the parser.                    *)
(***************************************************************************)
EXTENDS RepositoryIndex, TLAPS

Calm == Paths \ disturbed

Listing == {"status", "oids", "visit", "read", "store"}
Active == Listing \cup {"remove", "again"}

(* The types, with the domains of the builders' functions.                 *)
Typed ==
  /\ work \in Files /\ staged \in Files /\ head \in Files
  /\ DOMAIN rows \subseteq Paths /\ rows \in [DOMAIN rows -> Row]
  /\ phase \in [Builders -> Resting \cup Active]
  /\ version \in [Builders -> Versions]
  /\ listed \in [Builders -> SUBSET Paths]
  /\ dirty \in [Builders -> SUBSET Paths]
  /\ oids \in [Builders -> Files]
  /\ todo \in [Builders -> SUBSET Paths]
  /\ at \in [Builders -> Paths \cup {Nothing}]
  /\ raw \in [Builders -> Contents \cup {Nothing}]
  /\ records = [b \in Builders |-> records[b]]
  /\ \A b \in Builders : records[b] \in [DOMAIN records[b] -> Record]
  /\ moved \in [Builders -> SUBSET Paths]
  /\ since \subseteq Paths /\ disturbed \subseteq Paths

(* Two contents of a calm file, known by two parties at the same time: one *)
(* of them knows of none, or they are the same.                            *)
Agree(c, d) == c = Nothing \/ d = Nothing \/ c = d

TreeOK == \A p \in Calm : Agree(staged[p], work[p])

(* A row of a calm file that names a blob has the content of that blob.    *)
RowsOK == \A p \in Calm \cap DOMAIN rows : Agree(rows[p].blob, rows[p].content)

Looking(b) == phase[b] \in {"read", "store"}

Shape(b) ==
  /\ DOMAIN records[b] \subseteq listed[b]
  /\ phase[b] \in Listing => todo[b] \subseteq listed[b]
  /\ phase[b] = "again" => todo[b] \subseteq DOMAIN records[b]
  /\ phase[b] \in {"idle", "status", "oids"} => DOMAIN records[b] = {}
  /\ Looking(b) => at[b] \in listed[b]
  /\ phase[b] = "store" => raw[b] \in Contents

(* What a build has of a calm file is of the blob that it knows.           *)
BlobsOK(b) ==
  \A p \in Calm :
    /\ phase[b] \in Active \ {"status", "oids"} => Agree(oids[b][p], work[p])
    /\ phase[b] \in Active \ {"status", "oids"} /\ p \in DOMAIN records[b] =>
         Agree(oids[b][p], records[b][p].content)
    /\ phase[b] = "store" /\ p = at[b] => Agree(oids[b][p], raw[b])

(* What a build has of a file that did not change is what the file holds.  *)
Holds(b, p) == work[p] # Nothing /\ records[b][p] = [content |-> work[p], parser |-> version[b]]

CurrentOK(b) ==
  \A p \in Paths \ moved[b] :
    /\ phase[b] \in Active \ {"status"} /\ p \notin dirty[b] => ~IsDirty(p)
    /\ phase[b] = "store" /\ p = at[b] => raw[b] = work[p]
    /\ p \in Settled /\ p \in DOMAIN records[b] => Holds(b, p)
    /\ p \in listed[b] /\ phase[b] # "idle" =>
         \/ p \in DOMAIN records[b] \/ work[p] = Nothing
         \/ phase[b] \in Listing /\ (p \in todo[b] \/ (Looking(b) /\ p = at[b]))

BuilderOK(b) == Shape(b) /\ BlobsOK(b) /\ CurrentOK(b)

(* So is what the server has.                                              *)
ServerOK ==
  \A p \in (Settled \cap DOMAIN snapshot) \ since :
    work[p] # Nothing /\ snapshot[p].content = work[p]

IndexInv ==
  Typed /\ TreeOK /\ RowsOK /\ ServerOK /\ \A b \in Builders : BuilderOK(b)

-----------------------------------------------------------------------------
LEMMA InitIndex == ASSUME Init PROVE IndexInv
<1>1. Typed
  <2>1. (CHOOSE v \in Versions : TRUE) \in Versions
    BY IndexAssumption
  <2>2. /\ head \in Files /\ staged = head /\ work = head /\ rows = <<>>
        /\ phase = [b \in Builders |-> "idle"]
        /\ version = [b \in Builders |-> CHOOSE v \in Versions : TRUE]
        /\ listed = [b \in Builders |-> {}] /\ dirty = [b \in Builders |-> {}]
        /\ oids = [b \in Builders |-> [p \in Paths |-> Nothing]]
        /\ todo = [b \in Builders |-> {}] /\ at = [b \in Builders |-> Nothing]
        /\ raw = [b \in Builders |-> Nothing] /\ moved = [b \in Builders |-> {}]
        /\ records = [b \in Builders |-> <<>>]
        /\ since = {} /\ disturbed = {}
    BY DEF Init
  <2>3. DOMAIN rows \subseteq Paths /\ rows \in [DOMAIN rows -> Row]
    BY <2>2
  <2>4. \A b \in Builders : records[b] \in [DOMAIN records[b] -> Record]
    BY <2>2
  <2>5. [p \in Paths |-> Nothing] \in Files
    BY DEF Files
  <2>6. version \in [Builders -> Versions]
    BY <2>1, <2>2
  <2>. QED
    BY <2>2, <2>3, <2>4, <2>5, <2>6 DEF Typed, Resting
<1>2. TreeOK /\ RowsOK /\ ServerOK
  BY DEF Init, TreeOK, RowsOK, ServerOK, Agree
<1>3. \A b \in Builders : BuilderOK(b)
  BY DEF Init, BuilderOK, Shape, BlobsOK, CurrentOK, Active, Listing, Looking
<1>. QED
  BY <1>1, <1>2, <1>3 DEF IndexInv

-----------------------------------------------------------------------------
(* The developers.  A file that is calm after a change was untracked, or   *)
(* taken away, or checked out while nobody built; a file that is settled   *)
(* after a step and did not change was settled before.                     *)
LEMMA ChangeStep ==
  ASSUME IndexInv, NEW p \in Paths, NEW c \in Contents \cup {Nothing}, NEW disturbs \in BOOLEAN,
         Changes(p, c, disturbs), Building => disturbs,
         staged' \in Files, head' \in Files,
         \A q \in Paths \ {p} : staged'[q] = staged[q] /\ head'[q] = head[q],
         p \notin disturbed' => Agree(staged'[p], c)
  PROVE  IndexInv'
<1>1. /\ work' = [work EXCEPT ![p] = c] /\ since' = since \cup {p}
      /\ moved' = [b \in Builders |-> IF phase[b] = "idle" THEN {} ELSE moved[b] \cup {p}]
      /\ disturbed' = IF c # Nothing /\ disturbs THEN disturbed \cup {p} ELSE disturbed
      /\ UNCHANGED <<rows, phase, version, listed, dirty, oids, todo, at, raw, records, snapshot>>
  BY DEF Changes, building
<1>2. /\ Typed /\ work' \in Files /\ work'[p] = c
      /\ \A q \in Paths \ {p} : work'[q] = work[q]
  BY <1>1 DEF IndexInv, Typed, Files
<1>3. Typed'
  BY <1>1, <1>2 DEF Typed
<1>4. Calm' \subseteq Calm /\ (p \in Calm' /\ c # Nothing => ~Building)
  BY <1>1 DEF Calm
<1>5. \A q \in Paths \ {p} : (IsDirty(q)' <=> IsDirty(q)) /\ (q \in Settled' <=> q \in Settled)
  BY <1>1, <1>2 DEF IsDirty, Settled
<1>6. TreeOK'
  BY <1>2, <1>4 DEF IndexInv, TreeOK, Calm
<1>7. RowsOK'
  BY <1>1, <1>4 DEF IndexInv, RowsOK
<1>8. ServerOK'
  BY <1>1, <1>2, <1>5 DEF IndexInv, ServerOK, Settled
<1>9. ASSUME NEW b \in Builders PROVE BuilderOK(b)'
  <2>1. Shape(b) /\ BlobsOK(b) /\ CurrentOK(b)
    BY DEF IndexInv, BuilderOK
  <2>2. Shape(b)'
    BY <1>1, <2>1 DEF Shape, Looking
  <2>3. BlobsOK(b)'
    <3>1. ASSUME NEW q \in Calm', phase[b] \in Active PROVE work'[q] \in {work[q], Nothing}
      <4>1. Building
        BY <3>1 DEF Building, Active, Listing, Resting
      <4>. QED
        BY <1>2, <1>4, <3>1, <4>1 DEF Calm
    <3>. QED
      BY <1>1, <1>4, <2>1, <3>1 DEF BlobsOK, Agree
  <2>4. CurrentOK(b)'
    <3>1. CASE phase[b] = "idle"
      BY <1>1, <2>1, <3>1 DEF CurrentOK, Shape, Active, Listing
    <3>2. CASE phase[b] # "idle"
      <4>1. moved'[b] = moved[b] \cup {p}
        BY <1>1, <3>2
      <4>2. \A q \in Paths \ moved'[b] : /\ work'[q] = work[q] /\ (IsDirty(q)' <=> IsDirty(q))
                                         /\ (q \in Settled' <=> q \in Settled)
                                         /\ (Holds(b, q)' <=> Holds(b, q))
        BY <1>1, <1>2, <1>5, <4>1 DEF Holds
      <4>. QED
        BY <1>1, <2>1, <4>1, <4>2 DEF CurrentOK, Looking
    <3>. QED
      BY <3>1, <3>2
  <2>. QED
    BY <2>2, <2>3, <2>4 DEF BuilderOK
<1>. QED
  BY <1>3, <1>6, <1>7, <1>8, <1>9 DEF IndexInv

(* What only git knows of: no clean file becomes a dirty one.              *)
LEMMA GitStep ==
  ASSUME IndexInv, UNCHANGED <<work, rows, building, snapshot, history>>,
         staged' \in Files, head' \in Files, TreeOK',
         \A p \in Paths : IsDirty(p)' => IsDirty(p)
  PROVE  IndexInv'
<1>1. UNCHANGED <<work, rows, phase, version, listed, dirty, oids, todo, at, raw, records, snapshot,
                  moved, since, disturbed>>
  BY DEF building, history
<1>2. Typed' /\ RowsOK' /\ Calm' = Calm
  BY <1>1 DEF IndexInv, Typed, RowsOK, Calm
<1>3. Settled' \subseteq Settled
  BY <1>1 DEF Settled
<1>4. ServerOK'
  BY <1>1, <1>3 DEF IndexInv, ServerOK
<1>5. ASSUME NEW b \in Builders PROVE BuilderOK(b)'
  <2>1. Shape(b) /\ BlobsOK(b) /\ CurrentOK(b)
    BY DEF IndexInv, BuilderOK
  <2>2. Shape(b)'
    BY <1>1, <2>1 DEF Shape, Looking
  <2>3. BlobsOK(b)'
    BY <1>1, <1>2, <2>1 DEF BlobsOK
  <2>4. CurrentOK(b)'
    BY <1>1, <1>3, <2>1 DEF CurrentOK, Looking, Holds
  <2>. QED
    BY <2>2, <2>3, <2>4 DEF BuilderOK
<1>. QED
  BY <1>2, <1>4, <1>5 DEF IndexInv

LEMMA DeveloperStep == ASSUME IndexInv, Developer PROVE IndexInv'
<1>. Typed /\ TreeOK
  BY DEF IndexInv
<1>1. ASSUME NEW p \in Paths, NEW c \in Contents \cup {Nothing}, Write(p, c) PROVE IndexInv'
  <2>1. Changes(p, c, Building \/ ~Untracked(p)) /\ staged' = staged /\ head' = head
    BY <1>1 DEF Write
  <2>2. p \notin disturbed' => Agree(staged'[p], c)
    BY <2>1 DEF Changes, Untracked, Agree
  <2>3. staged' \in Files /\ head' \in Files /\ (Building \/ ~Untracked(p)) \in BOOLEAN
    BY <2>1 DEF Typed, Building, Untracked
  <2>. QED
    BY <2>1, <2>2, <2>3, ChangeStep
<1>2. ASSUME NEW p \in Paths, NEW c \in Contents \cup {Nothing}, Checkout(p, c) PROVE IndexInv'
  <2>1. /\ Changes(p, c, Building)
        /\ head' = [head EXCEPT ![p] = c] /\ staged' = [staged EXCEPT ![p] = c]
    BY <1>2 DEF Checkout
  <2>2. staged' \in Files /\ head' \in Files /\ Building \in BOOLEAN /\ staged'[p] = c
        /\ \A q \in Paths \ {p} : staged'[q] = staged[q] /\ head'[q] = head[q]
    BY <2>1 DEF Typed, Files, Building
  <2>. QED
    BY <2>1, <2>2, ChangeStep DEF Agree
<1>3. ASSUME NEW p \in Paths, Stage(p) PROVE IndexInv'
  <2>1. /\ staged' = [staged EXCEPT ![p] = work[p]]
        /\ UNCHANGED <<work, head, rows, building, snapshot, history>>
    BY <1>3 DEF Stage
  <2>2. /\ staged' \in Files /\ head' \in Files /\ staged'[p] = work[p]
        /\ \A q \in Paths \ {p} : staged'[q] = staged[q]
    BY <2>1 DEF Typed, Files
  <2>3. TreeOK'
    BY <2>1, <2>2 DEF TreeOK, Agree, Calm, history
  <2>4. \A q \in Paths : IsDirty(q)' => IsDirty(q)
    BY <2>1, <2>2 DEF IsDirty
  <2>. QED
    BY <2>1, <2>2, <2>3, <2>4, GitStep
<1>4. ASSUME Commit PROVE IndexInv'
  <2>1. head' = staged /\ UNCHANGED <<work, staged, rows, building, snapshot, history>>
    BY <1>4 DEF Commit
  <2>2. TreeOK' /\ staged' \in Files /\ head' \in Files
    BY <2>1 DEF Typed, TreeOK, Calm, history
  <2>3. \A q \in Paths : IsDirty(q)' => IsDirty(q)
    BY <2>1 DEF IsDirty
  <2>. QED
    BY <2>1, <2>2, <2>3, GitStep
<1>. QED
  BY <1>1, <1>2, <1>3, <1>4 DEF Developer

-----------------------------------------------------------------------------
(* The builders.  A step of one of them leaves the others as they are.     *)
OthersKept(b) ==
  \A c \in Builders \ {b} :
    /\ phase'[c] = phase[c] /\ version'[c] = version[c] /\ listed'[c] = listed[c]
    /\ dirty'[c] = dirty[c] /\ oids'[c] = oids[c] /\ todo'[c] = todo[c] /\ at'[c] = at[c]
    /\ raw'[c] = raw[c] /\ records'[c] = records[c] /\ moved'[c] = moved[c]

LEMMA BuilderStep ==
  ASSUME IndexInv, NEW b \in Builders, UNCHANGED <<tree, snapshot, since, disturbed>>,
         Typed', RowsOK', OthersKept(b), BuilderOK(b)'
  PROVE  IndexInv'
<1>1. UNCHANGED <<work, staged, head, snapshot, since, disturbed>>
  BY DEF tree
<1>2. TreeOK' /\ ServerOK'
  BY <1>1 DEF IndexInv, TreeOK, ServerOK, Calm, Settled, IsDirty
<1>3. ASSUME NEW c \in Builders, c # b PROVE BuilderOK(c)'
  <2>1. /\ phase'[c] = phase[c] /\ version'[c] = version[c] /\ listed'[c] = listed[c]
        /\ dirty'[c] = dirty[c] /\ oids'[c] = oids[c] /\ todo'[c] = todo[c] /\ at'[c] = at[c]
        /\ raw'[c] = raw[c] /\ records'[c] = records[c] /\ moved'[c] = moved[c]
    BY <1>3 DEF OthersKept
  <2>2. Shape(c) /\ BlobsOK(c) /\ CurrentOK(c)
    BY DEF IndexInv, BuilderOK
  <2>3. Shape(c)' /\ BlobsOK(c)'
    BY <1>1, <2>1, <2>2 DEF Shape, BlobsOK, Looking, Calm
  <2>4. CurrentOK(c)'
    BY <1>1, <2>1, <2>2 DEF CurrentOK, Looking, Holds, Settled, IsDirty
  <2>. QED
    BY <2>3, <2>4 DEF BuilderOK
<1>. QED
  BY <1>2, <1>3 DEF IndexInv

LEMMA BuilderFacts ==
  ASSUME IndexInv, NEW b \in Builders
  PROVE  /\ Typed /\ TreeOK /\ RowsOK /\ Shape(b) /\ BlobsOK(b) /\ CurrentOK(b)
         /\ phase[b] \in Resting \cup Active /\ version[b] \in Versions /\ oids[b] \in Files
         /\ listed[b] \subseteq Paths /\ todo[b] \subseteq Paths
         /\ records[b] \in [DOMAIN records[b] -> Record]
BY DEF IndexInv, Typed, BuilderOK

LEMMA ListPathsStep == ASSUME IndexInv, NEW b \in Builders, ListPaths(b) PROVE IndexInv'
<1>1. PICK v \in Versions, paths \in {Tracked, Tracked \cup Others} :
        /\ version' = [version EXCEPT ![b] = v]
        /\ listed' = [listed EXCEPT ![b] = paths] /\ todo' = [todo EXCEPT ![b] = paths]
  BY DEF ListPaths
<1>2. /\ records' = [records EXCEPT ![b] = <<>>] /\ moved' = [moved EXCEPT ![b] = {}]
      /\ phase' = [phase EXCEPT ![b] = "status"]
      /\ UNCHANGED <<rows, dirty, oids, at, raw>> /\ UNCHANGED <<tree, snapshot, since, disturbed>>
  BY DEF ListPaths, Goto
<1>3. paths \subseteq Paths
  BY DEF Tracked, Others
<1>4. Typed
  BY DEF IndexInv
<1>5. /\ records' = [c \in Builders |-> records'[c]] /\ records'[b] = <<>>
      /\ \A c \in Builders \ {b} : records'[c] = records[c]
  BY <1>2, <1>4 DEF Typed
<1>6. Typed'
  <2>1. \A c \in Builders : records'[c] \in [DOMAIN records'[c] -> Record]
    <3>1. <<>> \in [DOMAIN <<>> -> Record]
      OBVIOUS
    <3>. QED
      BY <1>4, <1>5, <3>1 DEF Typed
  <2>. QED
    BY <1>1, <1>2, <1>3, <1>4, <1>5, <2>1 DEF Typed, tree, Active, Listing
<1>7. RowsOK'
  BY <1>2 DEF IndexInv, RowsOK, Calm
<1>8. OthersKept(b)
  BY <1>1, <1>2, <1>4, <1>5 DEF Typed, OthersKept
<1>9. phase'[b] = "status" /\ listed'[b] = paths /\ todo'[b] = paths /\ DOMAIN records'[b] = {}
  BY <1>1, <1>2, <1>4, <1>5 DEF Typed
<1>10. BuilderOK(b)'
  BY <1>9 DEF BuilderOK, Shape, BlobsOK, CurrentOK, Looking, Active, Listing
<1>. QED
  BY <1>2, <1>6, <1>7, <1>8, <1>10, BuilderStep

LEMMA StatusStep == ASSUME IndexInv, NEW b \in Builders, Status(b) PROVE IndexInv'
<1>1. /\ phase[b] = "status" /\ phase' = [phase EXCEPT ![b] = "oids"]
      /\ dirty' = [dirty EXCEPT ![b] = {p \in Paths : IsDirty(p)}]
      /\ UNCHANGED <<rows, version, listed, oids, todo, at, raw, records, moved>>
      /\ UNCHANGED <<tree, snapshot, since, disturbed>> /\ UNCHANGED <<work, staged, head>>
  BY DEF Status, Goto, history, tree
<1>2. Typed /\ Shape(b) /\ CurrentOK(b)
  BY BuilderFacts
<1>3. Typed'
  BY <1>1, <1>2 DEF Typed, Active, Listing
<1>4. RowsOK' /\ OthersKept(b)
  BY <1>1, <1>2 DEF IndexInv, Typed, RowsOK, Calm, OthersKept
<1>5. phase'[b] = "oids" /\ dirty'[b] = {p \in Paths : IsDirty(p)}
  BY <1>1, <1>2 DEF Typed
<1>6. Shape(b)' /\ BlobsOK(b)'
  BY <1>1, <1>2, <1>5 DEF Shape, BlobsOK, Looking, Active, Listing
<1>7. CurrentOK(b)'
  BY <1>1, <1>2, <1>5 DEF CurrentOK, Looking, Holds, Settled, IsDirty, Active, Listing
<1>. QED
  BY <1>1, <1>3, <1>4, <1>6, <1>7, BuilderStep DEF BuilderOK

LEMMA StagedBlobsStep == ASSUME IndexInv, NEW b \in Builders, StagedBlobs(b) PROVE IndexInv'
<1>1. /\ phase[b] = "oids" /\ phase' = [phase EXCEPT ![b] = "visit"]
      /\ oids' = [oids EXCEPT ![b] = staged]
      /\ UNCHANGED <<rows, version, listed, dirty, todo, at, raw, records, moved>>
      /\ UNCHANGED <<tree, snapshot, since, disturbed>> /\ UNCHANGED <<work, staged, head>>
  BY DEF StagedBlobs, Goto, history, tree
<1>2. Typed /\ TreeOK /\ Shape(b) /\ CurrentOK(b)
  BY BuilderFacts
<1>3. Typed'
  BY <1>1, <1>2 DEF Typed, Active, Listing
<1>4. RowsOK' /\ OthersKept(b)
  BY <1>1, <1>2 DEF IndexInv, Typed, RowsOK, Calm, OthersKept
<1>5. phase'[b] = "visit" /\ oids'[b] = staged
  BY <1>1, <1>2 DEF Typed
<1>6. Shape(b)'
  BY <1>1, <1>2, <1>5 DEF Shape, Looking, Listing
<1>7. BlobsOK(b)'
  BY <1>1, <1>2, <1>5 DEF BlobsOK, TreeOK, Calm, Listing, Shape
<1>8. CurrentOK(b)'
  BY <1>1, <1>2, <1>5 DEF CurrentOK, Looking, Holds, Settled, IsDirty, Active, Listing
<1>. QED
  BY <1>1, <1>3, <1>4, <1>6, <1>7, <1>8, BuilderStep DEF BuilderOK

LEMMA VisitStep == ASSUME IndexInv, NEW b \in Builders, Visit(b) PROVE IndexInv'
<1>1. PICK p \in todo[b] :
        /\ todo' = [todo EXCEPT ![b] = todo[b] \ {p}]
        /\ IF work[p] = Nothing
           THEN UNCHANGED <<at, records, phase>>
           ELSE IF p \notin dirty[b] /\ Cached(b, p)
           THEN /\ records' = [records EXCEPT ![b] =
                     [q \in DOMAIN records[b] \cup {p} |->
                        IF q = p THEN [content |-> rows[p].content, parser |-> rows[p].parser]
                        ELSE records[b][q]]]
                /\ UNCHANGED <<at, phase>>
           ELSE /\ at' = [at EXCEPT ![b] = p]
                /\ Goto(b, "read")
                /\ UNCHANGED records
  BY DEF Visit
<1>2. /\ phase[b] = "visit" /\ UNCHANGED <<rows, version, listed, dirty, oids, raw, moved>>
      /\ UNCHANGED <<tree, snapshot, since, disturbed>> /\ UNCHANGED <<work, staged, head>>
  BY DEF Visit, tree, history
<1>3. /\ Typed /\ RowsOK /\ Shape(b) /\ BlobsOK(b) /\ CurrentOK(b)
      /\ p \in listed[b] /\ p \in Paths /\ listed[b] \subseteq Paths
  BY <1>2, BuilderFacts DEF Shape, Listing
<1>4. /\ todo'[b] = todo[b] \ {p} /\ todo' \in [Builders -> SUBSET Paths]
      /\ \A c \in Builders \ {b} : todo'[c] = todo[c]
  BY <1>1, <1>3 DEF Typed
<1>5. RowsOK'
  BY <1>2, <1>3 DEF RowsOK, Calm
<1>6. CASE work[p] = Nothing
  <2>1. UNCHANGED <<at, records, phase>>
    BY <1>1, <1>6
  <2>2. Typed' /\ OthersKept(b)
    BY <1>2, <1>3, <1>4, <2>1 DEF Typed, OthersKept
  <2>3. Shape(b)' /\ BlobsOK(b)'
    BY <1>2, <1>3, <1>4, <2>1 DEF Shape, BlobsOK, Looking, Calm
  <2>4. CurrentOK(b)'
    BY <1>2, <1>3, <1>4, <1>6, <2>1 DEF CurrentOK, Looking, Holds, Settled, IsDirty
  <2>. QED
    BY <1>2, <1>5, <2>2, <2>3, <2>4, BuilderStep DEF BuilderOK
<1>7. CASE work[p] # Nothing /\ p \notin dirty[b] /\ Cached(b, p)
  <2>1. PICK record : record = [content |-> rows[p].content, parser |-> rows[p].parser]
    OBVIOUS
  <2>2. PICK new : new = [q \in DOMAIN records[b] \cup {p} |->
                            IF q = p THEN record ELSE records[b][q]]
    OBVIOUS
  <2>3. records' = [records EXCEPT ![b] = new] /\ UNCHANGED <<at, phase>>
    BY <1>1, <1>7, <2>1, <2>2
  <2>4. /\ record \in Record /\ oids[b][p] # Nothing /\ rows[p].blob = oids[b][p]
        /\ p \in DOMAIN rows /\ rows[p].parser = version[b]
    BY <1>3, <1>7, <2>1 DEF Cached, Typed, Row, Record
  <2>5. /\ new \in [DOMAIN new -> Record] /\ DOMAIN new = DOMAIN records[b] \cup {p}
        /\ new[p] = record /\ \A q \in DOMAIN records[b] : q # p => new[q] = records[b][q]
    BY <1>3, <2>2, <2>4 DEF Typed
  <2>6. /\ records' = [c \in Builders |-> records'[c]] /\ records'[b] = new
        /\ \A c \in Builders \ {b} : records'[c] = records[c]
    BY <1>3, <2>3 DEF Typed
  <2>7. p \in Calm => Agree(oids[b][p], record.content)
    BY <1>3, <2>1, <2>4 DEF RowsOK
  <2>8. p \in Settled \ moved[b] => record = [content |-> work[p], parser |-> version[b]]
    <3>1. SUFFICES ASSUME p \in Settled, p \notin moved[b] PROVE record.content = work[p]
      BY <2>1, <2>4
    <3>2. p \in Calm
      BY <1>2, <1>3, <1>7, <3>1 DEF CurrentOK, Settled, Calm, Active, Listing
    <3>3. Agree(oids[b][p], work[p])
      BY <1>2, <1>3, <3>2 DEF BlobsOK, Active, Listing
    <3>4. record.content \in Contents
      BY <2>4 DEF Record
    <3>. QED
      BY <1>7, <2>4, <2>7, <3>2, <3>3, <3>4, IndexAssumption DEF Agree
  <2>9. Typed'
    BY <1>2, <1>3, <1>4, <2>3, <2>5, <2>6 DEF Typed
  <2>10. OthersKept(b)
    BY <1>2, <1>4, <2>3, <2>6 DEF OthersKept
  <2>11. Shape(b)'
    BY <1>2, <1>3, <1>4, <2>3, <2>5, <2>6 DEF Shape, Looking
  <2>12. BlobsOK(b)'
    BY <1>2, <1>3, <2>3, <2>5, <2>6, <2>7 DEF BlobsOK, Looking, Calm
  <2>13. CurrentOK(b)'
    BY <1>2, <1>3, <1>4, <1>7, <2>3, <2>5, <2>6, <2>8 DEF CurrentOK, Looking, Holds, Settled, IsDirty
  <2>. QED
    BY <1>2, <1>5, <2>9, <2>10, <2>11, <2>12, <2>13, BuilderStep DEF BuilderOK
<1>8. CASE work[p] # Nothing /\ ~(p \notin dirty[b] /\ Cached(b, p))
  <2>1. /\ at' = [at EXCEPT ![b] = p] /\ phase' = [phase EXCEPT ![b] = "read"]
        /\ UNCHANGED records
    BY <1>1, <1>8 DEF Goto
  <2>2. /\ at'[b] = p /\ phase'[b] = "read"
        /\ \A c \in Builders \ {b} : phase'[c] = phase[c] /\ at'[c] = at[c]
    BY <1>3, <2>1 DEF Typed
  <2>3. Typed'
    BY <1>2, <1>3, <1>4, <2>1 DEF Typed, Active, Listing
  <2>4. OthersKept(b)
    BY <1>2, <1>4, <2>1, <2>2 DEF OthersKept
  <2>5. Shape(b)' /\ BlobsOK(b)'
    BY <1>2, <1>3, <1>4, <2>1, <2>2 DEF Shape, BlobsOK, Looking, Calm, Active, Listing
  <2>6. CurrentOK(b)'
    BY <1>2, <1>3, <1>4, <2>1, <2>2 DEF CurrentOK, Looking, Holds, Settled, IsDirty, Active, Listing
  <2>. QED
    BY <1>2, <1>5, <2>3, <2>4, <2>5, <2>6, BuilderStep DEF BuilderOK
<1>. QED
  BY <1>6, <1>7, <1>8

LEMMA ReadFileStep == ASSUME IndexInv, NEW b \in Builders, ReadFile(b) PROVE IndexInv'
<1>1. /\ phase[b] = "read" /\ UNCHANGED <<rows, version>>
      /\ UNCHANGED <<tree, snapshot, since, disturbed>> /\ UNCHANGED <<work, staged, head>>
  BY DEF ReadFile, tree
<1>2. /\ Typed /\ RowsOK /\ Shape(b) /\ BlobsOK(b) /\ CurrentOK(b)
      /\ at[b] \in listed[b] /\ at[b] \in Paths /\ work[at[b]] \in Contents \cup {Nothing}
  <2>1. /\ Typed /\ RowsOK /\ Shape(b) /\ BlobsOK(b) /\ CurrentOK(b)
        /\ at[b] \in listed[b] /\ at[b] \in Paths
    BY <1>1, BuilderFacts DEF Shape, Looking
  <2>. QED
    BY <2>1 DEF Typed, Files
<1>3. RowsOK'
  BY <1>1, <1>2 DEF RowsOK, Calm
<1>4. CASE work[at[b]] = Nothing
  <2>1. /\ phase' = [phase EXCEPT ![b] = "idle"] /\ at' = [at EXCEPT ![b] = Nothing]
        /\ dirty' = [dirty EXCEPT ![b] = {}]
        /\ oids' = [oids EXCEPT ![b] = [p \in Paths |-> Nothing]]
        /\ listed' = [listed EXCEPT ![b] = {}] /\ todo' = [todo EXCEPT ![b] = {}]
        /\ records' = [records EXCEPT ![b] = <<>>] /\ moved' = [moved EXCEPT ![b] = {}]
        /\ UNCHANGED raw
    BY <1>4 DEF ReadFile, Goto, Forget
  <2>2. [p \in Paths |-> Nothing] \in Files
    BY DEF Files
  <2>3. /\ records' = [c \in Builders |-> records'[c]] /\ records'[b] = <<>>
        /\ \A c \in Builders \ {b} : records'[c] = records[c]
    BY <1>2, <2>1 DEF Typed
  <2>4. \A c \in Builders : records'[c] \in [DOMAIN records'[c] -> Record]
    <3>1. <<>> \in [DOMAIN <<>> -> Record]
      OBVIOUS
    <3>. QED
      BY <1>2, <2>3, <3>1 DEF Typed
  <2>5. Typed'
    BY <1>1, <1>2, <2>1, <2>2, <2>3, <2>4 DEF Typed, Resting
  <2>6. OthersKept(b)
    BY <1>1, <1>2, <2>1, <2>3 DEF Typed, OthersKept
  <2>7. phase'[b] = "idle" /\ DOMAIN records'[b] = {}
    BY <1>2, <2>1, <2>3 DEF Typed
  <2>8. BuilderOK(b)'
    BY <2>7 DEF BuilderOK, Shape, BlobsOK, CurrentOK, Looking, Active, Listing
  <2>. QED
    BY <1>1, <1>3, <2>5, <2>6, <2>8, BuilderStep
<1>5. CASE work[at[b]] # Nothing
  <2>1. /\ raw' = [raw EXCEPT ![b] = work[at[b]]] /\ phase' = [phase EXCEPT ![b] = "store"]
        /\ UNCHANGED <<at, dirty, oids, listed, todo, records, moved>>
    BY <1>5 DEF ReadFile, Goto
  <2>2. Typed' /\ phase'[b] = "store" /\ raw'[b] = work[at[b]]
    BY <1>1, <1>2, <2>1 DEF Typed, Active, Listing
  <2>3. OthersKept(b)
    BY <1>1, <1>2, <2>1 DEF Typed, OthersKept
  <2>4. Shape(b)'
    BY <1>1, <1>2, <1>5, <2>1, <2>2 DEF Shape, Looking, Listing
  <2>5. BlobsOK(b)'
    BY <1>1, <1>2, <2>1, <2>2 DEF BlobsOK, Calm, Active, Listing
  <2>6. CurrentOK(b)'
    BY <1>1, <1>2, <2>1, <2>2 DEF CurrentOK, Looking, Holds, Settled, IsDirty, Active, Listing
  <2>. QED
    BY <1>1, <1>3, <2>2, <2>3, <2>4, <2>5, <2>6, BuilderStep DEF BuilderOK
<1>. QED
  BY <1>4, <1>5

(* A row that is right may be stored at any time.                          *)
LEMMA UpsertStep ==
  ASSUME Typed, RowsOK, NEW p \in Paths, NEW row \in Row, Upsert(p, row),
         p \in Calm => Agree(row.blob, row.content), UNCHANGED disturbed
  PROVE  DOMAIN rows' \subseteq Paths /\ rows' \in [DOMAIN rows' -> Row] /\ RowsOK'
<1>1. /\ DOMAIN rows' = DOMAIN rows \cup {p} /\ rows'[p] = row
      /\ \A q \in DOMAIN rows : q # p => rows'[q] = rows[q]
      /\ rows' = [q \in DOMAIN rows \cup {p} |-> IF q = p THEN row ELSE rows[q]]
  BY DEF Upsert
<1>2. DOMAIN rows' \subseteq Paths /\ rows' \in [DOMAIN rows' -> Row]
  BY <1>1 DEF Typed
<1>3. RowsOK'
  BY <1>1 DEF RowsOK, Calm
<1>. QED
  BY <1>2, <1>3

(* A record of a calm file that agrees with the blob makes such a row.     *)
LEMMA RowForOK ==
  ASSUME IndexInv, NEW b \in Builders, NEW p \in Paths, NEW record, record.content \in Contents,
         p \in Calm => Agree(oids[b][p], record.content)
  PROVE  /\ RowFor(b, p, record) \in Row
         /\ p \in Calm => Agree(RowFor(b, p, record).blob, RowFor(b, p, record).content)
<1>1. version[b] \in Versions /\ oids[b][p] \in Contents \cup {Nothing}
  BY BuilderFacts DEF Files
<1>. QED
  BY <1>1 DEF RowFor, BlobOf, Row

LEMMA StoreRecordStep == ASSUME IndexInv, NEW b \in Builders, StoreRecord(b) PROVE IndexInv'
<1>1. PICK p : p = at[b]
  OBVIOUS
<1>2. PICK record : record = [content |-> raw[b], parser |-> version[b]]
  OBVIOUS
<1>3. PICK row : row = RowFor(b, p, record)
  OBVIOUS
<1>4. PICK new : new = [q \in DOMAIN records[b] \cup {p} |->
                          IF q = p THEN record ELSE records[b][q]]
  OBVIOUS
<1>5. /\ phase[b] = "store" /\ records' = [records EXCEPT ![b] = new] /\ Upsert(p, row)
      /\ at' = [at EXCEPT ![b] = Nothing] /\ raw' = [raw EXCEPT ![b] = Nothing]
      /\ phase' = [phase EXCEPT ![b] = "visit"]
      /\ UNCHANGED <<version, listed, dirty, oids, todo, moved>>
      /\ UNCHANGED <<tree, snapshot, since, disturbed>> /\ UNCHANGED <<work, staged, head>>
  BY <1>1, <1>2, <1>3, <1>4 DEF StoreRecord, Goto, tree, history
<1>6. /\ Typed /\ RowsOK /\ Shape(b) /\ BlobsOK(b) /\ CurrentOK(b)
      /\ p \in listed[b] /\ p \in Paths /\ listed[b] \subseteq Paths
      /\ raw[b] \in Contents /\ record \in Record
      /\ p \in Calm => Agree(oids[b][p], record.content)
  <2>1. /\ Typed /\ RowsOK /\ Shape(b) /\ BlobsOK(b) /\ CurrentOK(b)
        /\ version[b] \in Versions /\ listed[b] \subseteq Paths
    BY BuilderFacts
  <2>2. p \in listed[b] /\ p \in Paths /\ raw[b] \in Contents
    BY <1>1, <1>5, <2>1 DEF Shape, Looking
  <2>. QED
    BY <1>1, <1>2, <1>5, <2>1, <2>2 DEF Record, BlobsOK
<1>7. row \in Row /\ (p \in Calm => Agree(row.blob, row.content))
  <2>1. record.content \in Contents
    BY <1>2, <1>6
  <2>. QED
    BY <1>3, <1>6, <2>1, RowForOK
<1>8. DOMAIN rows' \subseteq Paths /\ rows' \in [DOMAIN rows' -> Row] /\ RowsOK'
  BY <1>5, <1>6, <1>7, UpsertStep
<1>9. /\ new \in [DOMAIN new -> Record] /\ DOMAIN new = DOMAIN records[b] \cup {p}
      /\ new[p] = record /\ \A q \in DOMAIN records[b] : q # p => new[q] = records[b][q]
  BY <1>4, <1>6 DEF Typed
<1>10. /\ records' = [c \in Builders |-> records'[c]] /\ records'[b] = new
       /\ \A c \in Builders \ {b} : records'[c] = records[c]
  BY <1>5, <1>6 DEF Typed
<1>11. Typed'
  BY <1>5, <1>6, <1>8, <1>9, <1>10 DEF Typed, Active, Listing
<1>12. OthersKept(b) /\ phase'[b] = "visit"
  BY <1>5, <1>6, <1>10 DEF Typed, OthersKept
<1>13. Shape(b)'
  BY <1>5, <1>6, <1>9, <1>10, <1>12 DEF Shape, Looking, Listing
<1>14. BlobsOK(b)'
  BY <1>5, <1>6, <1>9, <1>10, <1>12 DEF BlobsOK, Calm, Active, Listing
<1>15. CurrentOK(b)'
  <2>1. p \notin moved[b] => record = [content |-> work[p], parser |-> version[b]]
    BY <1>1, <1>2, <1>5, <1>6 DEF CurrentOK
  <2>2. raw[b] # Nothing
    BY <1>6, IndexAssumption
  <2>3. p \notin moved[b] => work[p] # Nothing
    BY <1>1, <1>5, <1>6, <2>2 DEF CurrentOK
  <2>. QED
    BY <1>1, <1>5, <1>6, <1>9, <1>10, <1>12, <2>1, <2>3
    DEF CurrentOK, Looking, Holds, Settled, IsDirty, Active, Listing
<1>. QED
  BY <1>5, <1>8, <1>11, <1>12, <1>13, <1>14, <1>15, BuilderStep DEF BuilderOK

LEMMA SelectRowsStep == ASSUME IndexInv, NEW b \in Builders, SelectRows(b) PROVE IndexInv'
<1>1. /\ phase[b] = "visit" /\ todo[b] = {} /\ phase' = [phase EXCEPT ![b] = "remove"]
      /\ todo' = [todo EXCEPT ![b] = DOMAIN rows \ listed[b]]
      /\ UNCHANGED <<rows, version, listed, dirty, oids, at, raw, records, moved>>
      /\ UNCHANGED <<tree, snapshot, since, disturbed>> /\ UNCHANGED <<work, staged, head>>
  BY DEF SelectRows, Goto, tree, history
<1>2. Typed /\ RowsOK /\ Shape(b) /\ BlobsOK(b) /\ CurrentOK(b)
  BY BuilderFacts
<1>3. Typed' /\ phase'[b] = "remove"
  BY <1>1, <1>2 DEF Typed, Active
<1>4. RowsOK' /\ OthersKept(b)
  BY <1>1, <1>2 DEF Typed, RowsOK, Calm, OthersKept
<1>5. Shape(b)' /\ BlobsOK(b)'
  BY <1>1, <1>2, <1>3 DEF Shape, BlobsOK, Looking, Calm, Active, Listing
<1>6. CurrentOK(b)'
  BY <1>1, <1>2, <1>3 DEF CurrentOK, Looking, Holds, Settled, IsDirty, Active, Listing
<1>. QED
  BY <1>1, <1>3, <1>4, <1>5, <1>6, BuilderStep DEF BuilderOK

LEMMA DeleteRowsStep == ASSUME IndexInv, NEW b \in Builders, DeleteRows(b) PROVE IndexInv'
<1>1. /\ phase[b] = "remove" /\ phase' = [phase EXCEPT ![b] = "again"]
      /\ rows' = [p \in DOMAIN rows \ todo[b] |-> rows[p]]
      /\ todo' = [todo EXCEPT ![b] = DOMAIN records[b]]
      /\ UNCHANGED <<version, listed, dirty, oids, at, raw, records, moved>>
      /\ UNCHANGED <<tree, snapshot, since, disturbed>> /\ UNCHANGED <<work, staged, head>>
  BY DEF DeleteRows, Goto, tree, history
<1>2. Typed /\ RowsOK /\ Shape(b) /\ BlobsOK(b) /\ CurrentOK(b) /\ listed[b] \subseteq Paths
  BY BuilderFacts
<1>3. /\ DOMAIN rows' \subseteq DOMAIN rows /\ \A p \in DOMAIN rows' : rows'[p] = rows[p]
      /\ rows' \in [DOMAIN rows' -> Row]
  BY <1>1, <1>2 DEF Typed
<1>4. RowsOK'
  BY <1>1, <1>2, <1>3 DEF RowsOK, Calm
<1>5. phase'[b] = "again" /\ todo'[b] = DOMAIN records[b] /\ DOMAIN records[b] \subseteq Paths
  BY <1>1, <1>2 DEF Typed, Shape
<1>6. Typed'
  BY <1>1, <1>2, <1>3, <1>5 DEF Typed, Active
<1>7. OthersKept(b)
  BY <1>1, <1>2 DEF Typed, OthersKept
<1>8. Shape(b)' /\ BlobsOK(b)'
  BY <1>1, <1>2, <1>5 DEF Shape, BlobsOK, Looking, Calm, Active, Listing
<1>9. CurrentOK(b)'
  BY <1>1, <1>2, <1>5 DEF CurrentOK, Looking, Holds, Settled, IsDirty, Active, Listing
<1>. QED
  BY <1>1, <1>4, <1>6, <1>7, <1>8, <1>9, BuilderStep DEF BuilderOK

LEMMA StoreAgainStep == ASSUME IndexInv, NEW b \in Builders, StoreAgain(b) PROVE IndexInv'
<1>1. PICK p \in todo[b] :
        /\ todo' = [todo EXCEPT ![b] = todo[b] \ {p}]
        /\ Upsert(p, RowFor(b, p, records[b][p]))
  BY DEF StoreAgain
<1>2. /\ phase[b] = "again"
      /\ UNCHANGED <<phase, version, listed, dirty, oids, at, raw, records, moved>>
      /\ UNCHANGED <<tree, snapshot, since, disturbed>> /\ UNCHANGED <<work, staged, head>>
  BY DEF StoreAgain, tree, history
<1>3. /\ Typed /\ RowsOK /\ Shape(b) /\ BlobsOK(b) /\ CurrentOK(b)
      /\ p \in DOMAIN records[b] /\ p \in Paths /\ records[b][p].content \in Contents
      /\ p \in Calm => Agree(oids[b][p], records[b][p].content)
  <2>1. /\ Typed /\ RowsOK /\ Shape(b) /\ BlobsOK(b) /\ CurrentOK(b)
        /\ listed[b] \subseteq Paths /\ records[b] \in [DOMAIN records[b] -> Record]
    BY BuilderFacts
  <2>2. p \in DOMAIN records[b] /\ DOMAIN records[b] \subseteq listed[b]
    BY <1>1, <1>2, <2>1 DEF Shape
  <2>3. p \in Paths /\ records[b][p].content \in Contents
    BY <2>1, <2>2 DEF Record
  <2>. QED
    BY <1>2, <2>1, <2>2, <2>3 DEF BlobsOK, Active
<1>4. PICK row : row = RowFor(b, p, records[b][p])
  OBVIOUS
<1>5. row \in Row /\ (p \in Calm => Agree(row.blob, row.content))
  BY <1>3, <1>4, RowForOK
<1>6. DOMAIN rows' \subseteq Paths /\ rows' \in [DOMAIN rows' -> Row] /\ RowsOK'
  BY <1>1, <1>2, <1>3, <1>4, <1>5, UpsertStep
<1>7. todo'[b] = todo[b] \ {p} /\ todo' \in [Builders -> SUBSET Paths]
      /\ \A c \in Builders \ {b} : todo'[c] = todo[c]
  BY <1>1, <1>3 DEF Typed
<1>8. Typed' /\ OthersKept(b)
  BY <1>2, <1>3, <1>6, <1>7 DEF Typed, OthersKept
<1>9. Shape(b)' /\ BlobsOK(b)'
  BY <1>2, <1>3, <1>7 DEF Shape, BlobsOK, Looking, Calm, Listing
<1>10. CurrentOK(b)'
  BY <1>2, <1>3, <1>7 DEF CurrentOK, Looking, Holds, Settled, IsDirty, Listing
<1>. QED
  BY <1>2, <1>6, <1>8, <1>9, <1>10, BuilderStep DEF BuilderOK

LEMMA FinishStep == ASSUME IndexInv, NEW b \in Builders, Finish(b) PROVE IndexInv'
<1>1. /\ phase[b] = "again" /\ dirty' = [dirty EXCEPT ![b] = {}]
      /\ oids' = [oids EXCEPT ![b] = [p \in Paths |-> Nothing]]
      /\ phase' = [phase EXCEPT ![b] = "done"]
      /\ UNCHANGED <<rows, version, listed, todo, at, raw, records, moved>>
      /\ UNCHANGED <<tree, snapshot, since, disturbed>> /\ UNCHANGED <<work, staged, head>>
  BY DEF Finish, Forget, Goto, tree, history
<1>2. Typed /\ RowsOK /\ Shape(b) /\ BlobsOK(b) /\ CurrentOK(b)
  BY BuilderFacts
<1>3. [p \in Paths |-> Nothing] \in Files
  BY DEF Files
<1>4. phase'[b] = "done"
  BY <1>1, <1>2 DEF Typed
<1>5. Typed'
  BY <1>1, <1>2, <1>3 DEF Typed, Resting
<1>6. RowsOK' /\ OthersKept(b)
  BY <1>1, <1>2 DEF Typed, RowsOK, Calm, OthersKept
<1>7. Shape(b)' /\ BlobsOK(b)'
  BY <1>1, <1>2, <1>4 DEF Shape, BlobsOK, Looking, Active, Listing
<1>8. CurrentOK(b)'
  BY <1>1, <1>2, <1>4 DEF CurrentOK, Looking, Holds, Settled, IsDirty, Active, Listing
<1>. QED
  BY <1>1, <1>5, <1>6, <1>7, <1>8, BuilderStep DEF BuilderOK

(* The server takes the records of a build that has ended, and remembers   *)
(* which files have changed since that build listed them.                  *)
LEMMA ServerStep == ASSUME IndexInv, NEW b \in Builders, StartServer(b) PROVE IndexInv'
<1>1. /\ phase[b] = "done" /\ snapshot' = records[b] /\ since' = moved[b]
      /\ UNCHANGED <<work, staged, head, rows, phase, version, listed, dirty, oids, todo, at, raw,
                     records, moved, disturbed>>
  BY DEF StartServer, RecordsOf, tree, building
<1>2. Typed /\ CurrentOK(b)
  BY BuilderFacts
<1>3. Typed'
  BY <1>1, <1>2 DEF Typed
<1>4. TreeOK' /\ RowsOK'
  BY <1>1 DEF IndexInv, TreeOK, RowsOK, Calm
<1>5. ServerOK'
  <2>1. \A p \in (Settled \cap DOMAIN records[b]) \ moved[b] :
          work[p] # Nothing /\ records[b][p].content = work[p]
    <3>1. SUFFICES ASSUME NEW p \in Settled, p \in DOMAIN records[b], p \notin moved[b]
                   PROVE  work[p] # Nothing /\ records[b][p].content = work[p]
      OBVIOUS
    <3>2. Holds(b, p)
      BY <1>2, <3>1 DEF CurrentOK, Settled
    <3>. QED
      BY <3>2 DEF Holds
  <2>2. Settled' = Settled
    BY <1>1 DEF Settled, IsDirty
  <2>. QED
    BY <1>1, <2>1, <2>2 DEF ServerOK
<1>6. ASSUME NEW c \in Builders PROVE BuilderOK(c)'
  BY <1>1 DEF IndexInv, BuilderOK, Shape, BlobsOK, CurrentOK, Looking, Calm, Holds, Settled, IsDirty
<1>. QED
  BY <1>3, <1>4, <1>5, <1>6 DEF IndexInv

LEMMA StutterStep == ASSUME IndexInv, UNCHANGED vars PROVE IndexInv'
<1>1. UNCHANGED <<work, rows, building, snapshot, history>> /\ UNCHANGED <<staged, head>>
  BY DEF vars, tree
<1>2. TreeOK' /\ staged' \in Files /\ head' \in Files /\ \A p \in Paths : IsDirty(p)' => IsDirty(p)
  BY <1>1 DEF IndexInv, Typed, TreeOK, Calm, IsDirty, history
<1>. QED
  BY <1>1, <1>2, GitStep

LEMMA NextIndex == ASSUME IndexInv, [Next]_vars PROVE IndexInv'
<1>1. ASSUME NEW b \in Builders, Build(b) PROVE IndexInv'
  BY <1>1, ListPathsStep, StatusStep, StagedBlobsStep, VisitStep, ReadFileStep, StoreRecordStep,
     SelectRowsStep, DeleteRowsStep, StoreAgainStep, FinishStep DEF Build
<1>. QED
  BY <1>1, DeveloperStep, ServerStep, StutterStep DEF Next

-----------------------------------------------------------------------------
(* The inductive invariant: what git, a row, a build and a record know of  *)
(* a calm file agrees, and what a build or the server has of a file that   *)
(* has not changed since is what the file holds.                           *)
THEOREM IndexInvariant == Spec => []IndexInv
BY InitIndex, NextIndex, PTL DEF Spec

(* The types.                                                              *)
THEOREM IndexTyped == Spec => []TypeOK
<1>1. IndexInv => TypeOK
  <2>1. ASSUME IndexInv, NEW b \in Builders
        PROVE  /\ phase[b] \in Resting \cup {"status", "oids", "visit", "read", "store", "remove", "again"}
               /\ version[b] \in Versions
               /\ todo[b] \subseteq Paths /\ listed[b] \subseteq Paths /\ dirty[b] \subseteq Paths
               /\ oids[b] \in Files
               /\ phase[b] \in {"read", "store"} => at[b] \in Paths
               /\ phase[b] = "store" => raw[b] \in Contents
               /\ DOMAIN records[b] \subseteq listed[b]
               /\ records[b] \in [DOMAIN records[b] -> Record]
    <3>1. Shape(b) /\ Typed
      BY <2>1, BuilderFacts
    <3>. QED
      BY <3>1 DEF Shape, Typed, Active, Listing, Looking
  <2>. QED
    BY <2>1 DEF IndexInv, Typed, TypeOK
<1>. QED
  BY <1>1, IndexInvariant, PTL

(* Records of settled files that did not change meanwhile are right when a *)
(* build has ended, whatever other processes build with whatever parsers,  *)
(* however often files are checked out, deleted and made anew, and however *)
(* late an older build stores its rows.                                    *)
THEOREM RecordsAreCurrent == Spec => []SettledAreCurrent
<1>1. IndexInv => SettledAreCurrent
  BY DEF IndexInv, BuilderOK, CurrentOK, Holds, Listing, SettledAreCurrent, CurrentFor, Settled
<1>. QED
  BY <1>1, IndexInvariant, PTL

(* The server does not refuse a settled file that has stayed as it was     *)
(* since its build listed it, unless read_text alters the content.         *)
THEOREM ServesUnchanged == Spec => []UnchangedIsServed
<1>1. IndexInv => UnchangedIsServed
  BY DEF IndexInv, ServerOK, UnchangedIsServed, Matches
<1>. QED
  BY <1>1, IndexInvariant, PTL
=============================================================================
