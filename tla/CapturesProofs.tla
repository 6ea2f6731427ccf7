---------------------------- MODULE CapturesProofs ----------------------------
(***************************************************************************)
(* Proofs about Captures, for any number of processes, captures, deaths    *)
(* and operations: what anybody finds at the path of a capture.            *)
(***************************************************************************)
EXTENDS Captures, TLAPS

Manifests == [state : {"missing", "torn", "whole"}, applied : BOOLEAN,
              digest : [Files -> Contents \cup {Unlisted}]]

Proc == [op : {"none", "verify", "delete", "redact", "write"},
         step : {"", "file", "cut", "write", "manifest", "remove", "artifact", "publish"},
         manifest : Manifests, todo : SUBSET Files, found : SUBSET (Files \cup {"manifest"}),
         born : Nat]

(* No redaction will find the raw content of a turn at the path.           *)
NotRaw(f) == capture = Nothing \/ capture.files[f] # "raw"

(* A directory at the path: content that its manifest does not list is not *)
(* raw, nor is any once the manifest says so.                              *)
BindingOK(d) ==
  \A f \in TurnFiles :
    /\ d.manifest.state = "whole" /\ d.manifest.digest[f] = Unlisted => d.files[f] # "raw"
    /\ d.manifest.applied => d.files[f] # "raw" /\ d.manifest.digest[f] \in {Unlisted, "redacted"}

WholeOK(d) == d.born = 0 \/ d.touched \/ Verifies(d)

CaptureOK == capture \in Directory
             /\ capture.born <= born /\ BindingOK(capture) /\ WholeOK(capture)

(* A redaction has done with what is no longer in its list.                *)
RedactOK(p) ==
  proc[p].op = "redact" =>
    /\ proc[p].step \in {"file", "cut", "write", "manifest"}
    /\ proc[p].todo \subseteq TurnFiles
    /\ \A f \in TurnFiles \ proc[p].todo :
         NotRaw(f) /\ proc[p].manifest.digest[f] \in {Unlisted, "redacted"}
    /\ proc[p].step \in {"cut", "write"} => proc[p].todo # {}
    /\ proc[p].step = "write" => NotRaw(First(proc[p].todo))
    /\ proc[p].step = "manifest" => proc[p].todo = {}

(* What a process has opened, it has touched.                              *)
OpenedOK(p) ==
  proc[p].op = "redact" /\ proc[p].step \in {"write", "manifest"} =>
    /\ proc[p].born <= born
    /\ capture # Nothing /\ capture.born = proc[p].born => capture.touched

(* The temporary directory, step by step.                                  *)
WithArtifact == [EmptyDirectory EXCEPT !.files["artifact"] = "redacted"]
AgentManifest ==
  Manifest("whole", TRUE, [f \in Files |-> IF f = "artifact" THEN "redacted" ELSE Unlisted])

WritingOK(p) ==
  proc[p].op = "write" =>
    \/ proc[p].step = "artifact" /\ temporary[p] = EmptyDirectory
    \/ proc[p].step = "manifest" /\ temporary[p] = WithArtifact
    \/ proc[p].step = "publish" /\ temporary[p] = [WithArtifact EXCEPT !.manifest = AgentManifest]

ProcOK(p) == RedactOK(p) /\ OpenedOK(p) /\ WritingOK(p)

TypesOK ==
  /\ born \in Nat
  /\ proc \in [Procs -> Proc]
  /\ temporary \in [Procs -> Directory \cup {Nothing}]

CapturesInv ==
  /\ TypesOK
  /\ capture # Nothing => CaptureOK
  /\ \A p \in Procs : ProcOK(p)

-----------------------------------------------------------------------------
(* How the path may change in a step: what is not raw stays so, and a      *)
(* capture stays the one it is unless a new one appears.                   *)
Evolves ==
  /\ born' \in Nat /\ born <= born'
  /\ \A f \in TurnFiles : NotRaw(f) => NotRaw(f)'
  /\ capture' # Nothing =>
       \/ capture'.born = born + 1
       \/ /\ capture # Nothing
          /\ capture'.born = capture.born
          /\ capture.touched => capture'.touched

LEMMA FirstFacts == ASSUME NEW S \in SUBSET Files, S # {} PROVE First(S) \in S
<1>1. \E f \in S : f = "request" \/ (f = "response" /\ "request" \notin S) \/ S = {f}
  BY DEF Files, TurnFiles
<1>. QED
  BY <1>1 DEF First

LEMMA IdleFacts == Idle \in Proc /\ Idle.op = "none"
BY DEF Idle, Proc, NoManifest, Manifest, Manifests, Unlisted, Files

LEMMA DirectoryFacts ==
  ASSUME NEW d \in Directory
  PROVE  /\ d.manifest \in Manifests /\ d.files \in [Files -> Contents \cup {"torn", "missing"}]
         /\ d.born \in Nat
BY DEF Directory, Manifests

(* Who takes no part in a step.                                            *)
LEMMA OthersOK ==
  ASSUME CapturesInv, Evolves, NEW q \in Procs, proc'[q] = proc[q], temporary'[q] = temporary[q]
  PROVE  ProcOK(q)'
<1>1. ProcOK(q) /\ born \in Nat /\ proc[q] \in Proc
  BY DEF CapturesInv, TypesOK
<1>2. RedactOK(q)'
  <2>1. ASSUME proc[q].op = "redact", proc[q].step = "write" PROVE NotRaw(First(proc[q].todo))'
    <3>1. /\ proc[q].todo \subseteq TurnFiles /\ proc[q].todo # {}
          /\ NotRaw(First(proc[q].todo))
      BY <1>1, <2>1 DEF ProcOK, RedactOK
    <3>2. First(proc[q].todo) \in TurnFiles
      BY <3>1, FirstFacts DEF Files
    <3>3. First(proc[q].todo)' = First(proc[q].todo)
      BY DEF First
    <3>. QED
      BY <3>1, <3>2, <3>3 DEF Evolves, NotRaw
  <2>. QED
    BY <1>1, <2>1 DEF ProcOK, RedactOK, Evolves
<1>3. OpenedOK(q)'
  <2>1. proc[q].born \in Nat
    BY <1>1 DEF Proc
  <2>. QED
    BY <1>1, <2>1 DEF ProcOK, OpenedOK, Evolves
<1>4. WritingOK(q)'
  BY <1>1 DEF ProcOK, WritingOK
<1>. QED
  BY <1>2, <1>3, <1>4 DEF ProcOK

LEMMA Together ==
  ASSUME CapturesInv, NEW p \in Procs, NEW s \in Proc, Evolves,
         Becomes(p, s), ProcOK(p)', capture' # Nothing => CaptureOK',
         \/ temporary' = temporary
         \/ \E d \in Directory \cup {Nothing} : temporary' = [temporary EXCEPT ![p] = d]
  PROVE  CapturesInv'
<1>1. TypesOK'
  BY DEF CapturesInv, TypesOK, Becomes, Evolves
<1>2. ASSUME NEW q \in Procs, q # p PROVE ProcOK(q)'
  <2>1. proc'[q] = proc[q] /\ temporary'[q] = temporary[q]
    BY <1>2 DEF CapturesInv, TypesOK, Becomes
  <2>. QED
    BY <2>1, OthersOK
<1>. QED
  BY <1>1, <1>2 DEF CapturesInv

(* Steps that change nothing at the path, and those that end a process's   *)
(* part.                                                                   *)
LEMMA PathSame ==
  ASSUME CapturesInv, capture' = capture, born' = born
  PROVE  Evolves /\ (capture' # Nothing => CaptureOK')
<1>1. Evolves
  BY DEF CapturesInv, TypesOK, CaptureOK, Evolves, NotRaw
<1>. QED
  BY <1>1 DEF CapturesInv, CaptureOK, BindingOK, WholeOK, Verifies, Matches

LEMMA StopStep ==
  ASSUME CapturesInv, NEW p \in Procs, Stop(p), Evolves, capture' # Nothing => CaptureOK',
         \/ temporary' = temporary
         \/ \E d \in Directory \cup {Nothing} : temporary' = [temporary EXCEPT ![p] = d]
  PROVE  CapturesInv'
<1>1. proc'[p].op = "none"
  BY IdleFacts DEF Stop, Becomes, CapturesInv, TypesOK
<1>2. ProcOK(p)'
  BY <1>1 DEF ProcOK, RedactOK, OpenedOK, WritingOK
<1>. QED
  BY <1>2, IdleFacts, Together DEF Stop

(* A redaction begins with what the manifest lists of the turns: the other *)
(* contents are not raw.                                                   *)
LEMMA LoadStep ==
  ASSUME CapturesInv, NEW p \in Procs, StartVerify(p) \/ StartDelete(p) \/ StartRedact(p)
  PROVE  CapturesInv'
<1> DEFINE Loaded(op, S) == [op |-> op, step |-> "file", manifest |-> capture.manifest,
                             todo |-> Listed(capture.manifest, S), found |-> {}, born |-> 0]
<1>1. capture # Nothing /\ capture' = capture /\ born' = born /\ temporary' = temporary
  BY DEF StartVerify, StartDelete, StartRedact, Load
<1>2. Evolves /\ (capture' # Nothing => CaptureOK')
  BY <1>1, PathSame
<1>3. CASE proc' = proc
  BY <1>1, <1>2, <1>3, OthersOK DEF CapturesInv, TypesOK, Evolves
<1>4. ASSUME NEW op \in {"verify", "delete", "redact"}, NEW S \in SUBSET Files,
             op = "redact" => S = TurnFiles /\ capture.manifest.state = "whole",
             Becomes(p, Loaded(op, S))
      PROVE  CapturesInv'
  <2>1. Loaded(op, S) \in Proc
    BY <1>1, <1>4, DirectoryFacts DEF CapturesInv, CaptureOK, Proc, Listed
  <2>2. proc'[p] = Loaded(op, S)
    BY <1>4 DEF Becomes, CapturesInv, TypesOK
  <2>3. op = "redact" => /\ Listed(capture.manifest, S) \subseteq TurnFiles
                         /\ \A f \in TurnFiles \ Listed(capture.manifest, S) :
                              NotRaw(f) /\ capture.manifest.digest[f] = Unlisted
    BY <1>1, <1>4 DEF CapturesInv, CaptureOK, BindingOK, NotRaw, Listed
  <2>4. RedactOK(p)'
    BY <1>1, <2>2, <2>3 DEF RedactOK, NotRaw
  <2>5. ProcOK(p)'
    BY <2>2, <2>4 DEF ProcOK, OpenedOK, WritingOK
  <2>. QED
    BY <1>1, <1>2, <1>4, <2>1, <2>5, Together
<1>5. \/ proc' = proc
      \/ Becomes(p, Loaded("verify", Files))
      \/ Becomes(p, Loaded("delete", Files))
      \/ Becomes(p, Loaded("redact", TurnFiles)) /\ capture.manifest.state = "whole"
  BY DEF StartVerify, StartDelete, StartRedact, Load
<1>. QED
  BY <1>3, <1>4, <1>5 DEF Files

(* Steps of a verification or of a deletion before it removes anything.    *)
LEMMA VerifyStep ==
  ASSUME CapturesInv, NEW p \in Procs, VerifyFile(p) \/ Verified(p) \/ StartRemoval(p)
  PROVE  CapturesInv'
<1>1. capture' = capture /\ born' = born /\ temporary' = temporary
      /\ proc[p].op \in {"verify", "delete"} /\ proc[p] \in Proc
  BY DEF VerifyFile, Verified, StartRemoval, At, CapturesInv, TypesOK
<1>2. Evolves /\ (capture' # Nothing => CaptureOK')
  BY <1>1, PathSame
<1>3. CASE Stop(p)
  BY <1>1, <1>2, <1>3, StopStep
<1>4. ASSUME NEW s \in Proc, Becomes(p, s), s.op \in {"verify", "delete"} PROVE CapturesInv'
  <2>1. proc'[p].op \in {"verify", "delete"}
    BY <1>4 DEF Becomes, CapturesInv, TypesOK
  <2>2. ProcOK(p)'
    BY <2>1 DEF ProcOK, RedactOK, OpenedOK, WritingOK
  <2>. QED
    BY <1>1, <1>2, <1>4, <2>2, Together
<1>5. CASE VerifyFile(p)
  BY <1>1, <1>3, <1>4, <1>5 DEF VerifyFile, Proc
<1>6. CASE StartRemoval(p)
  BY <1>1, <1>3, <1>4, <1>6, DirectoryFacts DEF StartRemoval, Proc, Entries, CapturesInv, CaptureOK
<1>. QED
  BY <1>3, <1>5, <1>6 DEF Verified

-----------------------------------------------------------------------------
(* The steps of a redaction.                                               *)
LEMMA RedactFacts ==
  ASSUME CapturesInv, NEW p \in Procs, proc[p].op = "redact"
  PROVE  /\ proc[p] \in Proc /\ proc[p].manifest \in Manifests /\ proc[p].todo \subseteq TurnFiles
         /\ proc[p].todo # {} => First(proc[p].todo) \in TurnFiles
         /\ RedactOK(p) /\ OpenedOK(p) /\ born \in Nat
         /\ capture # Nothing => CaptureOK
<1>1. proc[p] \in Proc /\ ProcOK(p)
  BY DEF CapturesInv, TypesOK
<1>2. proc[p].todo \subseteq TurnFiles
  BY <1>1 DEF ProcOK, RedactOK
<1>. QED
  BY <1>1, <1>2, FirstFacts DEF CapturesInv, TypesOK, ProcOK, Files, Proc

LEMMA ReadContentStep ==
  ASSUME CapturesInv, NEW p \in Procs, ReadContent(p)
  PROVE  CapturesInv'
<1>1. capture' = capture /\ born' = born /\ temporary' = temporary
      /\ proc[p].op = "redact" /\ proc[p].todo # {}
  BY DEF ReadContent, At
<1>2. Evolves /\ (capture' # Nothing => CaptureOK')
  BY <1>1, PathSame
<1>3. CASE Stop(p)
  BY <1>1, <1>2, <1>3, StopStep
<1>4. CASE Becomes(p, [proc[p] EXCEPT !.step = "cut"])
  <2> DEFINE s == [proc[p] EXCEPT !.step = "cut"]
  <2>1. s \in Proc /\ s.op = "redact" /\ s.step = "cut" /\ s.todo = proc[p].todo
        /\ s.manifest = proc[p].manifest
    BY <1>1, RedactFacts DEF Proc
  <2>2. proc'[p] = s
    BY <1>4 DEF Becomes, CapturesInv, TypesOK
  <2>3. ProcOK(p)'
    BY <1>1, <2>1, <2>2, RedactFacts DEF ProcOK, RedactOK, OpenedOK, WritingOK, NotRaw
  <2>. QED
    BY <1>1, <1>2, <1>4, <2>1, <2>3, Together
<1>. QED
  BY <1>3, <1>4 DEF ReadContent

LEMMA CutFileStep ==
  ASSUME CapturesInv, NEW p \in Procs, CutFile(p)
  PROVE  CapturesInv'
<1>0. PICK f : f = First(proc[p].todo)
  OBVIOUS
<1>1. born' = born /\ temporary' = temporary
      /\ proc[p].op = "redact" /\ proc[p].step = "cut"
  BY DEF CutFile, At
<1>2. CASE capture = Nothing
  BY <1>1, <1>2, PathSame, StopStep DEF CutFile
<1>3. CASE capture # Nothing
  <2> DEFINE s == [proc[p] EXCEPT !.step = "write", !.born = capture.born]
  <2>1. capture' = [capture EXCEPT !.files[f] = "torn", !.touched = TRUE] /\ Becomes(p, s)
    BY <1>0, <1>3 DEF CutFile
  <2>2. proc[p].todo # {} /\ f \in TurnFiles /\ f \in Files /\ CaptureOK /\ capture \in Directory
        /\ born \in Nat
    BY <1>0, <1>1, <1>3, RedactFacts DEF RedactOK, CaptureOK, Files
  <2>3. /\ capture' \in Directory /\ capture'.born = capture.born /\ capture'.touched
        /\ capture'.manifest = capture.manifest /\ capture'.files[f] = "torn"
        /\ \A g \in TurnFiles : capture'.files[g] # "raw" \/ capture'.files[g] = capture.files[g]
    BY <2>1, <2>2 DEF Directory, Files
  <2>4. CaptureOK'
    BY <1>1, <2>2, <2>3 DEF CaptureOK, BindingOK, WholeOK
  <2>5. Evolves
    BY <1>1, <1>3, <2>2, <2>3 DEF Evolves, NotRaw
  <2>6. s \in Proc /\ s.op = "redact" /\ s.step = "write" /\ s.todo = proc[p].todo
        /\ s.manifest = proc[p].manifest /\ s.born = capture.born
    BY <1>1, <2>2, RedactFacts, DirectoryFacts DEF Proc
  <2>7. proc'[p] = s
    BY <2>1 DEF Becomes, CapturesInv, TypesOK
  <2>8. RedactOK(p)'
    <3>1. \A g \in TurnFiles : NotRaw(g) => NotRaw(g)'
      BY <2>5 DEF Evolves
    <3>2. NotRaw(f)'
      BY <2>3 DEF NotRaw
    <3>3. First(proc'[p].todo) = f
      BY <1>0, <2>6, <2>7
    <3>4. NotRaw(First(proc[p].todo))'
      BY <3>2, <3>3 DEF NotRaw, First
    <3>. QED
      BY <1>1, <2>2, <2>6, <2>7, <3>1, <3>4, RedactFacts DEF RedactOK
  <2>9. ProcOK(p)'
    BY <1>1, <2>2, <2>3, <2>6, <2>7, <2>8 DEF ProcOK, OpenedOK, WritingOK, CaptureOK
  <2>. QED
    BY <1>1, <2>1, <2>4, <2>5, <2>6, <2>9, Together
<1>. QED
  BY <1>2, <1>3

LEMMA WriteFileStep ==
  ASSUME CapturesInv, NEW p \in Procs, WriteFile(p)
  PROVE  CapturesInv'
<1>0. PICK f : f = First(proc[p].todo)
  OBVIOUS
<1> DEFINE there == /\ capture # Nothing /\ capture.born = proc[p].born
                    /\ capture.files[f] # "missing"
           s == [proc[p] EXCEPT !.step = "file", !.todo = @ \ {f},
                   !.manifest = NewDigest(@, f)]
<1>1. born' = born /\ temporary' = temporary /\ Becomes(p, s)
      /\ proc[p].op = "redact" /\ proc[p].step = "write"
      /\ capture' = IF there THEN [capture EXCEPT !.files[f] = "redacted"] ELSE capture
  BY <1>0 DEF WriteFile, At
<1>2. proc[p].todo # {} /\ f \in TurnFiles /\ f \in Files /\ NotRaw(f) /\ born \in Nat
  BY <1>0, <1>1, RedactFacts DEF RedactOK, Files
<1>3. /\ s \in Proc /\ s.op = "redact" /\ s.step = "file" /\ s.todo = proc[p].todo \ {f}
      /\ s.manifest.digest = [proc[p].manifest.digest EXCEPT ![f] = "redacted"]
  <2> DEFINE m == NewDigest(proc[p].manifest, f)
  <2>1. proc[p].manifest \in Manifests /\ proc[p] \in Proc
    BY <1>1, RedactFacts
  <2>2. /\ m \in Manifests
        /\ m.digest = [proc[p].manifest.digest EXCEPT ![f] = "redacted"]
    BY <1>2, <2>1 DEF Manifests, NewDigest, Contents
  <2>3. s = [proc[p] EXCEPT !.step = "file", !.todo = proc[p].todo \ {f}, !.manifest = m]
    BY <2>1 DEF Proc
  <2> HIDE DEF m
  <2>4. s \in Proc /\ s.manifest = m
    BY <1>1, <2>1, <2>2, <2>3 DEF Proc
  <2>. QED
    BY <1>1, <2>1, <2>2, <2>3, <2>4 DEF Proc
<1>4. proc'[p] = s
  BY <1>1 DEF Becomes, CapturesInv, TypesOK
<1>5. Evolves /\ (capture' # Nothing => CaptureOK') /\ NotRaw(f)'
  <2>1. CASE there
    <3>1. /\ capture \in Directory /\ CaptureOK /\ capture.touched
      BY <1>1, <2>1, RedactFacts DEF CaptureOK, OpenedOK
    <3>2. /\ capture' \in Directory /\ capture'.born = capture.born
          /\ capture'.touched = capture.touched
          /\ capture'.manifest = capture.manifest /\ capture'.files[f] = "redacted"
          /\ \A g \in TurnFiles : capture'.files[g] # "raw" \/ capture'.files[g] = capture.files[g]
      BY <1>1, <1>2, <2>1, <3>1 DEF Directory, Files, Contents
    <3>3. CaptureOK'
      BY <1>1, <3>1, <3>2 DEF CaptureOK, BindingOK, WholeOK
    <3>. QED
      BY <1>1, <1>2, <2>1, <3>2, <3>3 DEF Evolves, NotRaw
  <2>2. CASE ~there
    BY <1>1, <1>2, <2>2, PathSame DEF NotRaw
  <2>. QED
    BY <2>1, <2>2
<1>6. RedactOK(p)'
  <2>1. \A g \in TurnFiles \ s.todo :
          NotRaw(g)' /\ s.manifest.digest[g] \in {Unlisted, "redacted"}
    <3>1. ASSUME NEW g \in TurnFiles \ s.todo
          PROVE  NotRaw(g)' /\ s.manifest.digest[g] \in {Unlisted, "redacted"}
      <4>1. f \in DOMAIN proc[p].manifest.digest /\ g \in DOMAIN proc[p].manifest.digest
        BY <1>1, <1>2, RedactFacts DEF Manifests, Files
      <4>2. CASE g = f
        BY <1>3, <1>5, <4>1, <4>2
      <4>3. CASE g # f
        <5>1. NotRaw(g) /\ proc[p].manifest.digest[g] \in {Unlisted, "redacted"}
          BY <1>1, <1>3, <4>3, RedactFacts DEF RedactOK
        <5>. QED
          BY <1>3, <1>5, <4>1, <4>3, <5>1 DEF Evolves
      <4>. QED
        BY <4>2, <4>3
    <3>. QED
      BY <3>1
  <2>. QED
    BY <1>1, <1>3, <1>4, <2>1, RedactFacts DEF RedactOK
<1>7. ProcOK(p)'
  BY <1>3, <1>4, <1>6 DEF ProcOK, OpenedOK, WritingOK
<1>. QED
  BY <1>1, <1>3, <1>5, <1>7, Together

LEMMA CutManifestStep ==
  ASSUME CapturesInv, NEW p \in Procs, CutManifest(p)
  PROVE  CapturesInv'
<1>1. born' = born /\ temporary' = temporary
      /\ proc[p].op = "redact" /\ proc[p].step = "file" /\ proc[p].todo = {}
  BY DEF CutManifest, At
<1>2. CASE capture = Nothing
  BY <1>1, <1>2, PathSame, StopStep DEF CutManifest
<1>3. CASE capture # Nothing
  <2> DEFINE s == [proc[p] EXCEPT !.step = "manifest", !.born = capture.born]
             m == Manifest("torn", FALSE, NoManifest.digest)
  <2>1. capture' = [capture EXCEPT !.manifest = m, !.touched = TRUE] /\ Becomes(p, s)
    BY <1>3 DEF CutManifest
  <2>2. CaptureOK /\ capture \in Directory /\ born \in Nat
    BY <1>1, <1>3, RedactFacts DEF CaptureOK
  <2>3. /\ m.state = "torn" /\ m.applied = FALSE /\ m \in Manifests
    BY DEF Manifest, NoManifest, Manifests
  <2>4. /\ capture' \in Directory /\ capture'.born = capture.born /\ capture'.touched
        /\ capture'.manifest = m /\ capture'.files = capture.files
    BY <2>1, <2>2, <2>3 DEF Directory, Manifests
  <2>5. CaptureOK'
    BY <1>1, <2>2, <2>3, <2>4 DEF CaptureOK, BindingOK, WholeOK
  <2>6. Evolves
    BY <1>1, <1>3, <2>2, <2>4 DEF Evolves, NotRaw
  <2>7. s \in Proc /\ s.op = "redact" /\ s.step = "manifest" /\ s.todo = proc[p].todo
        /\ s.manifest = proc[p].manifest /\ s.born = capture.born
    BY <1>1, <2>2, RedactFacts, DirectoryFacts DEF Proc
  <2>8. proc'[p] = s
    BY <2>1 DEF Becomes, CapturesInv, TypesOK
  <2>9. ProcOK(p)'
    BY <1>1, <2>2, <2>4, <2>6, <2>7, <2>8, RedactFacts
       DEF ProcOK, RedactOK, OpenedOK, WritingOK, CaptureOK, Evolves
  <2>. QED
    BY <1>1, <2>1, <2>5, <2>6, <2>7, <2>9, Together
<1>. QED
  BY <1>2, <1>3

(* The manifest claims redaction when every content it lists is redacted.  *)
LEMMA WriteManifestStep ==
  ASSUME CapturesInv, NEW p \in Procs, WriteManifest(p)
  PROVE  CapturesInv'
<1> DEFINE there == /\ capture # Nothing /\ capture.born = proc[p].born
                    /\ capture.manifest.state # "missing"
           m == [proc[p].manifest EXCEPT !.applied = TRUE]
<1>1. born' = born /\ temporary' = temporary /\ Stop(p)
      /\ proc[p].op = "redact" /\ proc[p].step = "manifest"
      /\ capture' = IF there THEN [capture EXCEPT !.manifest = m] ELSE capture
  BY DEF WriteManifest, At
<1>2. CASE there
  <2>1. /\ CaptureOK /\ capture \in Directory /\ capture.touched /\ proc[p].todo = {}
        /\ born \in Nat
    BY <1>1, <1>2, RedactFacts DEF CaptureOK, OpenedOK, RedactOK
  <2>2. \A f \in TurnFiles : /\ capture.files[f] # "raw"
                            /\ proc[p].manifest.digest[f] \in {Unlisted, "redacted"}
    BY <1>1, <1>2, <2>1, RedactFacts DEF RedactOK, NotRaw
  <2>3. m \in Manifests /\ m.digest = proc[p].manifest.digest
    BY <1>1, RedactFacts DEF Manifests
  <2>4. /\ capture' \in Directory /\ capture'.born = capture.born
        /\ capture'.touched = capture.touched
        /\ capture'.manifest = m /\ capture'.files = capture.files
    BY <1>1, <1>2, <2>1, <2>3 DEF Directory, Manifests
  <2>5. CaptureOK'
    BY <1>1, <2>1, <2>2, <2>3, <2>4 DEF CaptureOK, BindingOK, WholeOK
  <2>6. Evolves
    BY <1>1, <1>2, <2>1, <2>4 DEF Evolves, NotRaw
  <2>. QED
    BY <1>1, <2>5, <2>6, StopStep
<1>3. CASE ~there
  BY <1>1, <1>3, PathSame, StopStep
<1>. QED
  BY <1>2, <1>3

-----------------------------------------------------------------------------
(* The steps of a removal.                                                 *)
LEMMA RemoveEntryStep ==
  ASSUME CapturesInv, NEW p \in Procs, RemoveEntry(p)
  PROVE  CapturesInv'
<1>1. born' = born /\ temporary' = temporary /\ proc[p].op = "delete" /\ proc[p] \in Proc
      /\ born \in Nat
  BY DEF RemoveEntry, At, CapturesInv, TypesOK
<1>2. PICK entry \in proc[p].found :
        IF capture # Nothing /\ capture.born = proc[p].born /\ entry \in Entries(capture)
        THEN /\ capture' = Without(capture, entry)
             /\ Becomes(p, [proc[p] EXCEPT !.found = @ \ {entry}])
        ELSE Stop(p) /\ UNCHANGED capture
  BY DEF RemoveEntry
<1>3. CASE capture # Nothing /\ capture.born = proc[p].born /\ entry \in Entries(capture)
  <2>1. CaptureOK /\ capture \in Directory
    BY <1>3 DEF CapturesInv, CaptureOK
  <2>2. /\ capture' \in Directory /\ capture'.born = capture.born /\ capture'.touched
        /\ \/ capture'.manifest = NoManifest /\ capture'.files = capture.files
           \/ /\ capture'.manifest = capture.manifest
              /\ \A f \in TurnFiles :
                   capture'.files[f] = capture.files[f] \/ capture'.files[f] = "missing"
    <3>1. CASE entry = "manifest"
      <4>1. NoManifest \in Manifests
        BY DEF NoManifest, Manifest, Manifests
      <4>. QED
        <5>1. capture' = [capture EXCEPT !.manifest = NoManifest, !.touched = TRUE]
          BY <1>2, <1>3, <3>1 DEF Without
        <5>. QED
          BY <2>1, <4>1, <5>1 DEF Directory, Manifests
    <3>2. CASE entry # "manifest"
      <4>1. entry \in Files
        BY <1>3, <3>2 DEF Entries
      <4>2. capture' = [capture EXCEPT !.files[entry] = "missing", !.touched = TRUE]
        BY <1>2, <1>3, <3>2 DEF Without
      <4>3. capture'.files = [capture.files EXCEPT ![entry] = "missing"]
        BY <2>1, <4>2 DEF Directory
      <4>. QED
        BY <2>1, <4>1, <4>2, <4>3 DEF Directory, Files
    <3>. QED
      BY <3>1, <3>2
  <2>3. NoManifest.state = "missing" /\ NoManifest.applied = FALSE
    BY DEF NoManifest, Manifest
  <2>4. CaptureOK'
    BY <1>1, <2>1, <2>2, <2>3 DEF CaptureOK, BindingOK, WholeOK
  <2>5. Evolves
    BY <1>1, <1>3, <2>2 DEF Evolves, NotRaw
  <2> DEFINE s == [proc[p] EXCEPT !.found = @ \ {entry}]
  <2>6. s \in Proc /\ s.op = "delete"
    BY <1>1 DEF Proc
  <2>7. Becomes(p, s)
    BY <1>2, <1>3
  <2>8. proc'[p].op = "delete"
    BY <2>6, <2>7 DEF Becomes, CapturesInv, TypesOK
  <2>9. ProcOK(p)'
    BY <2>8 DEF ProcOK, RedactOK, OpenedOK, WritingOK
  <2>. QED
    BY <1>1, <2>4, <2>5, <2>6, <2>7, <2>9, Together
<1>4. CASE ~(capture # Nothing /\ capture.born = proc[p].born /\ entry \in Entries(capture))
  BY <1>1, <1>2, <1>4, PathSame, StopStep
<1>. QED
  BY <1>3, <1>4

LEMMA RemoveDirectoryStep ==
  ASSUME CapturesInv, NEW p \in Procs, RemoveDirectory(p)
  PROVE  CapturesInv'
<1>1. /\ born' = born /\ temporary' = temporary /\ Stop(p)
      /\ capture' = Nothing \/ capture' = capture
  BY DEF RemoveDirectory
<1>2. Evolves /\ (capture' # Nothing => CaptureOK')
  <2>1. CASE capture' = Nothing
    BY <1>1, <2>1 DEF Evolves, NotRaw, CapturesInv, TypesOK
  <2>. QED
    BY <1>1, <2>1, PathSame
<1>. QED
  BY <1>1, <1>2, StopStep

-----------------------------------------------------------------------------
(* The steps of a writer.                                                  *)
LEMMA StagedFacts ==
  /\ EmptyDirectory \in Directory /\ WithArtifact \in Directory
  /\ [WithArtifact EXCEPT !.manifest = AgentManifest] \in Directory
  /\ AgentManifest \in Manifests
<1>1. "artifact" \in Files
  BY DEF Files
<1>2. EmptyDirectory \in Directory
  BY DEF EmptyDirectory, Directory, NoManifest, Manifest
<1>3. WithArtifact \in Directory
  BY <1>1, <1>2 DEF WithArtifact, Directory, Contents
<1>4. AgentManifest \in Manifests
  BY DEF AgentManifest, Manifest, Manifests, Contents
<1>. QED
  BY <1>2, <1>3, <1>4 DEF Directory, Manifests

LEMMA StagingStep ==
  ASSUME CapturesInv, NEW p \in Procs, StartWrite(p) \/ WriteArtifact(p) \/ WriteAgentManifest(p)
  PROVE  CapturesInv'
<1>1. capture' = capture /\ born' = born /\ proc[p] \in Proc
  BY DEF StartWrite, WriteArtifact, WriteAgentManifest, CapturesInv, TypesOK
<1>2. Evolves /\ (capture' # Nothing => CaptureOK')
  BY <1>1, PathSame
<1>3. ASSUME NEW s \in Proc, NEW d \in Directory, s.op = "write",
             \/ s.step = "artifact" /\ d = EmptyDirectory
             \/ s.step = "manifest" /\ d = WithArtifact
             \/ s.step = "publish" /\ d = [WithArtifact EXCEPT !.manifest = AgentManifest],
             Becomes(p, s), temporary' = [temporary EXCEPT ![p] = d]
      PROVE  CapturesInv'
  <2>1. proc'[p] = s /\ temporary'[p] = d
    BY <1>3 DEF Becomes, CapturesInv, TypesOK
  <2>2. ProcOK(p)'
    BY <1>3, <2>1 DEF ProcOK, RedactOK, OpenedOK, WritingOK
  <2>. QED
    BY <1>2, <1>3, <2>2, Together
<1>4. CASE StartWrite(p)
  <2> DEFINE s == [Idle EXCEPT !.op = "write", !.step = "artifact"]
  <2>1. s \in Proc /\ s.op = "write" /\ s.step = "artifact"
    BY IdleFacts DEF Proc
  <2>. QED
    BY <1>3, <1>4, <2>1, StagedFacts DEF StartWrite
<1>5. CASE WriteArtifact(p)
  <2> DEFINE s == [proc[p] EXCEPT !.step = "manifest"]
  <2>1. temporary[p] = EmptyDirectory
    BY <1>5 DEF WriteArtifact, At, CapturesInv, ProcOK, WritingOK
  <2>2. temporary' = [temporary EXCEPT ![p] = WithArtifact] /\ Becomes(p, s)
    BY <1>5, <2>1 DEF WriteArtifact, WithArtifact, NextStep, CapturesInv, TypesOK
  <2>3. s \in Proc /\ s.op = "write" /\ s.step = "manifest"
    BY <1>1, <1>5 DEF Proc, WriteArtifact, At
  <2>. QED
    BY <1>3, <2>2, <2>3, StagedFacts
<1>6. CASE WriteAgentManifest(p)
  <2> DEFINE s == [proc[p] EXCEPT !.step = "publish"]
  <2>1. temporary[p] = WithArtifact
    BY <1>6 DEF WriteAgentManifest, At, CapturesInv, ProcOK, WritingOK
  <2>2. /\ temporary' = [temporary EXCEPT ![p] = [WithArtifact EXCEPT !.manifest = AgentManifest]]
        /\ Becomes(p, s)
    BY <1>6, <2>1 DEF WriteAgentManifest, AgentManifest, NextStep, CapturesInv, TypesOK
  <2>3. s \in Proc /\ s.op = "write" /\ s.step = "publish"
    BY <1>1, <1>6 DEF Proc, WriteAgentManifest, At
  <2>. QED
    BY <1>3, <2>2, <2>3, StagedFacts
<1>. QED
  BY <1>4, <1>5, <1>6

(* A capture takes the path when it is complete.                           *)
LEMMA PublishStep ==
  ASSUME CapturesInv, NEW p \in Procs, Publish(p)
  PROVE  CapturesInv'
<1> DEFINE d == [WithArtifact EXCEPT !.manifest = AgentManifest]
<1>1. temporary[p] = d /\ born \in Nat
  BY DEF Publish, At, CapturesInv, TypesOK, ProcOK, WritingOK
<1>2. capture' = [d EXCEPT !.born = born + 1] /\ born' = born + 1 /\ Stop(p)
      /\ temporary' = [temporary EXCEPT ![p] = Nothing]
  BY <1>1 DEF Publish
<1>3. /\ d \in Directory /\ d.manifest = AgentManifest /\ d.files = WithArtifact.files
      /\ d.files = [f \in Files |-> IF f = "artifact" THEN "redacted" ELSE "missing"]
  <2>1. WithArtifact.files = [f \in Files |-> IF f = "artifact" THEN "redacted" ELSE "missing"]
    BY DEF WithArtifact, EmptyDirectory
  <2>. QED
    BY <2>1, StagedFacts DEF Directory
<1> HIDE DEF d
<1>4. /\ capture' \in Directory /\ capture'.born = born + 1
      /\ capture'.manifest = AgentManifest /\ capture'.files = d.files
  BY <1>1, <1>2, <1>3 DEF Directory
<1>5. /\ AgentManifest.state = "whole"
      /\ AgentManifest.digest = [f \in Files |-> IF f = "artifact" THEN "redacted" ELSE Unlisted]
  BY DEF AgentManifest, Manifest
<1>6. Verifies(capture)'
  BY <1>3, <1>4, <1>5 DEF Verifies, Matches
<1>7. BindingOK(capture)' /\ \A f \in TurnFiles : NotRaw(f)'
  BY <1>3, <1>4, <1>5 DEF BindingOK, NotRaw, TurnFiles, Files
<1>8. CaptureOK'
  BY <1>1, <1>2, <1>4, <1>6, <1>7 DEF CaptureOK, WholeOK
<1>9. Evolves
  BY <1>1, <1>2, <1>4, <1>7 DEF Evolves
<1>. QED
  BY <1>2, <1>8, <1>9, StopStep

LEMMA GoneStep ==
  ASSUME CapturesInv, NEW p \in Procs, FailWrite(p) \/ Die(p)
  PROVE  CapturesInv'
<1>1. capture' = capture /\ born' = born /\ Stop(p)
      /\ temporary' = [temporary EXCEPT ![p] = Nothing]
  BY DEF FailWrite, Die
<1>. QED
  BY <1>1, PathSame, StopStep

-----------------------------------------------------------------------------
LEMMA InitCaptures == ASSUME Init PROVE CapturesInv
<1>1. TypesOK
  BY IdleFacts DEF Init, TypesOK
<1>2. capture # Nothing => CaptureOK
  <2>1. Imported \in Directory
    BY DEF Imported, Directory, Manifest, Contents
  <2>2. BindingOK(Imported) /\ WholeOK(Imported)
    BY DEF Imported, BindingOK, WholeOK, Manifest, TurnFiles, Files, Unlisted
  <2>3. Imported.born = 0
    BY DEF Imported
  <2>. QED
    BY <2>1, <2>2, <2>3 DEF Init, CaptureOK
<1>3. \A p \in Procs : ProcOK(p)
  BY IdleFacts DEF Init, ProcOK, RedactOK, OpenedOK, WritingOK
<1>. QED
  BY <1>1, <1>2, <1>3 DEF CapturesInv

LEMMA NextCaptures == ASSUME CapturesInv, [Next]_vars PROVE CapturesInv'
<1>1. CASE UNCHANGED vars
  BY <1>1, PathSame, OthersOK DEF CapturesInv, TypesOK, vars
<1>2. ASSUME NEW p \in Procs, Step(p) PROVE CapturesInv'
  BY <1>2, LoadStep, VerifyStep, ReadContentStep, CutFileStep, WriteFileStep, CutManifestStep,
     WriteManifestStep, RemoveEntryStep, RemoveDirectoryStep, StagingStep, PublishStep, GoneStep
     DEF Step
<1>. QED
  BY <1>1, <1>2 DEF Next

THEOREM CapturesInvariant == Spec => []CapturesInv
BY InitCaptures, NextCaptures, PTL DEF Spec

(* Nobody finds a part of a capture that an evaluation wrote.              *)
THEOREM CapturesAppearWhole == Spec => []AppearsWhole
<1>1. CapturesInv => AppearsWhole
  BY DEF CapturesInv, CaptureOK, WholeOK, AppearsWhole
<1>. QED
  BY <1>1, CapturesInvariant, PTL

(* A manifest that claims redaction is true of every content it binds,     *)
(* though processes redact, delete and write at the same path and die.     *)
THEOREM ClaimsAreTrue == Spec => []RedactionIsBound
<1>1. CapturesInv => RedactionIsBound
  <2> SUFFICES ASSUME CapturesInv, capture # Nothing, capture.manifest.applied, NEW f \in TurnFiles
               PROVE  \/ capture.files[f] \in {"torn", "missing"}
                      \/ /\ capture.files[f] = "redacted"
                         /\ Matches(capture, capture.manifest.digest, f)
    BY DEF RedactionIsBound
  <2>1. capture \in Directory /\ capture.files[f] # "raw"
        /\ capture.manifest.digest[f] \in {Unlisted, "redacted"}
    BY DEF CapturesInv, CaptureOK, BindingOK
  <2>2. capture.files[f] \in {"redacted", "torn", "missing"}
    BY <2>1 DEF Directory, Files, Contents
  <2>. QED
    BY <2>1, <2>2 DEF Matches
<1>. QED
  BY <1>1, CapturesInvariant, PTL
=============================================================================
