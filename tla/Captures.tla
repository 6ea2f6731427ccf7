------------------------------- MODULE Captures -------------------------------
(***************************************************************************)
(* Captures (captures.py) at one path: a directory with a manifest that    *)
(* binds every file it lists by a digest.  Processes verify, redact and    *)
(* delete the capture, and write a new one (write_agent_capture), file by  *)
(* file, and may die between any two steps; a write_text that is cut short *)
(* leaves an empty file.                                                   *)
(*                                                                         *)
(* A definition marked "slip" is a mistake the properties have to catch;   *)
(* the definition after it is the code.                                    *)
(***************************************************************************)
EXTENDS Naturals, FiniteSets

CONSTANTS Procs,          \* processes
          Nothing,        \* no directory
          MaxCaptures,    \* bound: captures written
          MaxOperations,  \* bound: operations begun
          MaxCrashes      \* bound: deaths

ASSUME CapturesAssumption ==
  /\ MaxCaptures \in Nat
  /\ MaxOperations \in Nat
  /\ MaxCrashes \in Nat

(* The files of a capture: contents of turns, and an artifact.             *)
TurnFiles == {"request", "response"}
Files == TurnFiles \cup {"artifact"}

Contents == {"raw", "redacted"}

(* A directory: each file has a content, is "torn" or "missing"; so is the *)
(* manifest, or it is "whole" with the digests of the files it lists.      *)
Unlisted == "none"
Manifest(state, applied, digest) == [state |-> state, applied |-> applied, digest |-> digest]
NoManifest == Manifest("missing", FALSE, [f \in Files |-> Unlisted])

Imported ==
  [born |-> 0, touched |-> FALSE,
   files |-> [f \in Files |-> IF f \in TurnFiles THEN "raw" ELSE "missing"],
   manifest |-> Manifest("whole", FALSE,
                         [f \in Files |-> IF f \in TurnFiles THEN "raw" ELSE Unlisted])]

EmptyDirectory ==
  [born |-> 0, touched |-> FALSE, files |-> [f \in Files |-> "missing"], manifest |-> NoManifest]

IsEmpty(d) == d.manifest.state = "missing" /\ \A f \in Files : d.files[f] = "missing"

Matches(d, digest, f) == digest[f] \in {Unlisted, d.files[f]}

Verifies(d) == d.manifest.state = "whole" /\ \A f \in Files : Matches(d, d.manifest.digest, f)

VARIABLES capture,     \* the directory at the path, or Nothing
          proc,        \* what each process is doing
          temporary,   \* the temporary directory of each process that writes
          orphans,     \* temporary directories that nobody will remove
          born,        \* captures written
          operations,  \* operations begun
          crashes

vars == <<capture, proc, temporary, orphans, born, operations, crashes>>

Idle == [op |-> "none", step |-> "", manifest |-> NoManifest, todo |-> {}, found |-> {},
         born |-> 0]

Init ==
  /\ capture \in {Nothing, Imported}
  /\ proc = [p \in Procs |-> Idle]
  /\ temporary = [p \in Procs |-> Nothing]
  /\ orphans = 0
  /\ born = 0
  /\ operations = 0
  /\ crashes = 0

Becomes(p, state) == proc' = [proc EXCEPT ![p] = state]
Stop(p) == Becomes(p, Idle)    \* it has returned or raised

Replaceable == IF capture = Nothing THEN TRUE ELSE IsEmpty(capture)

At(p, op, step) == proc[p].op = op /\ proc[p].step = step

-----------------------------------------------------------------------------
(* load_capture, with which every operation on a capture begins.           *)
Listed(manifest, S) == {f \in S : manifest.digest[f] # Unlisted}

(* Files are gone through in the order of the manifest.                    *)
First(S) == CHOOSE f \in S : \/ f = "request"
                             \/ f = "response" /\ "request" \notin S
                             \/ S = {f}

Load(p, op, S) ==
  /\ proc[p] = Idle
  /\ operations < MaxOperations
  /\ operations' = operations + 1
  /\ capture # Nothing
  /\ IF capture.manifest.state # "whole" THEN UNCHANGED proc
     ELSE Becomes(p, [op |-> op, step |-> "file", manifest |-> capture.manifest,
                      todo |-> Listed(capture.manifest, S), found |-> {}, born |-> 0])
  /\ UNCHANGED <<capture, temporary, orphans, born, crashes>>

StartVerify(p) == Load(p, "verify", Files)
StartDelete(p) == Load(p, "delete", Files)
StartRedact(p) == Load(p, "redact", TurnFiles)

(* verify_capture, of its own or before a deletion: the next file.         *)
VerifyFile(p) ==
  /\ proc[p].op \in {"verify", "delete"}
  /\ proc[p].step = "file"
  /\ proc[p].todo # {}
  /\ IF capture # Nothing /\ Matches(capture, proc[p].manifest.digest, First(proc[p].todo))
     THEN Becomes(p, [proc[p] EXCEPT !.todo = @ \ {First(@)}])
     ELSE Stop(p)
  /\ UNCHANGED <<capture, temporary, orphans, born, operations, crashes>>

Verified(p) ==
  /\ At(p, "verify", "file")
  /\ proc[p].todo = {}
  /\ Stop(p)
  /\ UNCHANGED <<capture, temporary, orphans, born, operations, crashes>>

-----------------------------------------------------------------------------
(* redact_capture: each content is read, the file is cut, or made anew,    *)
(* and written; then the manifest.  A file that was opened is written even *)
(* where it is no longer at its path.                                      *)

OldDigest(manifest, f) == manifest     \* slip: the digest is not renewed
NewDigest(manifest, f) == [manifest EXCEPT !.digest[f] = "redacted"]

ReadContent(p) ==
  /\ At(p, "redact", "file")
  /\ proc[p].todo # {}
  /\ IF capture # Nothing /\ capture.files[First(proc[p].todo)] \in Contents
     THEN Becomes(p, [proc[p] EXCEPT !.step = "cut"])
     ELSE Stop(p)
  /\ UNCHANGED <<capture, temporary, orphans, born, operations, crashes>>

CutFile(p) ==
  /\ At(p, "redact", "cut")
  /\ IF capture = Nothing THEN Stop(p) /\ UNCHANGED capture
     ELSE /\ capture' = [capture EXCEPT !.files[First(proc[p].todo)] = "torn", !.touched = TRUE]
          /\ Becomes(p, [proc[p] EXCEPT !.step = "write", !.born = capture.born])
  /\ UNCHANGED <<temporary, orphans, born, operations, crashes>>

WriteFile(p) ==
  /\ At(p, "redact", "write")
  /\ LET f == First(proc[p].todo)
         there == capture # Nothing /\ capture.born = proc[p].born /\ capture.files[f] # "missing"
     IN  /\ capture' = IF there THEN [capture EXCEPT !.files[f] = "redacted"] ELSE capture
         /\ Becomes(p, [proc[p] EXCEPT !.step = "file", !.todo = @ \ {First(@)},
                          !.manifest = NewDigest(@, f)])
  /\ UNCHANGED <<temporary, orphans, born, operations, crashes>>

CutManifest(p) ==
  /\ At(p, "redact", "file")
  /\ proc[p].todo = {}
  /\ IF capture = Nothing THEN Stop(p) /\ UNCHANGED capture
     ELSE /\ capture' = [capture EXCEPT !.manifest = Manifest("torn", FALSE, NoManifest.digest),
                                        !.touched = TRUE]
          /\ Becomes(p, [proc[p] EXCEPT !.step = "manifest", !.born = capture.born])
  /\ UNCHANGED <<temporary, orphans, born, operations, crashes>>

WriteManifest(p) ==
  /\ At(p, "redact", "manifest")
  /\ LET there == capture # Nothing /\ capture.born = proc[p].born
                    /\ capture.manifest.state # "missing"
     IN  capture' = IF there
                    THEN [capture EXCEPT !.manifest = [proc[p].manifest EXCEPT !.applied = TRUE]]
                    ELSE capture
  /\ Stop(p)
  /\ UNCHANGED <<temporary, orphans, born, operations, crashes>>

-----------------------------------------------------------------------------
(* delete_capture, once verified: rmtree lists the directory that is at    *)
(* the path by now and removes what it found, in any order, and then the   *)
(* directory if it is empty.  A file that is gone already makes it raise.  *)

Entries(d) ==
  {f \in Files : d.files[f] # "missing"}
  \cup (IF d.manifest.state # "missing" THEN {"manifest"} ELSE {})

Without(d, entry) ==
  IF entry = "manifest" THEN [d EXCEPT !.manifest = NoManifest, !.touched = TRUE]
  ELSE [d EXCEPT !.files[entry] = "missing", !.touched = TRUE]

StartRemoval(p) ==
  /\ At(p, "delete", "file")
  /\ proc[p].todo = {}
  /\ IF capture = Nothing THEN Stop(p)
     ELSE Becomes(p, [proc[p] EXCEPT !.step = "remove", !.found = Entries(capture),
                        !.born = capture.born])
  /\ UNCHANGED <<capture, temporary, orphans, born, operations, crashes>>

RemoveEntry(p) ==
  /\ At(p, "delete", "remove")
  /\ \E entry \in proc[p].found :
       IF capture # Nothing /\ capture.born = proc[p].born /\ entry \in Entries(capture)
       THEN /\ capture' = Without(capture, entry)
            /\ Becomes(p, [proc[p] EXCEPT !.found = @ \ {entry}])
       ELSE Stop(p) /\ UNCHANGED capture
  /\ UNCHANGED <<temporary, orphans, born, operations, crashes>>

RemoveDirectory(p) ==
  /\ At(p, "delete", "remove")
  /\ proc[p].found = {}
  /\ capture' = IF capture = Nothing \/ ~IsEmpty(capture) THEN capture ELSE Nothing
  /\ Stop(p)
  /\ UNCHANGED <<temporary, orphans, born, operations, crashes>>

-----------------------------------------------------------------------------
(* write_agent_capture: in a temporary directory, which takes the path in  *)
(* the end.                                                                *)

StartWrite(p) ==
  /\ proc[p] = Idle
  /\ operations < MaxOperations
  /\ born < MaxCaptures
  /\ operations' = operations + 1
  /\ capture = Nothing
  /\ Becomes(p, [Idle EXCEPT !.op = "write", !.step = "artifact"])
  /\ temporary' = [temporary EXCEPT ![p] = EmptyDirectory]
  /\ UNCHANGED <<capture, orphans, born, crashes>>

NextStepEarly ==    \* slip: the directory is moved before it has its manifest
  [step \in {"artifact", "publish"} |-> IF step = "artifact" THEN "publish" ELSE "manifest"]
NextStep ==
  [step \in {"artifact", "manifest"} |-> IF step = "artifact" THEN "manifest" ELSE "publish"]

WriteArtifact(p) ==
  /\ At(p, "write", "artifact")
  /\ temporary' = [temporary EXCEPT ![p].files["artifact"] = "redacted"]
  /\ Becomes(p, [proc[p] EXCEPT !.step = NextStep["artifact"]])
  /\ UNCHANGED <<capture, orphans, born, operations, crashes>>

WriteAgentManifest(p) ==
  /\ At(p, "write", "manifest")
  /\ temporary[p] # Nothing
  /\ temporary' = [temporary EXCEPT ![p].manifest =
       Manifest("whole", TRUE, [f \in Files |-> IF f = "artifact" THEN "redacted" ELSE Unlisted])]
  /\ Becomes(p, [proc[p] EXCEPT !.step = NextStep["manifest"]])
  /\ UNCHANGED <<capture, orphans, born, operations, crashes>>

(* os.replace moves a directory onto nothing or onto an empty one.         *)
Publish(p) ==
  /\ At(p, "write", "publish")
  /\ Replaceable
  /\ capture' = [temporary[p] EXCEPT !.born = born + 1]
  /\ born' = born + 1
  /\ temporary' = [temporary EXCEPT ![p] = Nothing]
  /\ Stop(p)
  /\ UNCHANGED <<orphans, operations, crashes>>

(* Any exception, that of os.replace included, removes the directory.      *)
FailWrite(p) ==
  /\ proc[p].op = "write"
  /\ temporary' = [temporary EXCEPT ![p] = Nothing]
  /\ Stop(p)
  /\ UNCHANGED <<capture, orphans, born, operations, crashes>>

Die(p) ==
  /\ crashes < MaxCrashes
  /\ proc[p] # Idle
  /\ crashes' = crashes + 1
  /\ orphans' = IF temporary[p] = Nothing THEN orphans ELSE orphans + 1
  /\ temporary' = [temporary EXCEPT ![p] = Nothing]
  /\ Stop(p)
  /\ UNCHANGED <<capture, born, operations>>

-----------------------------------------------------------------------------
Step(p) ==
  \/ StartVerify(p) \/ VerifyFile(p) \/ Verified(p)
  \/ StartRedact(p) \/ ReadContent(p) \/ CutFile(p) \/ WriteFile(p)
  \/ CutManifest(p) \/ WriteManifest(p)
  \/ StartDelete(p) \/ StartRemoval(p) \/ RemoveEntry(p) \/ RemoveDirectory(p)
  \/ StartWrite(p) \/ WriteArtifact(p) \/ WriteAgentManifest(p) \/ Publish(p) \/ FailWrite(p)
  \/ Die(p)

Next == \E p \in Procs : Step(p)

Spec == Init /\ [][Next]_vars

-----------------------------------------------------------------------------
Directory ==
  [born : Nat, touched : BOOLEAN,
   files : [Files -> Contents \cup {"torn", "missing"}],
   manifest : [state : {"missing", "torn", "whole"}, applied : BOOLEAN,
               digest : [Files -> Contents \cup {Unlisted}]]]

(* The types.                                                              *)
TypeOK ==
  /\ capture \in Directory \cup {Nothing}
  /\ temporary \in [Procs -> Directory \cup {Nothing}]
  /\ {born, operations, crashes, orphans} \subseteq Nat

(* A capture that an evaluation wrote is there as a whole or not at all:   *)
(* nobody who looks at the path finds a part of it, whenever its writer    *)
(* died and whoever else wrote one to the same path.                       *)
AppearsWhole ==
  capture # Nothing => capture.born = 0 \/ capture.touched \/ Verifies(capture)

(* A manifest that says that redaction was applied tells the truth: every  *)
(* content of a turn is redacted and bound by its digest, or is gone or    *)
(* cut short, whatever redactions, deletions and deaths there were before. *)
RedactionIsBound ==
  capture # Nothing /\ capture.manifest.applied =>
    \A f \in TurnFiles :
      \/ capture.files[f] \in {"torn", "missing"}
      \/ capture.files[f] = "redacted" /\ Matches(capture, capture.manifest.digest, f)
=============================================================================
