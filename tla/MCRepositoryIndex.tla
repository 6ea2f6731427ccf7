--------------------------- MODULE MCRepositoryIndex ---------------------------
(***************************************************************************)
(* Two processes that build, and two contents, which differ in their line  *)
(* ends.                                                                   *)
(***************************************************************************)
EXTENDS RepositoryIndex, TLC

CONSTANTS b1, b2, v1, v2, lf, crlf,
          MaxBuilds,   \* bound: builds that are begun
          MaxChanges   \* bound: steps of developers

MCText == [c \in Contents |-> lf]

VARIABLES builds, changes

Begins == \E b \in Builders : phase[b] \in Resting /\ phase'[b] \notin Resting

MCInit == Init /\ builds = 0 /\ changes = 0

(* Bound: the server starts when the last build has begun; no build takes  *)
(* notice of a server.                                                     *)
MCNext ==
  \/ /\ Developer
     /\ changes < MaxChanges /\ changes' = changes + 1
     /\ UNCHANGED builds
  \/ /\ \E b \in Builders : Build(b) \/ (builds = MaxBuilds /\ StartServer(b))
     /\ builds' = builds + (IF Begins THEN 1 ELSE 0)
     /\ builds' <= MaxBuilds
     /\ UNCHANGED changes

MCSpec == MCInit /\ [][MCNext]_<<vars, builds, changes>>

Symmetry == Permutations({b1, b2}) \cup Permutations({v1, v2})
================================================================================
