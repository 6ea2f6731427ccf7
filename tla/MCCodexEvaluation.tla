--------------------------- MODULE MCCodexEvaluation ---------------------------
(***************************************************************************)
(* One task, run once in each mode, with two turns and two validation      *)
(* commands.                                                               *)
(***************************************************************************)
EXTENDS CodexEvaluation

CONSTANT MaxChanges   \* bound: changes that agents make in their worktrees

VARIABLE changes

(* Bound: baseline-first; the modes are treated alike.                     *)
MCInit == Init /\ order[1].mode = "baseline" /\ changes = 0

(* Bounds: an agent that was given up changes nothing more in a worktree   *)
(* that has been measured, and which only its own thread looks at; and     *)
(* when the evaluation is over its thread ends the validation it is at.    *)
Driven(e) ==
  \/ /\ Works(e)
     /\ results[e] = Nothing
     /\ changes < MaxChanges /\ changes' = changes + 1
  \/ /\ Drive(e) /\ tree' = tree
     /\ where \in Over => session[e].at = "validate"
     /\ UNCHANGED changes

MCNext ==
  \/ (Evaluate \/ CancelTask \/ \E e \in Entries : Stop(e)) /\ UNCHANGED changes
  \/ \E e \in Entries : Driven(e)

MCSpec == MCInit /\ [][MCNext]_<<vars, changes>> /\ Fairness
================================================================================
