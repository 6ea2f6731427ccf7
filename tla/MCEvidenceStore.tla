-------------------------- MODULE MCEvidenceStore --------------------------
(***************************************************************************)
(* EvidenceStore on a small instance.  Two processes; a plain content and  *)
(* one with a secret, each with its persisted form; two checkpoints under  *)
(* one identifier, with two pieces of evidence and with one.               *)
(***************************************************************************)
EXTENDS EvidenceStore, TLC

CONSTANTS p1, p2, plain, secret, text, masked, r1, r2, k1

MCPersisted == (plain :> text) @@ (secret :> masked)

MCCheckpoints ==
  {[id |-> k1, evidence |-> <<text, masked>>, revision |-> r1],
   [id |-> k1, evidence |-> <<masked>>, revision |-> r2]}

Symmetry == Permutations({p1, p2})
=============================================================================
