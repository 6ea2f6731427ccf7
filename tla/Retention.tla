----------------------------- MODULE Retention -----------------------------
(***************************************************************************)
(* What the local store promises to its users, whatever the order in which *)
(* its database statements are executed: evidence can be added at any time *)
(* and may go again, unless it is pinned; a checkpoint becomes visible     *)
(* only when all of its evidence is pinned, and is then never changed.     *)
(* EvidenceStore is shown to implement this module.                        *)
(***************************************************************************)
EXTENDS Sequences, FiniteSets

CONSTANTS Texts,         \* the persisted texts, each one standing for its digest
          Checkpoints    \* the checkpoints callers may save

VARIABLES available,     \* the digests that can be read
          pinned,        \* the digests some owner refers to
          saved          \* the checkpoints that can be loaded

vars == <<available, pinned, saved>>

Evidence(c) == {c.evidence[i] : i \in DOMAIN c.evidence}

Init == /\ available = {}
        /\ pinned = {}
        /\ saved = {}

Store(d) == /\ available' = available \cup {d}
            /\ UNCHANGED <<pinned, saved>>

Pin(d) == /\ d \in available
          /\ pinned' = pinned \cup {d}
          /\ UNCHANGED <<available, saved>>

Publish(c) == /\ Evidence(c) \subseteq pinned
              /\ \A k \in saved : k.id # c.id
              /\ saved' = saved \cup {c}
              /\ UNCHANGED <<available, pinned>>

Sweep(garbage) == /\ garbage \cap pinned = {}
                  /\ available' = available \ garbage
                  /\ UNCHANGED <<pinned, saved>>

Next == \/ \E d \in Texts : Store(d) \/ Pin(d)
        \/ \E c \in Checkpoints : Publish(c)
        \/ \E garbage \in SUBSET Texts : Sweep(garbage)

Spec == Init /\ [][Next]_vars
=============================================================================
