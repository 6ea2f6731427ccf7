------------------------- MODULE ManagedRuntimeProofs -------------------------
(***************************************************************************)
(* Proofs about ContextPlanner and ManagedRuntime, for every set of        *)
(* requests and replies, any number of turns and every interleaving with   *)
(* sweeps of the store: first what a plan guarantees, then what a run      *)
(* costs, what it retrieves, what it shows to the provider, and that it    *)
(* cannot go on for ever.                                                  *)
(***************************************************************************)
EXTENDS ManagedRuntime, FiniteSetTheorems, WellFoundedInduction, TLAPS

(* The phases before the plan exists in which selected grows by            *)
(* dependencies, and those in which the contexts are put into the store.   *)
Making == {"validate", "select", "close", "put", "get", "renew", "finish"}
Persisting == {"put", "get", "renew", "finish"}

(* A row no sweep takes any more, or one that was taken while it was read. *)
IsKept(i) == i \in slipped \/ (i \in DOMAIN rows /\ rows[i] = "fresh")

Inexact(S) == {i \in S : ~Of(i).exact}

(* What is selected lies between what is required and the least closed     *)
(* set; after the loop it is that set and what redaction changed so far.   *)
SelectionOK ==
  /\ phase = "close" => Required \subseteq selected /\ selected \subseteq Least
  /\ phase \in Persisting => selected = Least \cup Inexact(Contexts \ todo)

(* What has been put and read back is kept.                                *)
PersistedOK ==
  /\ phase \in Persisting => \A i \in Contexts \ todo : IsKept(i)
  /\ phase \in {"get", "renew"} => current \in todo
  /\ phase = "finish" => todo = {}

(* What holds of a finished plan, then and for the rest of the run.        *)
PlanOK ==
  HasPlan =>
    /\ phase \notin Making
    /\ \A i \in Contexts : IsKept(i)
    /\ plan.operations = OperationsFor(plan.deferred, plan.tools)
    /\ plan.fallback => plan.sent = Contexts /\ plan.deferred = {} /\ plan.tools = {}
    /\ ~plan.fallback => /\ plan.sent = Least \cup Inexact(Contexts)
                         /\ plan.deferred = Contexts \ plan.sent

PlanInv == PlanDataOK /\ SelectionOK /\ PersistedOK /\ PlanOK

-----------------------------------------------------------------------------
(* The least closed set: it holds what is required, a closed set that      *)
(* holds what is required holds it, and it is closed under Missing.        *)
LEMMA LeastBounds ==
  /\ Required \subseteq Least
  /\ Least \subseteq Contexts
  /\ \A S \in SUBSET Contexts : Required \subseteq S /\ Missing(S) = {} => Least \subseteq S
<1>1. Required \subseteq Least
  BY DEF Required, Least
<1>2. Least \subseteq Contexts
  BY DEF Least
<1>3. ASSUME NEW S \in SUBSET Contexts, Required \subseteq S, Missing(S) = {}
      PROVE  Least \subseteq S
  <2>1. IsClosed(S)
    BY <1>3 DEF IsClosed, Missing
  <2>. QED  BY <1>3, <2>1 DEF Least
<1>. QED  BY <1>1, <1>2, <1>3

(* A dependency missing from a part of the least closed set belongs to it. *)
LEMMA LeastGrows ==
  ASSUME NEW T, T \subseteq Least, NEW d \in Missing(T)
  PROVE  d \in Least
<1>1. PICK i \in T : d \in Of(i).dependencies
  BY DEF Missing
<1>2. d \in Contexts /\ Of(d).retention # "recoverable"
  BY DEF Missing
<1>3. ASSUME NEW S \in SUBSET Contexts, Required \subseteq S, IsClosed(S)
      PROVE  d \in S
  <2>1. i \in S
    BY <1>1, <1>3 DEF Least
  <2>. QED  BY <1>1, <1>2, <1>3, <2>1 DEF IsClosed
<1>. QED  BY <1>2, <1>3 DEF Least

LEMMA OperationsKnown ==
  ASSUME NEW D, NEW T
  PROVE  OperationsFor(D, T) \in SUBSET Operations
BY DEF OperationsFor, Operations

-----------------------------------------------------------------------------
LEMMA PlanInitInv == ASSUME PlanInit PROVE PlanInv
<1>1. IsRequest(request)
  BY PlannerAssumption DEF PlanInit
<1>2. PlanDataOK
  <2>1. PICK S \in SUBSET DOMAIN request.context : rows = [i \in S |-> "old"]
    BY DEF PlanInit
  <2>2. DOMAIN rows \subseteq Contexts /\ rows \in [DOMAIN rows -> {"old", "fresh"}]
    BY <2>1 DEF Contexts
  <2>. QED  BY <1>1, <2>2 DEF PlanDataOK, PlanInit
<1>3. phase = "validate" /\ plan = Nothing
  BY DEF PlanInit
<1>4. SelectionOK /\ PersistedOK /\ PlanOK
  BY <1>3 DEF SelectionOK, PersistedOK, PlanOK, Persisting, HasPlan
<1>. QED  BY <1>2, <1>4 DEF PlanInv

-----------------------------------------------------------------------------
(* Steps.  The request never changes, nor what is defined from it alone.   *)
LEMMA RequestStays ==
  ASSUME request' = request
  PROVE  /\ Contexts' = Contexts
         /\ Required' = Required
         /\ Least' = Least
         /\ \A S : Inexact(S)' = Inexact(S)
         /\ \A i : Of(i)' = Of(i)
<1>1. Contexts' = Contexts
  BY DEF Contexts
<1>2. \A i : Of(i)' = Of(i)
  BY DEF Of
<1>3. \A i : Initially(i)' <=> Initially(i)
  BY <1>1, <1>2 DEF Initially, Active, Of, Contexts
<1>4. Required' = Required
  BY <1>1, <1>3 DEF Required
<1>5. \A S : IsClosed(S)' <=> IsClosed(S)
  BY <1>1, <1>2 DEF IsClosed, Of, Contexts
<1>6. Least' = Least
  BY <1>1, <1>4, <1>5 DEF Least
<1>. QED  BY <1>1, <1>2, <1>4, <1>6 DEF Inexact

(* Rows only become fresh, except that a sweep takes old ones away.        *)
RowsKept == \A i : IsKept(i) => IsKept(i)'

LEMMA PlanKept ==
  ASSUME PlanOK, request' = request, plan' = plan, RowsKept,
         HasPlan => phase' \notin Making
  PROVE  PlanOK'
<1>1. SUFFICES ASSUME HasPlan
               PROVE  PlanOK'
  BY DEF HasPlan, PlanOK
<1>2. phase' \notin Making
  BY <1>1
<1>3. Contexts' = Contexts /\ Least' = Least /\ Inexact(Contexts)' = Inexact(Contexts)
  BY RequestStays, Inexact(Contexts)' = Inexact(Contexts') DEF Inexact, Of, Contexts
<1>4. \A i \in Contexts' : IsKept(i)'
  BY <1>1, <1>3 DEF RowsKept, PlanOK
<1>5. OperationsFor(plan.deferred, plan.tools)' = OperationsFor(plan.deferred, plan.tools)
  BY DEF OperationsFor, KindsOf, Of
<1>6. /\ plan.operations = OperationsFor(plan.deferred, plan.tools)
      /\ plan.fallback => plan.sent = Contexts /\ plan.deferred = {} /\ plan.tools = {}
      /\ ~plan.fallback => /\ plan.sent = Least \cup Inexact(Contexts)
                           /\ plan.deferred = Contexts \ plan.sent
  BY <1>1 DEF PlanOK
<1>. QED  BY <1>2, <1>3, <1>4, <1>5, <1>6 DEF PlanOK

LEMMA ValidateStep == ASSUME PlanInv, Validate PROVE PlanInv'
<1>1. request' = request /\ rows' = rows /\ plan' = plan /\ ~HasPlan
  BY DEF Validate, PlanInv, PlanOK, Making
<1>2. phase' \in {"select", "ended"}
  BY DEF Validate, End
<1>3. PlanDataOK'
  BY <1>1 DEF PlanInv, PlanDataOK, Validate, Contexts, Of, IsRequest
<1>4. (SelectionOK /\ PersistedOK)'
  BY <1>2 DEF SelectionOK, PersistedOK, Persisting
<1>5. PlanOK'
  BY <1>1 DEF PlanOK, HasPlan
<1>. QED  BY <1>3, <1>4, <1>5 DEF PlanInv

LEMMA SelectStep == ASSUME PlanInv, Select PROVE PlanInv'
<1>1. request' = request /\ rows' = rows /\ plan' = plan /\ ~HasPlan
  BY DEF Select, PlanInv, PlanOK, Making
<1>2. phase' = "close" /\ selected' = Required
  BY DEF Select, Required
<1>3. PlanDataOK'
  <2>1. selected' \subseteq Contexts
    BY <1>2 DEF Required
  <2>. QED  BY <1>1, <2>1 DEF PlanInv, PlanDataOK, Select, Contexts, IsRequest
<1>4. SelectionOK'
  BY <1>1, <1>2, LeastBounds, RequestStays DEF SelectionOK, Persisting
<1>5. (PersistedOK /\ PlanOK)'
  BY <1>1, <1>2 DEF PersistedOK, PlanOK, Persisting, HasPlan
<1>. QED  BY <1>3, <1>4, <1>5 DEF PlanInv

LEMMA AddDependencyStep == ASSUME PlanInv, AddDependency PROVE PlanInv'
<1>1. request' = request /\ rows' = rows /\ plan' = plan /\ phase' = "close" /\ ~HasPlan
  BY DEF AddDependency, PlanInv, PlanOK, Making
<1>2. Required \subseteq selected /\ selected \subseteq Least
  BY DEF AddDependency, PlanInv, SelectionOK
<1>3. PICK d \in Missing(selected) : selected' = selected \cup {d}
  BY DEF AddDependency
<1>4. d \in Least
  BY <1>2, LeastGrows
<1>5. PlanDataOK'
  <2>1. selected' \subseteq Contexts
    BY <1>2, <1>3, <1>4, LeastBounds
  <2>. QED  BY <1>1, <2>1 DEF PlanInv, PlanDataOK, AddDependency, Contexts, IsRequest
<1>6. SelectionOK'
  BY <1>1, <1>2, <1>3, <1>4, RequestStays DEF SelectionOK, Persisting
<1>7. (PersistedOK /\ PlanOK)'
  BY <1>1 DEF PersistedOK, PlanOK, Persisting, HasPlan
<1>. QED  BY <1>5, <1>6, <1>7 DEF PlanInv

LEMMA UnknownDependencyStep == ASSUME PlanInv, UnknownDependency PROVE PlanInv'
<1>1. request' = request /\ rows' = rows /\ plan' = plan /\ phase' = "ended" /\ ~HasPlan
  BY DEF UnknownDependency, End, PlanInv, PlanOK, Making
<1>2. PlanDataOK'
  BY <1>1 DEF PlanInv, PlanDataOK, UnknownDependency, Contexts, IsRequest
<1>3. (SelectionOK /\ PersistedOK /\ PlanOK)'
  BY <1>1 DEF SelectionOK, PersistedOK, PlanOK, Persisting, HasPlan
<1>. QED  BY <1>2, <1>3 DEF PlanInv

(* When the loop ends, nothing is missing: what is selected is the least   *)
(* closed set, whatever the order in which it was added.                   *)
LEMMA ClosedStep == ASSUME PlanInv, Closed PROVE PlanInv'
<1>1. request' = request /\ rows' = rows /\ plan' = plan /\ selected' = selected /\ ~HasPlan
  BY DEF Closed, PlanInv, PlanOK, Making
<1>2. todo' = Contexts /\ phase' = PersistNext(Contexts)
  BY DEF Closed
<1>3. phase' = "put" \/ (phase' = "finish" /\ Contexts = {})
  BY <1>2 DEF PersistNext
<1>4. selected = Least
  <2>1. Required \subseteq selected /\ selected \subseteq Least /\ selected \subseteq Contexts
    BY DEF Closed, PlanInv, PlanDataOK, SelectionOK
  <2>2. Missing(selected) = {}
    BY DEF Closed
  <2>. QED  BY <2>1, <2>2, LeastBounds
<1>5. PlanDataOK'
  BY <1>1, <1>2 DEF PlanInv, PlanDataOK, Closed, Contexts, IsRequest
<1>6. Contexts' \ todo' = {}
  BY <1>1, <1>2, RequestStays
<1>7. SelectionOK'
  <2>1. Inexact(Contexts \ todo)' = {}
    BY <1>6 DEF Inexact
  <2>. QED  BY <1>1, <1>3, <1>4, <2>1, RequestStays DEF SelectionOK
<1>8. PersistedOK'
  BY <1>2, <1>3, <1>6 DEF PersistedOK
<1>9. PlanOK'
  BY <1>1 DEF PlanOK, HasPlan
<1>. QED  BY <1>5, <1>7, <1>8, <1>9 DEF PlanInv

(* put and get of one context.                                             *)
LEMMA PutContextStep == ASSUME PlanInv, PutContext PROVE PlanInv' /\ RowsKept
<1>1. request' = request /\ plan' = plan /\ selected' = selected /\ todo' = todo /\ slipped' = slipped
      /\ phase = "put" /\ phase' = "get" /\ ~HasPlan
  BY DEF PutContext, PlanInv, PlanOK, Making
<1>2. PICK i \in todo : /\ rows' = IF i \in DOMAIN rows THEN rows ELSE WithRow(i, "fresh")
                        /\ current' = i
  BY DEF PutContext
<1>3. i \in Contexts /\ DOMAIN rows \subseteq Contexts /\ rows \in [DOMAIN rows -> {"old", "fresh"}]
  BY DEF PlanInv, PlanDataOK
<1>4. DOMAIN rows' \subseteq Contexts /\ rows' \in [DOMAIN rows' -> {"old", "fresh"}]
  BY <1>2, <1>3 DEF WithRow
<1>5. RowsKept
  BY <1>1, <1>2 DEF RowsKept, IsKept, WithRow
<1>6. PlanDataOK'
  BY <1>1, <1>2, <1>3, <1>4, RequestStays DEF PlanInv, PlanDataOK
<1>7. SelectionOK'
  <2>1. selected = Least \cup Inexact(Contexts \ todo)
    BY <1>1 DEF PlanInv, SelectionOK, Persisting
  <2>2. Inexact(Contexts \ todo)' = Inexact(Contexts \ todo)
    BY <1>1 DEF Inexact, Contexts, Of
  <2>. QED  BY <1>1, <2>1, <2>2, RequestStays DEF SelectionOK
<1>8. PersistedOK'
  <2>1. \A k \in Contexts \ todo : IsKept(k)
    BY <1>1 DEF PlanInv, PersistedOK, Persisting
  <2>2. \A k \in (Contexts \ todo)' : IsKept(k)'
    BY <1>1, <1>5, <2>1, RequestStays DEF RowsKept
  <2>. QED  BY <1>1, <1>2, <2>2 DEF PersistedOK
<1>9. PlanOK'
  BY <1>1 DEF PlanOK, HasPlan
<1>. QED  BY <1>5, <1>6, <1>7, <1>8, <1>9 DEF PlanInv

LEMMA SelectRowStep == ASSUME PlanInv, SelectRow PROVE PlanInv' /\ RowsKept
<1>1. /\ request' = request /\ plan' = plan /\ current' = current /\ phase = "get" /\ ~HasPlan
      /\ rows' = rows /\ selected' = selected /\ todo' = todo /\ slipped' = slipped
      /\ phase' \in {"renew", "ended"}
  BY DEF SelectRow, End, PlanInv, PlanOK, Making
<1>2. RowsKept
  BY <1>1 DEF RowsKept, IsKept
<1>3. PlanDataOK'
  BY <1>1, RequestStays DEF PlanInv, PlanDataOK
<1>4. SelectionOK'
  <2>1. selected = Least \cup Inexact(Contexts \ todo)
    BY <1>1 DEF PlanInv, SelectionOK, Persisting
  <2>2. Inexact(Contexts \ todo)' = Inexact(Contexts \ todo)
    BY <1>1 DEF Inexact, Contexts, Of
  <2>. QED  BY <1>1, <2>1, <2>2, RequestStays DEF SelectionOK
<1>5. PersistedOK'
  <2>1. current \in todo /\ \A k \in Contexts \ todo : IsKept(k)
    BY <1>1 DEF PlanInv, PersistedOK, Persisting
  <2>2. \A k \in (Contexts \ todo)' : IsKept(k)'
    BY <1>1, <1>2, <2>1, RequestStays DEF RowsKept
  <2>. QED  BY <1>1, <2>1, <2>2 DEF PersistedOK
<1>6. PlanOK'
  BY <1>1 DEF PlanOK, HasPlan
<1>. QED  BY <1>2, <1>3, <1>4, <1>5, <1>6 DEF PlanInv

(* A row that is there becomes fresh; one that is not has slipped away.    *)
LEMMA RenewRowStep == ASSUME PlanInv, RenewRow PROVE PlanInv' /\ RowsKept
<1>1. /\ request' = request /\ plan' = plan /\ current' = current /\ phase = "renew" /\ ~HasPlan
      /\ rows' = Renewed(current) /\ slipped' = slipped \cup ({current} \ DOMAIN rows)
      /\ selected' = Retained(current) /\ todo' = todo \ {current}
      /\ phase' = PersistNext(todo \ {current})
  BY DEF RenewRow, PlanInv, PlanOK, Making
<1>2. current \in todo /\ current \in Contexts /\ todo \subseteq Contexts
  BY <1>1 DEF PlanInv, PersistedOK, PlanDataOK
<1>3. DOMAIN rows \subseteq Contexts /\ rows \in [DOMAIN rows -> {"old", "fresh"}]
  BY DEF PlanInv, PlanDataOK
<1>4. phase' = "put" \/ (phase' = "finish" /\ todo' = {})
  BY <1>1 DEF PersistNext
<1>5. DOMAIN rows' \subseteq Contexts /\ rows' \in [DOMAIN rows' -> {"old", "fresh"}]
  BY <1>1, <1>2, <1>3 DEF Renewed, WithRow
<1>6. RowsKept /\ IsKept(current)'
  BY <1>1 DEF RowsKept, IsKept, Renewed, WithRow
<1>7. PlanDataOK'
  <2>1. selected' \subseteq Contexts
    BY <1>1, <1>2 DEF Retained, PlanInv, PlanDataOK
  <2>2. slipped' \subseteq Contexts
    BY <1>1, <1>2 DEF PlanInv, PlanDataOK
  <2>. QED  BY <1>1, <1>2, <1>5, <2>1, <2>2, RequestStays DEF PlanInv, PlanDataOK
<1>8. SelectionOK'
  <2>1. selected = Least \cup Inexact(Contexts \ todo)
    BY <1>1 DEF PlanInv, SelectionOK, Persisting
  <2>2. Inexact(Contexts \ todo') =
          Inexact(Contexts \ todo) \cup (IF Of(current).exact THEN {} ELSE {current})
    BY <1>1, <1>2 DEF Inexact
  <2>3. selected' = Least \cup Inexact(Contexts \ todo')
    BY <1>1, <2>1, <2>2 DEF Retained
  <2>4. Inexact(Contexts \ todo)' = Inexact(Contexts \ todo')
    BY <1>1 DEF Inexact, Contexts, Of
  <2>. QED  BY <1>1, <1>4, <2>3, <2>4, RequestStays DEF SelectionOK
<1>9. PersistedOK'
  <2>1. \A k \in Contexts \ todo : IsKept(k)
    BY <1>1 DEF PlanInv, PersistedOK, Persisting
  <2>2. \A k \in (Contexts \ todo)' : IsKept(k)'
    BY <1>1, <1>6, <2>1, RequestStays DEF RowsKept
  <2>. QED  BY <1>4, <2>2 DEF PersistedOK
<1>10. PlanOK'
  BY <1>1 DEF PlanOK, HasPlan
<1>. QED  BY <1>6, <1>7, <1>8, <1>9, <1>10 DEF PlanInv

(* The plan is made: the contexts have all been read back by then.         *)
LEMMA FinishPlan == ASSUME PlanInv, Finish PROVE plan' \in Plan
<1>1. Contexts \subseteq Ids /\ DOMAIN request.tools \subseteq ToolNames
  BY DEF PlanInv, PlanDataOK, IsRequest, Contexts
<1>2. selected \subseteq Contexts
  BY DEF PlanInv, PlanDataOK
<1>3. DeferredTools \subseteq ToolNames
  BY <1>1 DEF DeferredTools
<1>. QED
  BY <1>1, <1>2, <1>3, OperationsKnown DEF Finish, Plan, DeferredWhen

LEMMA FinishStep == ASSUME PlanInv, Finish PROVE PlanInv'
<1>1. request' = request /\ rows' = rows /\ selected' = selected /\ todo' = todo /\ slipped' = slipped
      /\ current' = current /\ phase = "finish" /\ phase' = "planned"
  BY DEF Finish
<1>2. todo = {} /\ selected = Least \cup Inexact(Contexts) /\ \A i \in Contexts : IsKept(i)
  BY <1>1 DEF PlanInv, PersistedOK, SelectionOK, Persisting
<1>3. PICK smaller \in BOOLEAN :
        plan' = [sent |-> IF smaller THEN selected ELSE Contexts,
                 deferred |-> DeferredWhen(smaller),
                 tools |-> IF smaller THEN DeferredTools ELSE {}, fallback |-> ~smaller,
                 operations |-> OperationsFor(DeferredWhen(smaller),
                                              IF smaller THEN DeferredTools ELSE {})]
  BY DEF Finish
<1>4. plan' \in Plan
  BY FinishPlan
<1>5. PlanDataOK'
  BY <1>1, <1>4, RequestStays DEF PlanInv, PlanDataOK
<1>6. (SelectionOK /\ PersistedOK)'
  BY <1>1 DEF SelectionOK, PersistedOK, Persisting
<1>7. \A i \in Contexts' : IsKept(i)'
  BY <1>1, <1>2, RequestStays DEF IsKept
<1>8. plan'.operations = OperationsFor(plan.deferred, plan.tools)'
  <2>1. plan'.operations = OperationsFor(plan'.deferred, plan'.tools)
    BY <1>3
  <2>2. OperationsFor(plan.deferred, plan.tools)' = OperationsFor(plan'.deferred, plan'.tools)
    BY <1>1 DEF OperationsFor, KindsOf, Of
  <2>. QED  BY <2>1, <2>2
<1>9. plan'.fallback => plan'.sent = Contexts' /\ plan'.deferred = {} /\ plan'.tools = {}
  BY <1>1, <1>3, RequestStays DEF DeferredWhen
<1>10. ~plan'.fallback => /\ plan'.sent = (Least \cup Inexact(Contexts))'
                          /\ plan'.deferred = (Contexts \ plan.sent)'
  <2>1. Inexact(Contexts)' = Inexact(Contexts)
    BY <1>1 DEF Inexact, Contexts, Of
  <2>. QED  BY <1>1, <1>2, <1>3, <2>1, RequestStays DEF DeferredWhen
<1>11. PlanOK'
  BY <1>1, <1>7, <1>8, <1>9, <1>10 DEF PlanOK, Making
<1>. QED  BY <1>5, <1>6, <1>11 DEF PlanInv

(* A sweep takes only old rows, and there is nothing old in what has been  *)
(* put and read back.                                                      *)
LEMMA SweepStep == ASSUME PlanInv, Sweep PROVE PlanInv' /\ RowsKept
<1>1. UNCHANGED <<phase, request, selected, todo, current, slipped, plan, outcome>>
  BY DEF Sweep
<1>2. PICK gone \in SUBSET {i \in DOMAIN rows : rows[i] = "old"} :
        rows' = [i \in DOMAIN rows \ gone |-> rows[i]]
  BY DEF Sweep
<1>3. RowsKept
  BY <1>1, <1>2 DEF RowsKept, IsKept
<1>4. DOMAIN rows \subseteq Contexts /\ rows \in [DOMAIN rows -> {"old", "fresh"}]
  BY DEF PlanInv, PlanDataOK
<1>5. DOMAIN rows' \subseteq Contexts /\ rows' \in [DOMAIN rows' -> {"old", "fresh"}]
  BY <1>2, <1>4
<1>6. PlanDataOK'
  BY <1>1, <1>5, RequestStays DEF PlanInv, PlanDataOK
<1>7. SelectionOK'
  <2>1. Inexact(Contexts \ todo)' = Inexact(Contexts \ todo)
    BY <1>1 DEF Inexact, Contexts, Of
  <2>. QED  BY <1>1, <2>1, RequestStays DEF PlanInv, SelectionOK
<1>8. PersistedOK'
  BY <1>1, <1>3, RequestStays DEF PlanInv, PersistedOK, RowsKept
<1>9. PlanOK'
  BY <1>1, <1>3, PlanKept DEF PlanInv, PlanOK, HasPlan
<1>. QED  BY <1>3, <1>6, <1>7, <1>8, <1>9 DEF PlanInv

LEMMA PlanStuttering == ASSUME PlanInv, UNCHANGED planVars PROVE PlanInv'
<1>1. PlanDataOK'
  BY RequestStays DEF planVars, PlanInv, PlanDataOK
<1>2. SelectionOK'
  <2>1. Inexact(Contexts \ todo)' = Inexact(Contexts \ todo)
    BY DEF Inexact, Contexts, Of, planVars
  <2>. QED  BY <2>1, RequestStays DEF planVars, PlanInv, SelectionOK
<1>3. RowsKept
  BY DEF planVars, RowsKept, IsKept
<1>4. PersistedOK'
  BY <1>3, RequestStays DEF planVars, PlanInv, PersistedOK, RowsKept
<1>5. PlanOK'
  BY <1>3, PlanKept DEF planVars, PlanInv, PlanOK, HasPlan
<1>. QED  BY <1>1, <1>2, <1>4, <1>5 DEF PlanInv

LEMMA PlanStepInv == ASSUME PlanInv, PlanStep PROVE PlanInv'
BY ValidateStep, SelectStep, AddDependencyStep, UnknownDependencyStep, ClosedStep,
   PutContextStep, SelectRowStep, RenewRowStep, FinishStep DEF PlanStep

(* The invariant, in every interleaving with sweeps by other processes.    *)
THEOREM PlanInvariant == PlanSpec => []PlanInv
<1>1. PlanInit => PlanInv
  BY PlanInitInv
<1>2. PlanInv /\ [PlanNext]_planVars => PlanInv'
  BY PlanStepInv, SweepStep, PlanStuttering DEF PlanNext
<1>. QED  BY <1>1, <1>2, PTL DEF PlanSpec

-----------------------------------------------------------------------------
(* What the plan guarantees, whatever the request.                         *)

(* The types: the plan offers no operation that RetrievalService lacks.    *)
THEOREM PlanTyped == PlanSpec => []PlanTypeOK
<1> DEFINE Where == phase \in Phases /\ outcome \in {"none", "ProtocolError", "KeyError"}
<1>1. PlanInit => Where
  BY DEF PlanInit, Phases
<1>2. Where /\ [PlanNext]_planVars => Where'
  BY DEF PlanNext, PlanStep, Validate, Select, AddDependency, UnknownDependency, Closed,
         PersistNext, PutContext, SelectRow, RenewRow, Finish, Sweep, End, Phases, planVars
<1>3. PlanInv /\ Where => PlanTypeOK
  BY DEF PlanInv, PlanTypeOK
<1>. QED  BY <1>1, <1>2, <1>3, PlanInvariant, PTL DEF PlanSpec

LEMMA InvLeast == PlanInv => PlanIsLeast
BY LeastBounds DEF PlanInv, PlanOK, PlanIsLeast, Inexact

(* The dependency loop computes the smallest closed set in any order, and  *)
(* the plan sends that set and what redaction has changed.                 *)
THEOREM SendsLeast == PlanSpec => []PlanIsLeast
BY InvLeast, PlanInvariant, PTL

LEMMA InvSentOrDeferred == PlanInv => SentOrDeferred
<1>1. ASSUME PlanInv, HasPlan PROVE SentOrDeferred
  <2>1. CASE plan.fallback
    BY <1>1, <2>1 DEF PlanInv, PlanOK, SentOrDeferred
  <2>2. CASE ~plan.fallback
    <3>1. plan.sent \subseteq Contexts
      BY <1>1, <2>2, LeastBounds DEF PlanInv, PlanOK, Inexact
    <3>. QED  BY <1>1, <2>2, <3>1 DEF PlanInv, PlanOK, SentOrDeferred
  <2>. QED  BY <2>1, <2>2
<1>. QED  BY <1>1 DEF SentOrDeferred

(* No context is lost between what is sent and what is deferred.           *)
THEOREM NothingIsLost == PlanSpec => []SentOrDeferred
BY InvSentOrDeferred, PlanInvariant, PTL

(* Redaction never changes what can only be retrieved.                     *)
THEOREM DefersExact == PlanSpec => []DeferredIsExact
<1>1. PlanInv => DeferredIsExact
  <2>1. ASSUME PlanInv, HasPlan, NEW i \in plan.deferred PROVE Of(i).exact
    <3>1. ~plan.fallback
      BY <2>1 DEF PlanInv, PlanOK
    <3>2. i \in Contexts /\ i \notin Inexact(Contexts)
      BY <2>1, <3>1 DEF PlanInv, PlanOK
    <3>. QED  BY <3>2 DEF Inexact
  <2>. QED  BY <2>1 DEF DeferredIsExact
<1>. QED  BY <1>1, PlanInvariant, PTL

LEMMA InvStored == PlanInv => DeferredStaysStored
<1>1. ASSUME PlanInv, HasPlan PROVE plan.deferred \ slipped \subseteq DOMAIN rows
  <2>1. plan.deferred \subseteq Contexts
    BY <1>1, InvSentOrDeferred DEF SentOrDeferred
  <2>. QED  BY <1>1, <2>1 DEF PlanInv, PlanOK, IsKept
<1>. QED  BY <1>1 DEF DeferredStaysStored

(* What is deferred can be retrieved, whatever other processes sweep, but  *)
(* for a row of an earlier run that went while the plan read it.           *)
THEOREM KeepsDeferred == PlanSpec => []DeferredStaysStored
BY InvStored, PlanInvariant, PTL

LEMMA InvOffered == PlanInv => RestorationOffered
<1>1. ASSUME PlanInv, HasPlan PROVE RestorationOffered
  <2>1. plan.operations = OperationsFor(plan.deferred, plan.tools)
    BY <1>1 DEF PlanInv, PlanOK
  <2>2. plan.deferred # {} => "evidence.get" \in plan.operations
    BY <2>1 DEF OperationsFor
  <2>3. plan.tools # {} => "tool.discover" \in plan.operations
    BY <2>1 DEF OperationsFor
  <2>4. plan.deferred = {} /\ plan.tools = {} => plan.operations = {}
    BY <2>1 DEF OperationsFor, KindsOf
  <2>. QED  BY <2>2, <2>3, <2>4 DEF RestorationOffered
<1>. QED  BY <1>1 DEF RestorationOffered

(* Whatever is left out, the means to have it back are offered.            *)
THEOREM OffersRestoration == PlanSpec => []RestorationOffered
BY InvOffered, PlanInvariant, PTL

-----------------------------------------------------------------------------
(* The run, turn after turn.                                               *)

Beginning == Making \cup {"planned"}
Turning == {"turn", "awaiting", "dispatch"}

(* The types, without those of the two flags.                              *)
RunDataOK ==
  /\ phase \in Phases \cup Turning
  /\ outcome \in Outcomes
  /\ phase = "ended" <=> outcome # "none"
  /\ turn \in Nat
  /\ working \in Seq(Block)
  /\ queue \in Seq(Call)
  /\ repeated \subseteq Call
  /\ usage \in [initial : Nat, continuation : Nat, total : Nat]
  /\ billed \in Nat

FlagsOK == cancelled \in BOOLEAN /\ late \in BOOLEAN

(* Before its first turn a run has added nothing to the plan.              *)
BeginningOK ==
  phase \in Beginning =>
    /\ turn = 0
    /\ working = <<>> /\ queue = <<>> /\ repeated = {}

(* Until the first answer nothing has been billed.                         *)
BilledOK ==
  /\ phase \in Turning => turn >= 1
  /\ phase \in Beginning \cup {"turn", "awaiting"} /\ turn <= 1 => billed = 0

(* A request that has been validated names no unknown dependency.          *)
ValidatedOK ==
  /\ phase # "ended" => outcome = "none"
  /\ phase \in Turning \cup {"planned"} => HasPlan
  /\ HasPlan \/ phase \notin {"validate", "ended"} => DependenciesKnown(request)

RunInv ==
  /\ PlanInv /\ RunDataOK /\ FlagsOK
  /\ AllInputCounted /\ BeginningOK /\ BilledOK /\ ValidatedOK

-----------------------------------------------------------------------------
(* Steps of the run leave the plan as it is.                               *)

LEMMA ReadRowsFacts ==
  ASSUME PlanInv, NEW S, rows' = ReadRows(S), slipped' = slipped
  PROVE  /\ DOMAIN rows' = DOMAIN rows
         /\ rows' \in [DOMAIN rows -> {"old", "fresh"}]
         /\ RowsKept
<1>1. rows \in [DOMAIN rows -> {"old", "fresh"}]
  BY DEF PlanInv, PlanDataOK
<1>. QED
  BY <1>1 DEF ReadRows, RowsKept, IsKept

LEMMA PlanInvKept ==
  ASSUME PlanInv, UNCHANGED <<request, selected, todo, current, slipped, plan>>, phase' \notin Making,
         DOMAIN rows' = DOMAIN rows, rows' \in [DOMAIN rows -> {"old", "fresh"}], RowsKept
  PROVE  PlanInv'
<1>1. PlanDataOK'
  BY RequestStays DEF PlanInv, PlanDataOK
<1>2. SelectionOK' /\ PersistedOK'
  BY DEF SelectionOK, PersistedOK, Making, Persisting
<1>3. PlanOK'
  BY PlanKept DEF PlanInv
<1>. QED
  BY <1>1, <1>2, <1>3 DEF PlanInv

LEMMA RowsSame ==
  ASSUME PlanInv, rows' = rows, slipped' = slipped
  PROVE  /\ DOMAIN rows' = DOMAIN rows
         /\ rows' \in [DOMAIN rows -> {"old", "fresh"}]
         /\ RowsKept
BY DEF PlanInv, PlanDataOK, RowsKept, IsKept

(* The calls of an answer: what a step of Dispatch does, whatever the      *)
(* operation.                                                              *)
Fetches(c) ==
  /\ ~IsRepeated(c) /\ ~RefusedAtOnce(c)
  /\ c.op # "tool.discover" => ~Undeclared(c)
  /\ \E size \in Sizes(c) : working' = Append(working, Result(c, size))
  /\ queue' = Tail(queue)
  /\ \/ phase' = "ended" /\ outcome' = "volume exceeded"
     \/ UNCHANGED <<phase, outcome>> /\ ~TooLarge(working')

IsMissing(c) ==
  /\ ~RefusedAtOnce(c) /\ c.op # "tool.discover" /\ ~Undeclared(c)
  /\ ~({c.id} \cup Requested(c) \subseteq DOMAIN rows)

Stops(c) ==
  /\ phase' = "ended"
  /\ outcome' \in Outcomes \ {"none"}
  /\ UNCHANGED <<working, queue>>
  /\ outcome' = "KeyError" => \/ ~RefusedAtOnce(c) /\ c.op # "tool.discover" /\ c.id \notin DOMAIN rows
                              \/ IsMissing(c)

LEMMA RetrieveFacts ==
  ASSUME NEW c, NEW size \in Sizes(c), ~IsRepeated(c), ~RefusedAtOnce(c), Retrieve(c, size),
         c.op # "tool.discover" => ~Undeclared(c)
  PROVE  Fetches(c) \/ Stops(c)
BY DEF Retrieve, Fetches, Stops, End, Outcomes

LEMMA EvidenceFacts ==
  ASSUME NEW c, ~IsRepeated(c), ~RefusedAtOnce(c), c.op # "tool.discover", RetrieveEvidence(c)
  PROVE  /\ Fetches(c) \/ Stops(c)
         /\ \E S : rows' = ReadRows(S)
<1> DEFINE fits == Suits(c) = "fits" /\ ~Undeclared(c)
           needed == {c.id} \cup Requested(c)
           stored == needed \subseteq DOMAIN rows
<1>1. CASE c.id \notin DOMAIN rows
  <2>1. Fails("KeyError", {})
    BY <1>1 DEF RetrieveEvidence
  <2>. QED
    BY <1>1, <2>1 DEF Fails, End, Stops, Outcomes
<1>2. CASE c.id \in DOMAIN rows /\ ~fits
  <2>1. Fails(IF Suits(c) = "raises" THEN "raised" ELSE "retrieval refused", {c.id})
    BY <1>2 DEF RetrieveEvidence
  <2>. QED
    BY <2>1 DEF Fails, End, Stops, Outcomes
<1>3. CASE c.id \in DOMAIN rows /\ fits /\ ~stored
  <2>1. Fails("KeyError", needed)
    BY <1>3 DEF RetrieveEvidence
  <2>. QED
    BY <1>3, <2>1 DEF Fails, End, Stops, Outcomes, IsMissing
<1>4. CASE c.id \in DOMAIN rows /\ fits /\ stored
  <2>1. /\ rows' = ReadRows(needed)
        /\ \E size \in Sizes(c) : Retrieve(c, size)
    BY <1>4 DEF RetrieveEvidence
  <2>. QED
    BY <1>4, <2>1, RetrieveFacts
<1>. QED
  BY <1>1, <1>2, <1>3, <1>4

LEMMA DispatchFacts ==
  ASSUME PlanInv, Dispatch
  PROVE  /\ phase = "dispatch" /\ queue # <<>>
         /\ repeated' = repeated \cup {Head(queue)}
         /\ UNCHANGED <<request, selected, todo, current, slipped, plan, turn, usage, billed, cancelled,
                        late>>
         /\ DOMAIN rows' = DOMAIN rows /\ rows' \in [DOMAIN rows -> {"old", "fresh"}] /\ RowsKept
         /\ Fetches(Head(queue)) \/ Stops(Head(queue))
<1> DEFINE c == Head(queue)
<1>1. /\ phase = "dispatch" /\ queue # <<>>
      /\ repeated' = repeated \cup {c}
      /\ UNCHANGED <<request, selected, todo, current, slipped, plan, turn, usage, billed, cancelled, late>>
      /\ \/ Fails("repeated call", {})
         \/ Fails("retrieval refused", {})
         \/ ~IsRepeated(c) /\ ~RefusedAtOnce(c) /\ Execute(c)
  BY DEF Dispatch
<1>2. /\ (\E S : rows' = ReadRows(S)) \/ rows' = rows
      /\ Fetches(c) \/ Stops(c)
  <2>1. CASE Fails("repeated call", {}) \/ Fails("retrieval refused", {})
    BY <2>1 DEF Fails, End, Stops, Outcomes
  <2>2. CASE ~IsRepeated(c) /\ ~RefusedAtOnce(c) /\ Execute(c) /\ c.op = "tool.discover"
    BY <2>2, RetrieveFacts DEF Execute, Discover
  <2>3. CASE ~IsRepeated(c) /\ ~RefusedAtOnce(c) /\ Execute(c) /\ c.op # "tool.discover"
    BY <2>3, EvidenceFacts DEF Execute
  <2>. QED
    BY <1>1, <2>1, <2>2, <2>3
<1>. QED
  BY <1>1, <1>2, ReadRowsFacts, RowsSame

-----------------------------------------------------------------------------
LEMMA Typed == RunTypeOK <=> RunDataOK /\ FlagsOK
  BY Zenon DEF RunTypeOK, RunDataOK, FlagsOK, Turning

LEMMA OutcomeNames == {"none", "ProtocolError", "KeyError"} \subseteq Outcomes
  BY Zenon DEF Outcomes

LEMMA EndNames ==
  {"planned", "no transport", "completed", "malformed call", "token bound"}
    \subseteq Outcomes \ {"none"}
  BY Zenon DEF Outcomes

LEMMA InitRunInv == ASSUME RunInit PROVE RunInv
<1>1. PlanInv
  BY PlanInitInv DEF RunInit
<1>2. phase = "validate" /\ outcome = "none" /\ ~HasPlan
  BY DEF RunInit, PlanInit, HasPlan
<1>3. RunDataOK
  BY <1>2, OutcomeNames DEF RunInit, RunDataOK, Phases
<1>4. FlagsOK
  BY DEF RunInit, FlagsOK
<1>. QED
  BY <1>1, <1>2, <1>3, <1>4 DEF RunInit, RunInv, AllInputCounted, BeginningOK, BilledOK, ValidatedOK,
     Turning

LEMMA PlanningStep == ASSUME RunInv, Planning PROVE RunInv'
<1>1. UNCHANGED runVars /\ PlanStep /\ request' = request
  BY DEF Planning, PlanStep, Validate, Select, AddDependency, UnknownDependency, Closed,
     PutContext, SelectRow, RenewRow, Finish
<1>2. PlanInv'
  BY <1>1, PlanStepInv DEF RunInv
<1>3. /\ phase \in Making /\ phase' \in Making \cup {"planned", "ended"}
      /\ phase' # "ended" => outcome' = outcome
      /\ phase' = "ended" => outcome' \in {"ProtocolError", "KeyError"} /\ plan' = plan
  BY <1>1 DEF PlanStep, Validate, Select, AddDependency, UnknownDependency, Closed, PersistNext,
     PutContext, SelectRow, RenewRow, Finish, Making, End
<1>4. ~HasPlan
  BY <1>3 DEF RunInv, PlanInv, PlanOK
<1>5. phase = "validate" => phase' = "ended" \/ Validated(request)
  BY <1>1 DEF PlanStep, Validate, Select, AddDependency, UnknownDependency, Closed,
     PutContext, SelectRow, RenewRow, Finish, End
<1>6. DependenciesKnown(request)' = DependenciesKnown(request)
  BY <1>1 DEF DependenciesKnown
<1>7. RunDataOK'
  BY <1>1, <1>3, OutcomeNames DEF RunInv, RunDataOK, runVars, Making, Phases, ValidatedOK
<1>8. ValidatedOK'
  <2>1. phase' = "planned" => HasPlan'
    <3>1. phase' = "planned" => Finish
      BY <1>1 DEF PlanStep, Validate, Select, AddDependency, UnknownDependency, Closed,
         PersistNext, PutContext, SelectRow, RenewRow, End
    <3>. QED
      BY <3>1, FinishPlan, RuntimeAssumption DEF RunInv, HasPlan
  <2>2. phase' # "ended" => outcome' = "none"
    BY <1>3 DEF RunInv, ValidatedOK, Making
  <2>3. HasPlan' \/ phase' \notin {"validate", "ended"} => DependenciesKnown(request)'
    BY <1>3, <1>4, <1>5, <1>6 DEF RunInv, ValidatedOK, Validated, Making, HasPlan
  <2>. QED
    BY <1>3, <2>1, <2>2, <2>3 DEF ValidatedOK, Turning, Making
<1>9. BeginningOK' /\ BilledOK' /\ AllInputCounted'
  BY <1>1, <1>3 DEF RunInv, BeginningOK, BilledOK, AllInputCounted, runVars, Beginning, Turning,
     Making
<1>10. FlagsOK'
  BY <1>1, Zenon DEF RunInv, FlagsOK, runVars
<1>. QED
  BY <1>2, <1>7, <1>8, <1>9, <1>10 DEF RunInv

(* The steps around the calls: none of them touches the store.             *)
LEMMA StepAside ==
  ASSUME RunInv, UNCHANGED <<request, rows, selected, todo, current, slipped, plan>>,
         phase' \in Turning \cup {"ended"}, phase \notin Making
  PROVE  /\ PlanInv'
         /\ DependenciesKnown(request)' = DependenciesKnown(request)
         /\ HasPlan' = HasPlan
<1>1. PlanInv'
  BY PlanInvKept, RowsSame DEF RunInv, Turning, Making
<1>. QED
  BY <1>1 DEF DependenciesKnown, HasPlan

LEMMA StartStep == ASSUME RunInv, Start PROVE RunInv'
<1>1. UNCHANGED <<request, rows, selected, todo, current, slipped, plan>>
  BY DEF Start
<1>2. UNCHANGED <<working, queue, repeated, usage, billed, cancelled, late>>
  BY DEF Start
<1>3. phase = "planned"
  BY DEF Start
<1>4. /\ phase' \in {"turn", "ended"} /\ turn' \in {turn, 1}
      /\ phase' = "turn" => turn' = 1 /\ outcome' = outcome
      /\ phase' = "ended" => outcome' \in Outcomes \ {"none"}
  BY EndNames, Zenon DEF Start, End
<1>5. turn = 0 /\ billed = 0
  BY <1>3 DEF RunInv, BeginningOK, BilledOK, Beginning
<1>6. PlanInv' /\ DependenciesKnown(request)' = DependenciesKnown(request) /\ HasPlan' = HasPlan
  BY <1>1, <1>3, <1>4, StepAside DEF Turning, Making
<1>7. RunDataOK'
  BY <1>2, <1>3, <1>4, <1>5 DEF RunInv, RunDataOK, Phases, Turning
<1>8. ValidatedOK'
  BY <1>3, <1>4, <1>6 DEF RunInv, ValidatedOK, Turning
<1>9. BeginningOK' /\ BilledOK' /\ AllInputCounted'
  <2>1. BeginningOK'
    BY <1>4 DEF BeginningOK, Beginning, Making
  <2>2. BilledOK'
    BY <1>2, <1>4, <1>5 DEF BilledOK, Beginning, Turning, Making
  <2>3. AllInputCounted'
    BY <1>2 DEF RunInv, AllInputCounted
  <2>. QED
    BY <2>1, <2>2, <2>3
<1>10. FlagsOK'
  BY <1>2, Zenon DEF RunInv, FlagsOK
<1>. QED
  BY <1>6, <1>7, <1>8, <1>9, <1>10 DEF RunInv

(* Ask, Timeout and Unanswered: the phase alone changes.                   *)
LEMMA WaitingStep == ASSUME RunInv, Ask \/ Timeout \/ Unanswered PROVE RunInv'
<1>1. /\ UNCHANGED <<request, rows, selected, todo, current, slipped, plan, runVars>>
      /\ phase \in {"turn", "awaiting"}
      /\ \/ phase' = "ended" /\ outcome' \in Outcomes \ {"none"}
         \/ phase' = "awaiting" /\ outcome' = outcome
  BY Zenon DEF Ask, Timeout, Unanswered, End, Outcomes
<1>2. PlanInv' /\ DependenciesKnown(request)' = DependenciesKnown(request) /\ HasPlan' = HasPlan
  BY <1>1, StepAside DEF Turning, Making
<1>3. RunDataOK'
  BY <1>1 DEF RunInv, RunDataOK, runVars, Phases, Turning
<1>4. ValidatedOK'
  BY <1>1, <1>2 DEF RunInv, ValidatedOK, Turning
<1>5. BeginningOK' /\ BilledOK' /\ AllInputCounted'
  BY <1>1 DEF RunInv, BeginningOK, BilledOK, AllInputCounted, Beginning, Turning, Making, runVars
<1>6. FlagsOK'
  BY <1>1, Zenon DEF RunInv, FlagsOK, runVars
<1>. QED
  BY <1>2, <1>3, <1>4, <1>5, <1>6 DEF RunInv

LEMMA AssistantType ==
  ASSUME NEW calls \in Replies PROVE calls \in Seq(Call) /\ Assistant(calls) \in Block
BY RuntimeAssumption DEF Assistant, Block

LEMMA BilledType ==
  ASSUME RunInv, phase = "awaiting", NEW tokens \in InputTokens
  PROVE  /\ Billed(tokens) \in [initial : Nat, continuation : Nat, total : Nat]
         /\ Billed(tokens).total = billed + tokens
         /\ Billed(tokens).total = Billed(tokens).initial + Billed(tokens).continuation
<1>1. tokens \in Nat /\ usage \in [initial : Nat, continuation : Nat, total : Nat]
      /\ usage.total = billed /\ usage.total = usage.initial + usage.continuation /\ billed \in Nat
  BY RuntimeAssumption DEF RunInv, RunDataOK, AllInputCounted
<1>2. CASE turn = 1
  <2>1. billed = 0
    BY <1>2 DEF RunInv, BilledOK
  <2>2. usage.continuation = 0 /\ usage.initial = 0
    <3>1. \A i, c \in Nat : i + c = 0 => i = 0 /\ c = 0
      OBVIOUS
    <3>. QED
      BY <1>1, <2>1, <3>1
  <2>. QED
    BY <1>1, <1>2, <2>1, <2>2 DEF Billed
<1>3. CASE turn # 1
  BY <1>1, <1>3 DEF Billed
<1>. QED
  BY <1>2, <1>3

LEMMA AnsweredStep == ASSUME RunInv, Answered PROVE RunInv'
<1>1. /\ UNCHANGED <<request, rows, selected, todo, current, slipped, plan, turn, repeated, cancelled, late>>
      /\ phase = "awaiting"
      /\ \E tokens \in InputTokens : usage' = Billed(tokens) /\ billed' = billed + tokens
      /\ \/ /\ phase' = "ended" /\ outcome' \in Outcomes \ {"none"}
            /\ UNCHANGED <<working, queue>>
         \/ /\ phase' = "dispatch" /\ outcome' = outcome
            /\ \E calls \in Replies : working' = WithAnswer(calls) /\ queue' = calls
  BY EndNames, Zenon DEF Answered, End
<1>2. PlanInv' /\ DependenciesKnown(request)' = DependenciesKnown(request) /\ HasPlan' = HasPlan
  BY <1>1, StepAside DEF Turning, Making
<1>3. /\ usage' \in [initial : Nat, continuation : Nat, total : Nat] /\ billed' \in Nat
      /\ AllInputCounted'
  <2>1. PICK tokens \in InputTokens : usage' = Billed(tokens) /\ billed' = billed + tokens
    BY <1>1
  <2>. QED
    BY <1>1, <2>1, BilledType, RuntimeAssumption DEF RunInv, RunDataOK, AllInputCounted
<1>4. working' \in Seq(Block) /\ queue' \in Seq(Call)
  <2>1. working \in Seq(Block) /\ queue \in Seq(Call)
    BY DEF RunInv, RunDataOK
  <2>2. ASSUME NEW calls \in Replies, working' = WithAnswer(calls), queue' = calls
        PROVE  working' \in Seq(Block) /\ queue' \in Seq(Call)
    <3>1. calls \in Seq(Call) /\ Assistant(calls) \in Block
      BY AssistantType
    <3>2. Append(working, Assistant(calls)) \in Seq(Block)
      BY <2>1, <3>1
    <3>. QED
      BY <2>2, <3>1, <3>2 DEF WithAnswer
  <2>. QED
    BY <1>1, <2>1, <2>2
<1>5. RunDataOK'
  BY <1>1, <1>3, <1>4 DEF RunInv, RunDataOK, Phases, Turning
<1>6. ValidatedOK' /\ BeginningOK' /\ BilledOK'
  BY <1>1, <1>2 DEF RunInv, ValidatedOK, BeginningOK, BilledOK, Beginning, Turning, Making
<1>7. FlagsOK'
  BY <1>1, Zenon DEF RunInv, FlagsOK
<1>. QED
  BY <1>2, <1>3, <1>5, <1>6, <1>7 DEF RunInv

LEMMA ResultType ==
  ASSUME RunInv, phase = "dispatch", NEW c \in Call, ~RefusedAtOnce(c), NEW size \in Sizes(c)
  PROVE  Result(c, size) \in Block
<1>1. size \in Nat
  <2>1. CASE c.op \in WholeOperations
    <3>1. c.op # "tool.discover" /\ size = Of(c.id).size
      BY <2>1 DEF WholeOperations, Sizes
    <3>2. c.id \in plan.deferred /\ HasPlan
      BY <3>1 DEF RefusedAtOnce, Unavailable, RunInv, ValidatedOK, Turning
    <3>3. c.id \in Contexts
      BY <3>2, InvSentOrDeferred DEF RunInv, SentOrDeferred
    <3>4. Of(c.id) \in Context
      BY <3>3 DEF RunInv, PlanInv, PlanDataOK, IsRequest, Of, Contexts
    <3>. QED
      BY <3>1, <3>4 DEF Context
  <2>2. CASE c.op \notin WholeOperations
    BY <2>2, RuntimeAssumption DEF Sizes
  <2>. QED
    BY <2>1, <2>2
<1>2. <<c>> \in Seq(Call)
  OBVIOUS
<1>. QED
  BY <1>1, <1>2 DEF Result, Block

LEMMA HeadIsCall ==
  ASSUME RunInv, queue # <<>>
  PROVE  Head(queue) \in Call /\ Tail(queue) \in Seq(Call)
BY DEF RunInv, RunDataOK

LEMMA StopsFacts ==
  ASSUME NEW c, Fetches(c) \/ Stops(c)
  PROVE  \/ phase' = "ended" /\ outcome' \in Outcomes \ {"none"}
         \/ phase' = phase /\ outcome' = outcome
BY Zenon DEF Fetches, Stops, Outcomes

LEMMA DispatchStep == ASSUME RunInv, Dispatch PROVE RunInv'
<1> DEFINE c == Head(queue)
<1>1. /\ phase = "dispatch" /\ queue # <<>> /\ repeated' = repeated \cup {c}
      /\ UNCHANGED <<request, selected, todo, current, slipped, plan, turn, usage, billed, cancelled, late>>
      /\ DOMAIN rows' = DOMAIN rows /\ rows' \in [DOMAIN rows -> {"old", "fresh"}] /\ RowsKept
      /\ Fetches(c) \/ Stops(c)
  BY DispatchFacts DEF RunInv
<1>2. c \in Call /\ Tail(queue) \in Seq(Call)
  BY <1>1, HeadIsCall
<1>3. \/ phase' = "ended" /\ outcome' \in Outcomes \ {"none"}
      \/ phase' = "dispatch" /\ outcome' = outcome
  BY <1>1, StopsFacts
<1>4. PlanInv'
  BY <1>1, <1>3, PlanInvKept DEF RunInv, Making
<1>5. working' \in Seq(Block) /\ queue' \in Seq(Call)
  <2>1. working \in Seq(Block) /\ queue \in Seq(Call)
    BY DEF RunInv, RunDataOK
  <2>2. CASE Stops(c)
    BY <2>1, <2>2, Zenon DEF Stops
  <2>3. CASE Fetches(c)
    <3>1. PICK size \in Sizes(c) : working' = Append(working, Result(c, size))
      BY <2>3 DEF Fetches
    <3>2. Result(c, size) \in Block
      BY <1>1, <1>2, <2>3, ResultType DEF Fetches
    <3>3. queue' = Tail(queue)
      BY <2>3 DEF Fetches
    <3>. QED
      BY <1>2, <2>1, <3>1, <3>2, <3>3
  <2>. QED
    BY <1>1, <2>2, <2>3
<1>6. RunDataOK'
  BY <1>1, <1>2, <1>3, <1>5 DEF RunInv, RunDataOK, Phases, Turning
<1>7. DependenciesKnown(request)' = DependenciesKnown(request) /\ HasPlan' = HasPlan
  BY <1>1 DEF DependenciesKnown, HasPlan
<1>8. ValidatedOK'
  BY <1>1, <1>3, <1>7 DEF RunInv, ValidatedOK, Turning
<1>9. BeginningOK' /\ BilledOK' /\ AllInputCounted'
  BY <1>1, <1>3 DEF RunInv, BeginningOK, BilledOK, AllInputCounted, Beginning, Turning, Making
<1>10. FlagsOK'
  BY <1>1, Zenon DEF RunInv, FlagsOK
<1>. QED
  BY <1>4, <1>6, <1>8, <1>9, <1>10 DEF RunInv

LEMMA NextTurnStep == ASSUME RunInv, NextTurn PROVE RunInv'
<1>1. /\ UNCHANGED <<request, rows, selected, todo, current, slipped, plan, working, queue, repeated,
                     usage, billed, cancelled, late>>
      /\ phase = "dispatch"
  BY DEF NextTurn
<1>2. /\ phase' = "ended" => outcome' \in Outcomes \ {"none"} /\ turn' = turn
      /\ phase' # "ended" => phase' = "turn" /\ outcome' = outcome /\ turn' = turn + 1
  BY EndNames, Zenon DEF NextTurn, End
<1>3. PlanInv' /\ DependenciesKnown(request)' = DependenciesKnown(request) /\ HasPlan' = HasPlan
  BY <1>1, <1>2, StepAside DEF Turning, Making
<1>4. turn \in Nat /\ turn >= 1
  BY <1>1 DEF RunInv, RunDataOK, BilledOK, Turning
<1>5. RunDataOK'
  BY <1>1, <1>2, <1>4 DEF RunInv, RunDataOK, Phases, Turning
<1>6. ValidatedOK'
  BY <1>1, <1>2, <1>3 DEF RunInv, ValidatedOK, Turning
<1>7. BeginningOK' /\ AllInputCounted'
  BY <1>1, <1>2 DEF RunInv, BeginningOK, AllInputCounted, Beginning, Making
<1>8. BilledOK'
  BY <1>1, <1>2, <1>4 DEF BilledOK, Beginning, Making, Turning
<1>9. FlagsOK'
  BY <1>1, Zenon DEF RunInv, FlagsOK
<1>. QED
  BY <1>3, <1>5, <1>6, <1>7, <1>8, <1>9 DEF RunInv

(* What happens around the run: the caller, the time, other processes.     *)
LEMMA AroundStep ==
  ASSUME RunInv, Cancel \/ TimePasses \/ (Sweep /\ UNCHANGED runVars) \/ UNCHANGED vars
  PROVE  RunInv'
<1>1. /\ UNCHANGED <<phase, request, selected, todo, current, slipped, plan, outcome, turn, working, queue,
                     repeated, usage, billed>>
      /\ UNCHANGED planVars \/ Sweep
  BY DEF Cancel, TimePasses, Sweep, vars, planVars, runVars
<1>2. PlanInv'
  BY <1>1, SweepStep, PlanStuttering DEF RunInv
<1>3. FlagsOK'
  BY Zenon DEF Cancel, TimePasses, RunInv, FlagsOK, runVars, vars
<1>4. RunDataOK' /\ AllInputCounted' /\ BeginningOK' /\ BilledOK' /\ ValidatedOK'
  BY <1>1 DEF RunInv, RunDataOK, AllInputCounted, BeginningOK, BilledOK, ValidatedOK, HasPlan,
     DependenciesKnown
<1>. QED
  BY <1>2, <1>3, <1>4 DEF RunInv

LEMMA RunInvStep == ASSUME RunInv, [RunNext]_vars PROVE RunInv'
  BY PlanningStep, StartStep, WaitingStep, AnsweredStep, DispatchStep, NextTurnStep,
     AroundStep DEF RunNext, RunStep

-----------------------------------------------------------------------------
THEOREM RunInvariant == RunSpec => []RunInv
  BY InitRunInv, RunInvStep, PTL DEF RunSpec

(* The types of the whole run.                                             *)
THEOREM RunTyped == RunSpec => []RunTypeOK
<1>1. RunInv => RunTypeOK
  BY Typed DEF RunInv
<1>. QED
  BY <1>1, RunInvariant, PTL

(* Every request the provider answered is in the usage, and it is the sum  *)
(* of its parts, however many turns there were.                            *)
THEOREM CountsAllInput == RunSpec => []AllInputCounted
<1>1. RunInv => AllInputCounted
  BY DEF RunInv
<1>. QED
  BY <1>1, RunInvariant, PTL

(* What is proved of a plan holds through the turns that follow it.        *)
THEOREM PlanOutlastsTurns ==
  RunSpec => [](PlanIsLeast /\ SentOrDeferred /\ DeferredStaysStored /\ RestorationOffered)
<1>1. RunInv => PlanInv
  BY DEF RunInv
<1>2. PlanInv => PlanIsLeast /\ RestorationOffered
  BY InvLeast, InvOffered
<1>. QED
  BY <1>1, <1>2, InvSentOrDeferred, InvStored, RunInvariant, PTL

-----------------------------------------------------------------------------
(* A run that has its plan loses no evidence.                              *)
Wanted(c) == {c.id} \cup Requested(c)

LEMMA WhatIsMissing ==
  ASSUME RunInv, phase = "dispatch", NEW c \in Call, Stops(c), outcome' = "KeyError"
  PROVE  Wanted(c) \cap ({Task} \cup slipped) # {}
<1>1. HasPlan /\ DependenciesKnown(request)
  BY DEF RunInv, ValidatedOK, Turning
<1>2. \A i \in Contexts : i \in slipped \/ i \in DOMAIN rows
  BY <1>1 DEF RunInv, PlanInv, PlanOK, IsKept
<1>3. ~RefusedAtOnce(c) /\ c.op # "tool.discover"
  BY Zenon DEF Stops, IsMissing
<1>4. c.id \in Contexts
  BY <1>1, <1>3, InvSentOrDeferred DEF RunInv, SentOrDeferred, RefusedAtOnce, Unavailable
<1>5. CASE c.id \notin DOMAIN rows
  BY <1>2, <1>4, <1>5 DEF Wanted
<1>6. CASE c.id \in DOMAIN rows
  <2>1. IsMissing(c)
    BY <1>6, Zenon DEF Stops
  <2>2. PICK d \in Requested(c) : d \notin DOMAIN rows
    BY <1>6, <2>1 DEF IsMissing
  <2>3. Of(c.id).dependencies \subseteq Contexts \cup {Task}
    BY <1>1, <1>4 DEF DependenciesKnown, Of, Contexts
  <2>4. d \in Of(c.id).dependencies
    BY <2>1 DEF IsMissing, Undeclared
  <2>. QED
    BY <1>2, <2>2, <2>3, <2>4 DEF Wanted
<1>. QED
  BY <1>5, <1>6

LEMMA MissingStep ==
  ASSUME RunInv, OnlySlippedIsMissing, [RunNext]_vars
  PROVE  OnlySlippedIsMissing'
<1>1. ASSUME UNCHANGED <<outcome, plan, request, repeated, slipped>>
      PROVE  OnlySlippedIsMissing'
  <2>1. \A c : Requested(c)' = Requested(c)
    BY <1>1 DEF Requested, Of
  <2>. QED
    BY <1>1, <2>1 DEF OnlySlippedIsMissing, HasPlan
<1>2. ASSUME outcome' # "KeyError" PROVE OnlySlippedIsMissing'
  BY <1>2 DEF OnlySlippedIsMissing
<1>3. CASE Planning
  <2>1. CASE UNCHANGED plan
    <3>1. ~HasPlan'
      BY <1>3, <2>1 DEF Planning, PlanStep, Validate, Select, AddDependency, UnknownDependency,
         Closed, PutContext, SelectRow, RenewRow, Finish, RunInv, PlanInv, PlanOK, Making, HasPlan
    <3>. QED
      BY <3>1 DEF OnlySlippedIsMissing, HasPlan
  <2>2. CASE Finish
    BY <1>2, <2>2 DEF Finish, RunInv, ValidatedOK
  <2>. QED
    BY <1>3, <2>1, <2>2 DEF Planning, PlanStep, Validate, Select, AddDependency,
       UnknownDependency, Closed, PutContext, SelectRow, RenewRow
<1>4. CASE Dispatch
  <2> DEFINE c == Head(queue)
  <2>1. /\ phase = "dispatch" /\ queue # <<>> /\ repeated' = repeated \cup {c}
        /\ request' = request /\ slipped' = slipped /\ outcome = "none"
        /\ Fetches(c) \/ Stops(c)
    BY <1>4, DispatchFacts DEF RunInv, ValidatedOK
  <2>2. CASE outcome' = "KeyError"
    <3>1. Stops(c)
      BY <2>1, <2>2, Zenon DEF Fetches
    <3>2. Wanted(c) \cap ({Task} \cup slipped) # {}
      BY <2>1, <2>2, <3>1, HeadIsCall, WhatIsMissing
    <3>3. \A k : Requested(k)' = Requested(k)
      BY <2>1 DEF Requested, Of
    <3>. QED
      BY <2>1, <3>2, <3>3 DEF OnlySlippedIsMissing, Wanted
  <2>. QED
    BY <1>2, <2>2
<1>5. CASE Start \/ Ask \/ Timeout \/ NextTurn \/ Answered \/ Unanswered
  <2>1. /\ UNCHANGED <<plan, request, repeated, slipped>>
        /\ outcome' = outcome \/ outcome' # "KeyError"
    BY <1>5, Zenon DEF Start, Ask, Timeout, NextTurn, Answered, Unanswered, End, runVars
  <2>. QED
    BY <1>1, <1>2, <2>1
<1>6. CASE Cancel \/ TimePasses \/ (Sweep /\ UNCHANGED runVars) \/ UNCHANGED vars
  BY <1>1, <1>6 DEF Cancel, TimePasses, Sweep, vars, planVars, runVars
<1>. QED
  BY <1>3, <1>4, <1>5, <1>6 DEF RunNext, RunStep

(* However other processes sweep the store, a run with a plan asks in vain *)
(* only for the evidence of the task, which has none, and for rows swept   *)
(* while the plan read them.                                               *)
THEOREM LosesNoEvidence == RunSpec => []OnlySlippedIsMissing
<1>1. RunInit => OnlySlippedIsMissing
  BY DEF RunInit, PlanInit, OnlySlippedIsMissing
<1>. QED
  BY <1>1, MissingStep, RunInvariant, PTL DEF RunSpec

-----------------------------------------------------------------------------
(* How the context grows: by one block at the end, or not at all.          *)
Grows(b) == /\ Len(working') = Len(working) + 1
            /\ \A i \in 1 .. Len(working) : working'[i] = working[i]
            /\ working'[Len(working) + 1] = b

LEMMA AppendGrows ==
  ASSUME RunInv, NEW b, working' = Append(working, b)
  PROVE  Grows(b)
<1>1. working \in Seq(Block)
  BY DEF RunInv, RunDataOK
<1>. QED
  BY <1>1 DEF Grows

LEMMA WorkingStep ==
  ASSUME RunInv, [RunNext]_vars
  PROVE  \/ working' = working
         \/ phase = "awaiting" /\ \E calls \in Replies : working' = Append(working, Assistant(calls))
         \/ Dispatch /\ \E size \in Nat : working' = Append(working, Result(Head(queue), size))
<1>1. CASE Answered
  BY <1>1 DEF Answered, WithAnswer
<1>2. CASE Dispatch
  <2>1. phase = "dispatch" /\ queue # <<>> /\ (Fetches(Head(queue)) \/ Stops(Head(queue)))
    BY <1>2, DispatchFacts DEF RunInv
  <2>2. CASE Fetches(Head(queue))
    <3>1. PICK size \in Sizes(Head(queue)) : working' = Append(working, Result(Head(queue), size))
      BY <2>2 DEF Fetches
    <3>2. Result(Head(queue), size) \in Block
      BY <2>1, <2>2, HeadIsCall, ResultType DEF Fetches
    <3>3. size \in Nat
      BY <3>2 DEF Result, Block
    <3>. QED
      BY <1>2, <3>1, <3>3
  <2>3. CASE Stops(Head(queue))
    BY <2>3, Zenon DEF Stops
  <2>. QED
    BY <2>1, <2>2, <2>3
<1>3. CASE ~Answered /\ ~Dispatch
  BY <1>3 DEF RunNext, RunStep, Planning, Start, Ask, Timeout, NextTurn, Unanswered, Cancel,
     TimePasses, Sweep, runVars, vars
<1>. QED
  BY <1>1, <1>2, <1>3

LEMMA PlanStays == ASSUME RunInv, [RunNext]_vars, HasPlan PROVE plan' = plan
<1>1. ~PlanStep
  BY DEF RunInv, PlanInv, PlanOK, PlanStep, Validate, Select, AddDependency, UnknownDependency,
     Closed, PutContext, SelectRow, RenewRow, Finish, Making
<1>. QED
  BY <1>1 DEF RunNext, RunStep, Planning, Start, Ask, Timeout, Dispatch, NextTurn, Answered,
     Unanswered, Cancel, TimePasses, Sweep, planVars, vars

(* What the provider has seen stays in front of what it sees next.         *)
THEOREM ShowsMoreEachTurn == RunSpec => ContextOnlyGrows
<1>1. RunInv /\ [RunNext]_vars => [IsPrefix(working, working') /\ (HasPlan => plan' = plan)]_vars
  <2> SUFFICES ASSUME RunInv, [RunNext]_vars
               PROVE  IsPrefix(working, working')
    BY PlanStays
  <2>1. working \in Seq(Block)
    BY DEF RunInv, RunDataOK
  <2>2. CASE working' = working
    BY <2>1, <2>2 DEF IsPrefix
  <2>3. ASSUME NEW b, working' = Append(working, b) PROVE IsPrefix(working, working')
    <3>1. Grows(b)
      BY <2>3, AppendGrows
    <3>. QED
      BY <2>1, <3>1 DEF IsPrefix, Grows
  <2>. QED
    BY <2>2, <2>3, WorkingStep
<1>. QED
  BY <1>1, RunInvariant, PTL DEF RunSpec, ContextOnlyGrows

-----------------------------------------------------------------------------
(* What has been retrieved: each result answers a call of its own, which   *)
(* the plan allowed.                                                       *)
Allowed(c) == /\ HasPlan
              /\ c.op \in plan.operations
              /\ c.id \in IF c.op = "tool.discover" THEN plan.tools ELSE plan.deferred
              /\ c.op = "dependency.get" => Requested(c) \subseteq Of(c.id).dependencies

RetrievedOK ==
  /\ \A i \in Results : /\ working[i].calls = <<working[i].calls[1]>>
                        /\ working[i].calls[1] \in repeated
                        /\ Allowed(working[i].calls[1])
  /\ \A i, j \in Results : working[i].calls = working[j].calls => i = j

LEMMA ResultsGrow ==
  ASSUME RunInv, RunInv', NEW b, Grows(b)
  PROVE  /\ Results' = Results \cup (IF b.kind = "tool_result" THEN {Len(working) + 1} ELSE {})
         /\ \A i \in Results : working'[i] = working[i]
         /\ Len(working) + 1 \notin DOMAIN working
         /\ DOMAIN working = 1 .. Len(working) /\ Len(working) \in Nat
<1>1. working \in Seq(Block) /\ working' \in Seq(Block)
  BY DEF RunInv, RunDataOK
<1>. QED
  BY <1>1 DEF Grows, Results

LEMMA RequestIsKept == ASSUME [RunNext]_vars PROVE request' = request
BY DEF RunNext, RunStep, Planning, PlanStep, Validate, Select, AddDependency, UnknownDependency,
   Closed, PutContext, SelectRow, RenewRow, Finish, Start, Ask, Timeout, Dispatch, NextTurn, Answered,
   Unanswered, Cancel, TimePasses, Sweep, planVars, vars

LEMMA AllowedKept ==
  ASSUME UNCHANGED <<request, plan>>, NEW c
  PROVE  Allowed(c)' = Allowed(c)
BY DEF Allowed, HasPlan, Requested, Of

LEMMA DispatchRetrieves ==
  ASSUME RunInv, RetrievedOK, Dispatch, Fetches(Head(queue)), RunInv'
  PROVE  RetrievedOK'
<1> DEFINE c == Head(queue)
           n == Len(working) + 1
<1>1. /\ repeated' = repeated \cup {c} /\ plan' = plan /\ request' = request /\ c \notin repeated
      /\ ~RefusedAtOnce(c) /\ (c.op # "tool.discover" => ~Undeclared(c))
  BY DispatchFacts DEF RunInv, Fetches, IsRepeated
<1>2. PICK size \in Sizes(c) : working' = Append(working, Result(c, size))
  BY DEF Fetches
<1>3. Grows(Result(c, size))
  BY <1>2, AppendGrows
<1>4. Result(c, size).kind = "tool_result" /\ Result(c, size).calls = <<c>>
  BY DEF Result
<1>5. /\ Results' = Results \cup {n} /\ \A i \in Results : working'[i] = working[i]
      /\ working'[n].calls = <<c>>
  BY <1>3, <1>4, ResultsGrow DEF Grows
<1>6. Allowed(c)
  <2>1. HasPlan
    BY DispatchFacts DEF RunInv, ValidatedOK, Turning
  <2>. QED
    BY <1>1, <2>1 DEF Allowed, RefusedAtOnce, Unavailable, Undeclared
<1>7. ASSUME NEW i \in Results'
      PROVE  /\ working'[i].calls = <<working'[i].calls[1]>>
             /\ working'[i].calls[1] \in repeated'
             /\ Allowed(working[i].calls[1])'
  <2>1. CASE i = n
    BY <1>1, <1>5, <1>6, <2>1, AllowedKept
  <2>2. CASE i \in Results
    BY <1>1, <1>5, <2>2, AllowedKept DEF RetrievedOK
  <2>. QED
    BY <1>5, <2>1, <2>2
<1>8. ASSUME NEW i \in Results', NEW j \in Results', working'[i].calls = working'[j].calls
      PROVE  i = j
  <2>1. ASSUME NEW k \in Results PROVE working'[k].calls # <<c>>
    BY <1>1, <1>5, <2>1 DEF RetrievedOK
  <2>. QED
    BY <1>5, <1>8, <2>1 DEF RetrievedOK
<1>. QED
  BY <1>7, <1>8 DEF RetrievedOK

LEMMA RetrievedStep ==
  ASSUME RunInv, RetrievedOK, [RunNext]_vars, RunInv'
  PROVE  RetrievedOK'
<1>1. ASSUME working' = working, plan' = plan, repeated \subseteq repeated' PROVE RetrievedOK'
  <2>1. \A c : Allowed(c)' = Allowed(c)
    BY <1>1, RequestIsKept, AllowedKept
  <2>. QED
    BY <1>1, <2>1 DEF RetrievedOK, Results
<1>2. CASE phase \in Making
  <2>1. Results = {}
    BY <1>2 DEF RunInv, BeginningOK, Beginning, Results
  <2>2. working' = working
    BY <1>2, WorkingStep, DispatchFacts DEF RunInv, Making
  <2>. QED
    BY <2>1, <2>2 DEF RetrievedOK, Results
<1>3. CASE phase \notin Making
  <2>1. CASE Dispatch
    <3>1. CASE Fetches(Head(queue))
      BY <2>1, <3>1, DispatchRetrieves
    <3>2. CASE Stops(Head(queue))
      <4>1. working' = working
        BY <3>2, Zenon DEF Stops
      <4>. QED
        BY <1>1, <2>1, <4>1, DispatchFacts DEF RunInv
    <3>. QED
      BY <2>1, <3>1, <3>2, DispatchFacts DEF RunInv
  <2>2. CASE Answered
    <3>1. plan' = plan /\ repeated' = repeated
      BY <2>2 DEF Answered
    <3>2. ASSUME NEW calls \in Replies, working' = Append(working, Assistant(calls))
          PROVE  RetrievedOK'
      <4>1. Grows(Assistant(calls)) /\ Assistant(calls).kind = "assistant"
        BY <3>2, AppendGrows DEF Assistant
      <4>2. Results' = Results /\ \A i \in Results : working'[i] = working[i]
        BY <4>1, ResultsGrow
      <4>3. \A c : Allowed(c)' = Allowed(c)
        BY <3>1, RequestIsKept, AllowedKept
      <4>. QED
        BY <3>1, <4>2, <4>3 DEF RetrievedOK
    <3>. QED
      BY <1>1, <2>2, <3>1, <3>2 DEF Answered, WithAnswer
  <2>3. CASE ~Dispatch /\ ~Answered
    <3>1. ~PlanStep
      BY <1>3 DEF PlanStep, Validate, Select, AddDependency, UnknownDependency, Closed,
         PutContext, SelectRow, RenewRow, Finish, Making
    <3>2. working' = working /\ plan' = plan /\ repeated' = repeated
      BY <2>3, <3>1 DEF RunNext, RunStep, Planning, Start, Ask, Timeout, NextTurn, Unanswered,
         Cancel, TimePasses, Sweep, runVars, planVars, vars
    <3>. QED
      BY <1>1, <3>2
  <2>. QED
    BY <2>1, <2>2, <2>3
<1>. QED
  BY <1>2, <1>3

(* A retrieval brings only what was deferred, nothing twice for the same   *)
(* call, and what was sent with the plan only as a declared dependency,    *)
(* whatever the provider asks for and however often.                       *)
THEOREM RetrievesOnlyDeferred == RunSpec => []OnlyDeferredRetrieved
<1>1. RunInit => RetrievedOK
  BY DEF RunInit, RetrievedOK, Results
<1>2. RunInv /\ RetrievedOK => OnlyDeferredRetrieved
  <2> SUFFICES ASSUME RunInv, RetrievedOK PROVE OnlyDeferredRetrieved
    OBVIOUS
  <2>1. ASSUME NEW c, Allowed(c), NEW k \in Brought(c) \cap plan.sent
        PROVE  c.op = "dependency.get" /\ k \in Of(c.id).dependencies
    <3>1. CASE c.op = "dependency.get"
      BY <2>1, <3>1 DEF Allowed, Brought
    <3>2. CASE c.op # "dependency.get"
      <4>1. c.op # "tool.discover" /\ k = c.id
        BY <2>1, <3>2 DEF Brought
      <4>. QED
        BY <2>1, <4>1, InvSentOrDeferred DEF Allowed, RunInv, SentOrDeferred
    <3>. QED
      BY <3>1, <3>2
  <2>2. ASSUME NEW c, Allowed(c)
        PROVE  /\ c.op \in plan.operations
               /\ c.id \in IF c.op = "tool.discover" THEN plan.tools ELSE plan.deferred
    BY <2>2 DEF Allowed
  <2>. QED
    BY <2>1, <2>2 DEF RetrievedOK, OnlyDeferredRetrieved
<1>. QED
  BY <1>1, <1>2, RetrievedStep, RunInvariant, PTL DEF RunSpec

-----------------------------------------------------------------------------
(* Calls and results.  The results of an answer follow it in the order of  *)
(* its calls; the calls in the queue are the last ones of the last answer. *)
Answers == DOMAIN working \ Results

PairedOK ==
  /\ \A i \in Answers : \A k \in 1 .. Len(working[i].calls) :
       i + k <= Len(working) => i + k \in Results /\ working[i + k].calls = <<working[i].calls[k]>>
  /\ \A i \in Answers : i + Len(working[i].calls) <= Len(working) + Len(queue)
  /\ \A i \in Results : \E j \in Answers : i \in j + 1 .. j + Len(working[j].calls)
  /\ queue # <<>> => \E j \in Answers :
       /\ j + Len(working[j].calls) = Len(working) + Len(queue)
       /\ \A k \in 1 .. Len(queue) : queue[k] = working[j].calls[Len(working) - j + k]
       /\ \A i \in Answers : i <= j
  /\ phase \notin {"dispatch", "ended"} => queue = <<>>

LEMMA PairedData ==
  ASSUME RunInv
  PROVE  /\ DOMAIN working = 1 .. Len(working) /\ Len(working) \in Nat
         /\ DOMAIN queue = 1 .. Len(queue) /\ Len(queue) \in Nat
         /\ \A i \in DOMAIN working : /\ DOMAIN working[i].calls = 1 .. Len(working[i].calls)
                                     /\ Len(working[i].calls) \in Nat
         /\ \A i \in Answers : /\ i \in 1 .. Len(working) /\ i \in Nat
                              /\ Len(working[i].calls) \in Nat
<1>1. working \in Seq(Block) /\ queue \in Seq(Call)
  BY DEF RunInv, RunDataOK
<1>2. ASSUME NEW i \in DOMAIN working PROVE working[i].calls \in Seq(Call)
  <2>1. working[i] \in Block
    BY <1>1, <1>2
  <2>. QED
    BY <2>1 DEF Block
<1>3. DOMAIN working = 1 .. Len(working) /\ Len(working) \in Nat
  BY <1>1
<1>4. DOMAIN queue = 1 .. Len(queue) /\ Len(queue) \in Nat
  BY <1>1
<1>5. \A i \in DOMAIN working : /\ DOMAIN working[i].calls = 1 .. Len(working[i].calls)
                              /\ Len(working[i].calls) \in Nat
  BY <1>2
<1>. QED
  BY <1>3, <1>4, <1>5 DEF Answers

LEMMA NextDomain == ASSUME RunInv' PROVE DOMAIN working' = 1 .. Len(working')
<1>1. working' \in Seq(Block)
  BY DEF RunInv, RunDataOK
<1>. QED
  BY <1>1

LEMMA DispatchPairs ==
  ASSUME RunInv, PairedOK, Dispatch, Fetches(Head(queue)), RunInv'
  PROVE  PairedOK'
<1> DEFINE c == Head(queue)
           n == Len(working) + 1
<1>1. queue # <<>> /\ phase = "dispatch" /\ phase' \in {"dispatch", "ended"}
  BY DispatchFacts DEF RunInv, Fetches
<1>2. PICK size \in Sizes(c) : working' = Append(working, Result(c, size))
  BY DEF Fetches
<1>3. Grows(Result(c, size))
  BY <1>2, AppendGrows
<1>4. Result(c, size).kind = "tool_result" /\ Result(c, size).calls = <<c>>
  BY DEF Result
<1>5. /\ Results' = Results \cup {n}
      /\ \A i \in DOMAIN working : working'[i] = working[i]
      /\ Len(working') = n /\ working'[n].calls = <<c>>
      /\ DOMAIN working' = 1 .. n
  BY <1>3, <1>4, ResultsGrow, NextDomain DEF Grows
<1>6. Answers' = Answers /\ n \notin DOMAIN working /\ Answers \subseteq 1 .. Len(working)
  BY <1>5, PairedData DEF Answers, Results
<1>7. /\ Len(queue') = Len(queue) - 1 /\ c = queue[1] /\ Len(queue) >= 1
      /\ \A k \in 1 .. Len(queue') : queue'[k] = queue[k + 1]
  <2>1. queue \in Seq(Call) /\ queue' = Tail(queue)
    BY DEF RunInv, RunDataOK, Fetches
  <2>. QED
    BY <1>1, <2>1
<1>8. PICK j \in Answers :
        /\ j + Len(working[j].calls) = Len(working) + Len(queue)
        /\ \A k \in 1 .. Len(queue) : queue[k] = working[j].calls[Len(working) - j + k]
        /\ \A i \in Answers : i <= j
  BY <1>1 DEF PairedOK
<1>9. ASSUME NEW i \in Answers, NEW k \in 1 .. Len(working[i].calls), i + k <= n
      PROVE  i + k \in Results' /\ working'[i + k].calls = <<working[i].calls[k]>>
  <2>1. CASE i + k <= Len(working)
    <3>1. i + k \in Results /\ working[i + k].calls = <<working[i].calls[k]>>
      BY <1>9, <2>1 DEF PairedOK
    <3>. QED
      BY <1>5, <3>1 DEF Results
  <2>2. CASE i + k = n
    <3>1. i = j
      <4>1. SUFFICES ASSUME i < j PROVE FALSE
        BY <1>6, <1>8
      <4>2. j - i \in 1 .. Len(working[i].calls) /\ i + (j - i) = j /\ j <= Len(working)
        BY <1>6, <2>2, <4>1, PairedData DEF Answers
      <4>3. j \in Results
        BY <4>2 DEF PairedOK
      <4>. QED
        BY <4>3 DEF Answers
    <3>2. k = Len(working) - j + 1
      BY <1>6, <2>2, <3>1, PairedData
    <3>3. working[j].calls[k] = c
      BY <1>7, <1>8, <3>2, PairedData
    <3>. QED
      BY <1>5, <2>2, <3>1, <3>3
  <2>3. i \in Nat /\ k \in Nat /\ Len(working) \in Nat
    <3>1. Len(working) \in Nat /\ Len(working[i].calls) \in Nat
      BY PairedData
    <3>2. i \in 1 .. Len(working)
      BY <1>6
    <3>. QED
      BY <3>1, <3>2
  <2>4. i + k <= Len(working) \/ i + k = n
    BY <1>9, <2>3
  <2>. QED
    BY <2>1, <2>2, <2>4
<1>10. ASSUME NEW i \in Answers
       PROVE  i + Len(working[i].calls) <= n + Len(queue')
  BY <1>6, <1>7, PairedData DEF PairedOK
<1>11. ASSUME NEW i \in Results'
       PROVE  \E a \in Answers : i \in a + 1 .. a + Len(working[a].calls)
  <2>1. CASE i = n
    BY <1>6, <1>7, <1>8, <2>1, PairedData
  <2>. QED
    BY <1>5, <1>11, <2>1 DEF PairedOK
<1>12. ASSUME NEW k \in 1 .. Len(queue')
       PROVE  queue'[k] = working[j].calls[n - j + k]
  <2>1. k + 1 \in 1 .. Len(queue) /\ n - j + k = Len(working) - j + (k + 1)
    BY <1>6, <1>7, PairedData
  <2>. QED
    BY <1>7, <1>8, <2>1
<1>13. j + Len(working[j].calls) = n + Len(queue')
  <2>1. Len(working) \in Nat /\ Len(queue) \in Nat /\ Len(queue') = Len(queue) - 1
    BY <1>7, PairedData
  <2>2. j + Len(working[j].calls) = Len(working) + Len(queue)
    BY <1>8
  <2>. QED
    BY <2>1, <2>2
<1>14. \A i \in Answers' : working'[i] = working[i]
  BY <1>5, <1>6 DEF Answers
<1>15. /\ \A i \in Answers' : \A k \in 1 .. Len(working'[i].calls) :
            i + k <= Len(working') =>
              i + k \in Results' /\ working'[i + k].calls = <<working'[i].calls[k]>>
       /\ \A i \in Answers' : i + Len(working'[i].calls) <= Len(working') + Len(queue')
       /\ \A i \in Results' : \E a \in Answers' : i \in a + 1 .. a + Len(working'[a].calls)
  <2>1. ASSUME NEW i \in Answers', NEW k \in 1 .. Len(working'[i].calls), i + k <= Len(working')
        PROVE  i + k \in Results' /\ working'[i + k].calls = <<working'[i].calls[k]>>
    <3>1. i \in Answers /\ working'[i] = working[i] /\ Len(working') = n
      BY <1>5, <1>6, <1>14
    <3>2. k \in 1 .. Len(working[i].calls) /\ i + k <= n
      BY <2>1, <3>1
    <3>. QED
      BY <1>9, <3>1, <3>2
  <2>2. ASSUME NEW i \in Answers'
        PROVE  i + Len(working'[i].calls) <= Len(working') + Len(queue')
    BY <1>5, <1>6, <1>10, <1>14
  <2>3. ASSUME NEW i \in Results'
        PROVE  \E a \in Answers' : i \in a + 1 .. a + Len(working'[a].calls)
    <3>1. PICK a \in Answers : i \in a + 1 .. a + Len(working[a].calls)
      BY <1>11
    <3>2. a \in Answers' /\ working'[a] = working[a]
      BY <1>6, <1>14
    <3>. QED
      BY <3>1, <3>2
  <2>. QED
    BY <2>1, <2>2, <2>3
<1>16. /\ j \in Answers'
       /\ j + Len(working'[j].calls) = Len(working') + Len(queue')
       /\ \A k \in 1 .. Len(queue') : queue'[k] = working'[j].calls[Len(working') - j + k]
       /\ \A i \in Answers' : i <= j
  BY <1>5, <1>6, <1>8, <1>12, <1>13, <1>14
<1>. QED
  BY <1>1, <1>15, <1>16 DEF PairedOK

LEMMA AnswerPairs ==
  ASSUME RunInv, PairedOK, Answered, RunInv', NEW calls \in Replies,
         working' = Append(working, Assistant(calls)), queue' = calls, phase' = "dispatch"
  PROVE  PairedOK'
<1> DEFINE n == Len(working) + 1
<1>1. queue = <<>> /\ Len(queue) = 0
  BY DEF Answered, PairedOK
<1>2. Grows(Assistant(calls)) /\ Assistant(calls).kind = "assistant"
      /\ Assistant(calls).calls = calls
  BY AppendGrows DEF Assistant
<1>3. /\ Results' = Results
      /\ \A i \in DOMAIN working : working'[i] = working[i]
      /\ Len(working') = n /\ working'[n].calls = calls
      /\ DOMAIN working' = 1 .. n /\ DOMAIN working = 1 .. Len(working)
  BY <1>2, ResultsGrow, NextDomain DEF Grows
<1>4. Answers' = Answers \cup {n} /\ Answers \subseteq 1 .. Len(working) /\ n \notin Answers
  BY <1>3, PairedData DEF Answers, Results
<1>5. Len(calls) \in Nat
  BY AssistantType
<1>6. ASSUME NEW i \in Answers', NEW k \in 1 .. Len(working'[i].calls), i + k <= n
      PROVE  i + k \in Results' /\ working'[i + k].calls = <<working'[i].calls[k]>>
  <2>1. i # n
    BY <1>6, PairedData
  <2>2. i \in Answers /\ working'[i] = working[i]
    BY <1>3, <1>4, <2>1 DEF Answers
  <2>3. i + k <= Len(working)
    BY <1>1, <1>4, <2>2, PairedData DEF PairedOK, Answers
  <2>4. i + k \in Results /\ working[i + k].calls = <<working[i].calls[k]>>
    BY <2>2, <2>3 DEF PairedOK
  <2>. QED
    BY <1>3, <2>2, <2>4 DEF Results
<1>7. ASSUME NEW i \in Answers'
      PROVE  i + Len(working'[i].calls) <= n + Len(calls)
  <2>1. CASE i = n
    BY <1>3, <1>5, <2>1, PairedData
  <2>2. CASE i \in Answers
    BY <1>1, <1>3, <1>4, <1>5, <2>2, PairedData DEF PairedOK, Answers
  <2>. QED
    BY <1>4, <2>1, <2>2
<1>8. ASSUME NEW i \in Results'
      PROVE  \E j \in Answers' : i \in j + 1 .. j + Len(working'[j].calls)
  <2>1. PICK j \in Answers : i \in j + 1 .. j + Len(working[j].calls)
    BY <1>3, <1>8 DEF PairedOK
  <2>. QED
    BY <1>3, <1>4, <2>1 DEF Answers
<1>9. /\ n \in Answers' /\ n + Len(working'[n].calls) = n + Len(calls)
      /\ \A k \in 1 .. Len(calls) : calls[k] = working'[n].calls[n - n + k]
      /\ \A i \in Answers' : i <= n
  BY <1>3, <1>4, <1>5, PairedData
<1>10. Len(queue') = Len(calls) /\ Len(working') = n
  BY <1>3
<1>11. \E j \in Answers' :
         /\ j + Len(working'[j].calls) = Len(working') + Len(queue')
         /\ \A k \in 1 .. Len(queue') : queue'[k] = working'[j].calls[Len(working') - j + k]
         /\ \A i \in Answers' : i <= j
  BY <1>9, <1>10
<1>. QED
  BY <1>6, <1>7, <1>8, <1>10, <1>11 DEF PairedOK

LEMMA PairedStep ==
  ASSUME RunInv, PairedOK, [RunNext]_vars, RunInv'
  PROVE  PairedOK'
<1>1. ASSUME UNCHANGED <<working, queue>>,
             phase' \in {"dispatch", "ended"} \/ queue = <<>>
      PROVE  PairedOK'
  BY <1>1 DEF PairedOK, Answers, Results
<1>2. CASE Dispatch
  <2>1. phase = "dispatch" /\ queue # <<>> /\ (Fetches(Head(queue)) \/ Stops(Head(queue)))
    BY <1>2, DispatchFacts DEF RunInv
  <2>2. CASE Fetches(Head(queue))
    BY <1>2, <2>2, DispatchPairs
  <2>3. CASE Stops(Head(queue))
    <3>1. UNCHANGED <<working, queue>> /\ phase' = "ended"
      BY <2>3, Zenon DEF Stops
    <3>. QED
      BY <1>1, <3>1
  <2>. QED
    BY <2>1, <2>2, <2>3
<1>3. CASE Answered
  <2>1. CASE End("completed") /\ UNCHANGED <<working, queue>>
    BY <1>1, <2>1 DEF End
  <2>2. CASE End("malformed call") /\ UNCHANGED <<working, queue>>
    <3>1. phase' = "ended"
      BY <2>2, Zenon DEF End
    <3>. QED
      BY <1>1, <2>2, <3>1
  <2>3. ASSUME NEW calls \in Replies, working' = WithAnswer(calls), queue' = calls,
               phase' = "dispatch"
        PROVE  PairedOK'
    BY <1>3, <2>3, AnswerPairs DEF WithAnswer
  <2>. QED
    BY <1>3, <2>1, <2>2, <2>3, Zenon DEF Answered
<1>4. CASE ~Dispatch /\ ~Answered
  <2>1. /\ UNCHANGED <<working, queue>>
        /\ phase' = phase \/ phase' \in {"dispatch", "ended"} \/ queue = <<>>
    BY <1>4 DEF PairedOK, RunNext, RunStep, Planning, PlanStep, Validate, Select, AddDependency,
       UnknownDependency, Closed, PutContext, SelectRow, RenewRow, Finish, Start, Ask, Timeout, NextTurn,
       Unanswered, Cancel, TimePasses, Sweep, runVars, planVars, vars
  <2>2. phase' = phase => phase' \in {"dispatch", "ended"} \/ queue = <<>>
    BY DEF PairedOK
  <2>. QED
    BY <1>1, <2>1, <2>2
<1>. QED
  BY <1>2, <1>3, <1>4

(* However many calls an answer makes, the request that follows shows each *)
(* of them with its result and no result without its call.                 *)
THEOREM AnswersEveryCall == RunSpec => []CallsAnswered
<1>1. RunInit => PairedOK
  BY DEF RunInit, PairedOK, Answers, Results
<1>2. RunInv /\ PairedOK => CallsAnswered
  <2> SUFFICES ASSUME RunInv, PairedOK, Sending PROVE CallsAnswered
    BY DEF CallsAnswered
  <2>1. Len(queue) = 0
    BY DEF Sending, PairedOK
  <2>2. ASSUME NEW i \in Answers, NEW k \in 1 .. Len(working[i].calls)
        PROVE  i + k <= Len(working)
    BY <2>1, <2>2, PairedData DEF PairedOK, Answers
  <2>. QED
    BY <2>2, PairedData DEF PairedOK, Answers, CallsAnswered
<1>. QED
  BY <1>1, <1>2, PairedStep, RunInvariant, PTL DEF RunSpec

-----------------------------------------------------------------------------
(* The bounds are looked at when the last call of an answer has been       *)
(* executed: that of bytes after every result, that of tokens before the   *)
(* next turn begins.  Nothing that they compare changes until the request  *)
(* is sent.                                                                *)
WithinOK ==
  /\ phase = "dispatch" /\ queue = <<>> => ~TooLarge(working)
  /\ phase \in {"turn", "awaiting"} /\ working # <<>> => ~TooLarge(working) /\ ~OverBudget

LEMMA TooLargeSame ==
  ASSUME UNCHANGED <<request, plan>>, NEW blocks, working' = blocks
  PROVE  TooLarge(working)' = TooLarge(blocks)
<1>1. SentVolume' = SentVolume
  BY DEF SentVolume, SentResults, Of, MapThenSumSet, MapThenFoldSet
<1>2. Volume(working)' = Volume(blocks)
  BY <1>1 DEF Volume, FoldLeft, MapThenFoldSet, Max
<1>. QED
  BY <1>2 DEF TooLarge

LEMMA WithinStep == ASSUME RunInv, WithinOK, [RunNext]_vars PROVE WithinOK'
<1>1. ASSUME UNCHANGED <<request, plan, working, usage>>, phase' \in {"turn", "awaiting"},
             phase' = phase \/ phase = "turn" \/ working = <<>> \/ (~TooLarge(working) /\ ~OverBudget)
      PROVE  WithinOK'
  <2>1. TooLarge(working)' = TooLarge(working) /\ OverBudget' = OverBudget
    BY <1>1, TooLargeSame DEF OverBudget
  <2>. QED
    BY <1>1, <2>1 DEF WithinOK
<1>2. CASE Dispatch
  <2>1. /\ phase = "dispatch" /\ UNCHANGED <<request, plan>>
        /\ Fetches(Head(queue)) \/ Stops(Head(queue))
    BY <1>2, DispatchFacts DEF RunInv
  <2>2. phase' = "ended" \/ (phase' = "dispatch" /\ ~TooLarge(working'))
    BY <2>1, Zenon DEF Fetches, Stops
  <2>3. TooLarge(working)' = TooLarge(working')
    BY <2>1, TooLargeSame
  <2>. QED
    BY <2>2, <2>3 DEF WithinOK
<1>3. CASE Answered
  <2>1. phase' = "ended" \/ (phase' = "dispatch" /\ queue' # <<>>)
    BY <1>3, Zenon DEF Answered, End
  <2>. QED
    BY <2>1 DEF WithinOK
<1>4. CASE NextTurn
  <2>1. /\ phase = "dispatch" /\ queue = <<>> /\ UNCHANGED <<request, plan, working, usage>>
        /\ phase' = "ended" \/ (phase' = "turn" /\ ~OverBudget)
    BY <1>4, Zenon DEF NextTurn, End
  <2>2. ~TooLarge(working)
    BY <2>1 DEF WithinOK
  <2>. QED
    BY <1>1, <2>1, <2>2 DEF WithinOK
<1>5. CASE Start
  <2>1. /\ phase = "planned" /\ UNCHANGED <<request, plan, working, usage>>
        /\ phase' = "ended" \/ phase' = "turn"
    BY <1>5, Zenon DEF Start, End
  <2>2. working = <<>>
    BY <2>1 DEF RunInv, BeginningOK, Beginning
  <2>. QED
    BY <1>1, <2>1, <2>2 DEF WithinOK
<1>6. CASE Ask
  <2>1. /\ phase = "turn" /\ UNCHANGED <<request, plan, working, usage>>
        /\ phase' = "ended" \/ phase' = "awaiting"
    BY <1>6, Zenon DEF Ask, End, runVars
  <2>. QED
    BY <1>1, <2>1 DEF WithinOK
<1>7. CASE Planning \/ Timeout \/ Unanswered
  <2>1. phase' \notin {"dispatch", "turn", "awaiting"}
    BY <1>7, Zenon DEF Planning, PlanStep, Validate, Select, AddDependency, UnknownDependency, Closed,
       PersistNext, PutContext, SelectRow, RenewRow, Finish, Timeout, Unanswered, End
  <2>. QED
    BY <2>1 DEF WithinOK
<1>8. CASE Cancel \/ TimePasses \/ (Sweep /\ UNCHANGED runVars) \/ UNCHANGED vars
  <2>1. UNCHANGED <<phase, request, plan, working, queue, usage>>
    BY <1>8 DEF Cancel, TimePasses, Sweep, vars, planVars, runVars
  <2>2. TooLarge(working)' = TooLarge(working) /\ OverBudget' = OverBudget
    BY <2>1, TooLargeSame DEF OverBudget
  <2>. QED
    BY <2>1, <2>2 DEF WithinOK
<1>. QED
  BY <1>2, <1>3, <1>4, <1>5, <1>6, <1>7, <1>8 DEF RunNext, RunStep

(* A continuation is never sent beyond the bound of bytes or of tokens,    *)
(* however the results and the costs of the turns add up.                  *)
THEOREM StaysWithinBounds == RunSpec => []ContinuesWithinBounds
<1> DEFINE OfCaller == request \in Requests
<1>1. RunInit => WithinOK /\ OfCaller
  BY DEF RunInit, PlanInit, WithinOK
<1>2. OfCaller /\ [RunNext]_vars => OfCaller'
  BY DEF RunNext, RunStep, Planning, PlanStep, Validate, Select, AddDependency, UnknownDependency,
     Closed, PutContext, SelectRow, RenewRow, Finish, Start, Ask, Timeout, Dispatch, NextTurn, Answered,
     Unanswered, Cancel, TimePasses, Sweep, planVars, vars
<1>3. RunInv /\ WithinOK /\ OfCaller => ContinuesWithinBounds
  <2> SUFFICES ASSUME RunInv, WithinOK, OfCaller, Sending, working # <<>>
               PROVE  ContinuesWithinBounds
    BY DEF ContinuesWithinBounds
  <2>1. ~TooLarge(working) /\ ~OverBudget
    BY DEF WithinOK, Sending
  <2>2. usage.total \in Nat /\ request.max_total_tokens \in Nat \cup {Nothing}
    BY RuntimeAssumption DEF RunInv, RunDataOK
  <2>. QED
    BY <2>1, <2>2 DEF TooLarge, OverBudget, ContinuesWithinBounds
<1>. QED
  BY <1>1, <1>2, <1>3, WithinStep, RunInvariant, PTL DEF RunSpec

-----------------------------------------------------------------------------
(* No run is endless.                                                      *)

(* The turn a run is in is one that its request allows, or the one at      *)
(* which it finds that it has had them all.                                *)
TurnsOK ==
  /\ request \in Requests
  /\ turn <= request.max_turns + 1
  /\ phase \in {"awaiting", "dispatch"} => turn <= request.max_turns

(* A step keeps to the turns.                                              *)
LEMMA TurnsStep == ASSUME RunInv, TurnsOK, [RunNext]_vars PROVE TurnsOK'
<1>1. request' = request /\ turn \in Nat /\ request.max_turns \in Nat \ {0}
  <2>1. request' = request
    BY RequestIsKept
  <2>. QED
    BY <2>1, RuntimeAssumption DEF RunInv, RunDataOK, TurnsOK
<1>2. ASSUME turn' = turn, phase' \in {"awaiting", "dispatch"} => turn <= request.max_turns
      PROVE  TurnsOK'
  BY <1>1, <1>2 DEF TurnsOK
<1>3. CASE Start
  <2>1. (phase' = "ended" /\ turn' = turn) \/ (phase' = "turn" /\ turn' = 1)
    BY <1>3, Zenon DEF Start, End
  <2>. QED
    BY <1>1, <2>1 DEF TurnsOK
<1>4. CASE Ask
  <2>1. turn' = turn /\ (phase' = "ended" \/ (phase' = "awaiting" /\ ~TurnLimitReached))
    BY <1>4, Zenon DEF Ask, End, runVars
  <2>. QED
    BY <1>1, <1>2, <2>1 DEF TurnLimitReached
<1>5. CASE NextTurn
  <2>1. /\ phase = "dispatch"
        /\ (phase' = "ended" /\ turn' = turn) \/ (phase' = "turn" /\ turn' = turn + 1)
    BY <1>5, Zenon DEF NextTurn, End
  <2>. QED
    BY <1>1, <2>1 DEF TurnsOK
<1>6. CASE Dispatch
  <2>1. turn' = turn /\ phase = "dispatch"
    BY <1>6 DEF Dispatch
  <2>. QED
    BY <1>2, <2>1 DEF TurnsOK
<1>7. CASE Answered
  <2>1. turn' = turn /\ phase = "awaiting"
    BY <1>7 DEF Answered
  <2>. QED
    BY <1>2, <2>1 DEF TurnsOK
<1>8. CASE Planning \/ Timeout \/ Unanswered
  <2>1. turn' = turn /\ phase' \notin {"awaiting", "dispatch"}
    BY <1>8, Zenon DEF Planning, PlanStep, Validate, Select, AddDependency, UnknownDependency, Closed,
       PersistNext, PutContext, SelectRow, RenewRow, Finish, Timeout, Unanswered, End, runVars
  <2>. QED
    BY <1>2, <2>1
<1>9. CASE Cancel \/ TimePasses \/ (Sweep /\ UNCHANGED runVars) \/ UNCHANGED vars
  <2>1. turn' = turn /\ phase' = phase
    BY <1>9 DEF Cancel, TimePasses, Sweep, vars, planVars, runVars
  <2>. QED
    BY <1>2, <2>1 DEF TurnsOK
<1>. QED
  BY <1>3, <1>4, <1>5, <1>6, <1>7, <1>8, <1>9 DEF RunNext, RunStep

-----------------------------------------------------------------------------
(* What a run has before it: turns, the parts of a turn or of the plan,    *)
(* and contexts or calls in that part.                                     *)
TurnsLeft == IF phase = "ended" THEN 0 ELSE request.max_turns + 2 - turn

Stage == CASE phase = "validate" -> 6
           [] phase = "select" -> 5
           [] phase = "close" -> 4
           [] phase \in {"put", "get", "renew"} -> 3
           [] phase \in {"finish", "turn"} -> 2
           [] phase \in {"planned", "awaiting"} -> 1
           [] phase \in {"dispatch", "ended"} -> 0

Work == CASE phase = "close" -> Cardinality(Contexts \ selected)
          [] phase = "put" -> 3 * Cardinality(todo)
          [] phase = "get" -> 3 * Cardinality(todo) - 1
          [] phase = "renew" -> 3 * Cardinality(todo) - 2
          [] phase = "dispatch" -> Len(queue)
          [] OTHER -> 0

Before == <<<<TurnsLeft, Stage>>, Work>>

(* The lexicographic order of three numbers.                               *)
Less == OpToRel(<, Nat)
Descent == LexPairOrdering(LexPairOrdering(Less, Less, Nat, Nat), Less, Nat \X Nat, Nat)

(* A triple comes before another one.                                      *)
LEMMA Lowers ==
  ASSUME NEW a \in Nat, NEW b \in Nat, NEW c \in Nat, NEW x \in Nat, NEW y \in Nat, NEW z \in Nat,
         a < x \/ (a = x /\ (b < y \/ (b = y /\ c < z)))
  PROVE  <<<<<<a, b>>, c>>, <<<<x, y>>, z>>>> \in Descent
<1>1. \A m, n \in Nat : m < n => <<m, n>> \in Less
  BY DEF Less, OpToRel
<1>2. <<a, b>> = <<x, y>> \/ <<<<a, b>>, <<x, y>>>> \in LexPairOrdering(Less, Less, Nat, Nat)
  BY <1>1 DEF LexPairOrdering
<1>3. CASE <<<<a, b>>, <<x, y>>>> \in LexPairOrdering(Less, Less, Nat, Nat)
  <2> DEFINE R == LexPairOrdering(Less, Less, Nat, Nat)
  <2>. HIDE DEF R
  <2>. QED
    BY <1>3 DEF LexPairOrdering, Descent, R
<1>4. CASE <<a, b>> = <<x, y>>
  <2>1. c < z
    BY <1>4
  <2>. QED
    BY <1>1, <1>4, <2>1 DEF LexPairOrdering, Descent
<1>. QED
  BY <1>2, <1>3, <1>4

(* There is no infinite descent.                                           *)
LEMMA DescentEnds == IsWellFoundedOn(Descent, (Nat \X Nat) \X Nat)
<1>1. IsWellFoundedOn(Less, Nat)
  BY NatLessThanWellFounded DEF Less
<1>2. IsWellFoundedOn(LexPairOrdering(Less, Less, Nat, Nat), Nat \X Nat)
  BY <1>1, WFLexPairOrdering
<1>. QED
  BY <1>1, <1>2, WFLexPairOrdering DEF Descent

BeforeOK == TurnsLeft \in Nat /\ Stage \in Nat /\ Work \in Nat

(* All three are natural numbers: the contexts of a request are finite.    *)
LEMMA BeforeFacts ==
  ASSUME RunInv, TurnsOK
  PROVE  /\ BeforeOK
         /\ phase # "ended" => TurnsLeft >= 1
         /\ IsFiniteSet(Contexts \ selected) /\ IsFiniteSet(todo)
<1>1. request.max_turns \in Nat /\ turn \in Nat /\ turn <= request.max_turns + 1
  BY RuntimeAssumption DEF RunInv, RunDataOK, TurnsOK
<1>2. TurnsLeft \in Nat /\ (phase # "ended" => TurnsLeft >= 1)
  BY <1>1 DEF TurnsLeft
<1>3. phase \in Phases \cup Turning
  BY DEF RunInv, RunDataOK
<1>4. Stage \in Nat
  BY <1>3 DEF Stage, Phases, Turning
<1>5. IsFiniteSet(Contexts) /\ todo \subseteq Contexts
  BY DEF RunInv, PlanInv, PlanDataOK, IsRequest, Contexts
<1>6. IsFiniteSet(Contexts \ selected) /\ IsFiniteSet(todo)
  BY <1>5, FS_Subset
<1>7. Cardinality(Contexts \ selected) \in Nat /\ Cardinality(todo) \in Nat
  BY <1>6, FS_CardinalityType
<1>8. phase \in {"get", "renew"} => Cardinality(todo) # 0
  BY <1>6, FS_EmptySet DEF RunInv, PlanInv, PersistedOK
<1>9. Len(queue) \in Nat
  BY DEF RunInv, RunDataOK
<1>10. Work \in Nat
  BY <1>7, <1>8, <1>9 DEF Work
<1>. QED
  BY <1>2, <1>4, <1>6, <1>10 DEF BeforeOK

LEMMA BeforeType == RunInv /\ TurnsOK => BeforeOK
  BY BeforeFacts

(* The same before and after a step.                                       *)
LEMMA BeforeTypes ==
  ASSUME RunInv, TurnsOK, [RunNext]_vars
  PROVE  /\ TurnsLeft \in Nat /\ Stage \in Nat /\ Work \in Nat
         /\ TurnsLeft' \in Nat /\ Stage' \in Nat /\ Work' \in Nat
         /\ phase # "ended" => TurnsLeft >= 1
         /\ IsFiniteSet(Contexts \ selected) /\ IsFiniteSet(todo)
<1>1. RunInv' /\ TurnsOK'
  BY RunInvStep, TurnsStep
<1>2. (RunInv /\ TurnsOK => BeforeOK)'
  BY BeforeType, PTL
<1>. QED
  BY <1>1, <1>2, BeforeFacts DEF BeforeOK

(* A run that ends has less before it than it had.                         *)
LEMMA EndLowers ==
  ASSUME RunInv, TurnsOK, [RunNext]_vars, phase # "ended", phase' = "ended"
  PROVE  <<Before', Before>> \in Descent
<1>1. TurnsLeft' = 0 /\ TurnsLeft >= 1
  BY BeforeTypes DEF TurnsLeft
<1>2. TurnsLeft' < TurnsLeft
  BY <1>1, BeforeTypes
<1>. QED
  BY <1>2, BeforeTypes, Lowers DEF Before

(* So has a run that goes on to the next part, or has less left of this.   *)
LEMMA StageLowers ==
  ASSUME RunInv, TurnsOK, [RunNext]_vars, phase # "ended", phase' # "ended",
         UNCHANGED <<turn, request>>, Stage' < Stage \/ (Stage' = Stage /\ Work' < Work)
  PROVE  <<Before', Before>> \in Descent
<1>1. TurnsLeft' = TurnsLeft
  BY DEF TurnsLeft
<1>. QED
  BY <1>1, BeforeTypes, Lowers DEF Before

(* The steps of the plan.                                                  *)
LEMMA PlanLowers ==
  ASSUME RunInv, TurnsOK, [RunNext]_vars, Planning
  PROVE  <<Before', Before>> \in Descent
<1>1. UNCHANGED <<turn, request>> /\ phase # "ended"
  BY DEF Planning, PlanStep, runVars, Validate, Select, AddDependency, UnknownDependency, Closed,
     PutContext, SelectRow, RenewRow, Finish
<1>2. CASE phase' = "ended"
  BY <1>1, <1>2, EndLowers
<1>3. CASE phase' # "ended"
  <2>1. SUFFICES Stage' < Stage \/ (Stage' = Stage /\ Work' < Work)
    BY <1>1, <1>3, StageLowers
  <2>2. CASE Validate
    <3>1. phase = "validate" /\ phase' = "select"
      BY <1>3, <2>2 DEF Validate, End
    <3>. QED
      BY <3>1 DEF Stage
  <2>3. CASE Select
    <3>1. phase = "select" /\ phase' = "close"
      BY <2>3 DEF Select
    <3>. QED
      BY <3>1 DEF Stage
  <2>4. CASE AddDependency
    <3>1. PICK d \in Contexts \ selected : selected' = selected \cup {d}
      BY <2>4 DEF AddDependency, Missing
    <3>2. phase = "close" /\ phase' = "close" /\ Contexts' = Contexts
      BY <1>1, <2>4 DEF AddDependency, Contexts
    <3>3. (Contexts \ selected)' = (Contexts \ selected) \ {d}
      BY <3>1, <3>2
    <3>4. Cardinality((Contexts \ selected)') = Cardinality(Contexts \ selected) - 1
      BY <3>1, <3>3, BeforeTypes, FS_RemoveElement
    <3>5. Work' = Cardinality((Contexts \ selected)') /\ Work = Cardinality(Contexts \ selected)
      BY <3>2 DEF Work
    <3>. QED
      BY <3>2, <3>4, <3>5, BeforeTypes DEF Stage
  <2>5. CASE UnknownDependency
    BY <1>3, <2>5 DEF UnknownDependency, End
  <2>6. CASE Closed
    <3>1. phase = "close" /\ phase' \in {"put", "finish"}
      BY <2>6 DEF Closed, PersistNext
    <3>. QED
      BY <3>1 DEF Stage
  <2>7. CASE PutContext
    <3>1. phase = "put" /\ phase' = "get" /\ todo' = todo
      BY <2>7 DEF PutContext
    <3>2. Cardinality(todo) \in Nat
      BY BeforeTypes, FS_CardinalityType
    <3>3. Work' = 3 * Cardinality(todo) - 1 /\ Work = 3 * Cardinality(todo)
      BY <3>1 DEF Work
    <3>. QED
      BY <3>1, <3>2, <3>3 DEF Stage
  <2>8. CASE SelectRow
    <3>1. phase = "get" /\ phase' = "renew" /\ todo' = todo
      BY <1>3, <2>8 DEF SelectRow, End
    <3>2. Cardinality(todo) \in Nat
      BY BeforeTypes, FS_CardinalityType
    <3>3. Work' = 3 * Cardinality(todo) - 2 /\ Work = 3 * Cardinality(todo) - 1
      BY <3>1 DEF Work
    <3>. QED
      BY <3>1, <3>2, <3>3 DEF Stage
  <2>9. CASE RenewRow
    <3>1. phase = "renew" /\ phase' \in {"put", "finish"} /\ todo' = todo \ {current}
      BY <2>9 DEF RenewRow, PersistNext
    <3>2. current \in todo
      BY <3>1 DEF RunInv, PlanInv, PersistedOK
    <3>3. Cardinality(todo') = Cardinality(todo) - 1 /\ Cardinality(todo) \in Nat
      BY <3>1, <3>2, BeforeTypes, FS_RemoveElement, FS_CardinalityType
    <3>4. phase' = "put" => Work' = 3 * Cardinality(todo')
      BY DEF Work
    <3>5. Work = 3 * Cardinality(todo) - 2
      BY <3>1 DEF Work
    <3>. QED
      BY <3>1, <3>3, <3>4, <3>5 DEF Stage
  <2>10. CASE Finish
    <3>1. phase = "finish" /\ phase' = "planned"
      BY <2>10 DEF Finish
    <3>. QED
      BY <3>1 DEF Stage
  <2>. QED
    BY <2>2, <2>3, <2>4, <2>5, <2>6, <2>7, <2>8, <2>9, <2>10 DEF Planning, PlanStep
<1>. QED
  BY <1>2, <1>3

(* The steps of a turn.                                                    *)
LEMMA TurnLowers ==
  ASSUME RunInv, TurnsOK, [RunNext]_vars,
         Start \/ Ask \/ Timeout \/ Dispatch \/ NextTurn \/ Answered \/ Unanswered
  PROVE  <<Before', Before>> \in Descent
<1>1. phase # "ended"
  BY DEF Start, Ask, Timeout, Dispatch, NextTurn, Answered, Unanswered
<1>2. CASE phase' = "ended"
  BY <1>1, <1>2, EndLowers
<1>3. CASE phase' # "ended"
  <2>1. ASSUME request' = request, turn' = turn + 1
        PROVE  <<Before', Before>> \in Descent
    <3>1. TurnsLeft' < TurnsLeft
      BY <1>1, <1>3, <2>1, RuntimeAssumption DEF TurnsLeft, RunInv, RunDataOK, TurnsOK
    <3>. QED
      BY <3>1, BeforeTypes, Lowers DEF Before
  <2>2. ASSUME UNCHANGED <<turn, request>>, Stage' < Stage \/ (Stage' = Stage /\ Work' < Work)
        PROVE  <<Before', Before>> \in Descent
    BY <1>1, <1>3, <2>2, StageLowers
  <2>3. CASE Start
    <3>1. phase = "planned" /\ turn' = 1 /\ request' = request
      BY <1>3, <2>3, Zenon DEF Start, End
    <3>2. turn = 0
      BY <3>1 DEF RunInv, BeginningOK, Beginning
    <3>. QED
      BY <2>1, <3>1, <3>2
  <2>4. CASE Ask
    <3>1. phase = "turn" /\ phase' = "awaiting" /\ UNCHANGED <<turn, request>>
      BY <1>3, <2>4, Zenon DEF Ask, End, runVars
    <3>. QED
      BY <2>2, <3>1 DEF Stage
  <2>5. CASE Timeout \/ Unanswered
    BY <1>3, <2>5 DEF Timeout, Unanswered, End
  <2>6. CASE Answered
    <3>1. phase = "awaiting" /\ phase' = "dispatch" /\ UNCHANGED <<turn, request>>
      BY <1>3, <2>6, Zenon DEF Answered, End
    <3>. QED
      BY <2>2, <3>1 DEF Stage
  <2>7. CASE Dispatch
    <3>1. /\ phase = "dispatch" /\ queue # <<>> /\ UNCHANGED <<turn, request>>
          /\ Fetches(Head(queue)) \/ Stops(Head(queue))
      BY <2>7, DispatchFacts DEF RunInv
    <3>2. queue' = Tail(queue) /\ phase' = phase
      BY <1>3, <3>1, Zenon DEF Fetches, Stops
    <3>3. Len(Tail(queue)) < Len(queue)
      BY <3>1 DEF RunInv, RunDataOK
    <3>4. Work' < Work /\ Stage' = Stage
      BY <3>1, <3>2, <3>3 DEF Work, Stage
    <3>. QED
      BY <2>2, <3>1, <3>4
  <2>8. CASE NextTurn
    <3>1. turn' = turn + 1 /\ request' = request
      BY <1>3, <2>8, Zenon DEF NextTurn, End
    <3>. QED
      BY <2>1, <3>1
  <2>. QED
    BY <2>3, <2>4, <2>5, <2>6, <2>7, <2>8
<1>. QED
  BY <1>2, <1>3

(* Every step of a run, whatever the provider answers, brings its end      *)
(* nearer, in an order without infinite descent (DescentEnds); sweeps, a   *)
(* cancellation and the passing of time do not put it off.                 *)
THEOREM RunsDescend ==
  RunSpec => [][/\ RunStep \/ Answered \/ Unanswered => <<Before', Before>> \in Descent
                /\ Cancel \/ TimePasses \/ (Sweep /\ UNCHANGED runVars) => Before' = Before]_vars
<1> DEFINE Nearer ==
      /\ RunStep \/ Answered \/ Unanswered => <<Before', Before>> \in Descent
      /\ Cancel \/ TimePasses \/ (Sweep /\ UNCHANGED runVars) => Before' = Before
<1>1. RunInit => TurnsOK
  BY RuntimeAssumption DEF RunInit, PlanInit, TurnsOK
<1>2. RunInv /\ TurnsOK /\ [RunNext]_vars => TurnsOK'
  BY TurnsStep
<1>3. RunInv /\ TurnsOK /\ [RunNext]_vars => [Nearer]_vars
  <2> SUFFICES ASSUME RunInv, TurnsOK, [RunNext]_vars PROVE Nearer
    OBVIOUS
  <2>1. RunStep \/ Answered \/ Unanswered => <<Before', Before>> \in Descent
    BY PlanLowers, TurnLowers DEF RunStep
  <2>2. Cancel \/ TimePasses \/ (Sweep /\ UNCHANGED runVars) => Before' = Before
    BY DEF Cancel, TimePasses, Sweep, planVars, runVars, Before, TurnsLeft, Stage, Work, Contexts
  <2>. QED
    BY <2>1, <2>2
<1>. QED
  BY <1>1, <1>2, <1>3, RunInvariant, PTL DEF RunSpec
=============================================================================
