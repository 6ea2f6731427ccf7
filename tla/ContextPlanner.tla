---------------------------- MODULE ContextPlanner ----------------------------
(***************************************************************************)
(* ContextPlanner.plan (managed/planner.py): which part of a managed       *)
(* request is sent to the provider at once, and which part is left behind  *)
(* in the evidence store to be retrieved.                                  *)
(*                                                                         *)
(* A plan is computed by one thread, but the evidence store is shared with *)
(* other processes, which may sweep it between any two statements.  The    *)
(* order of the contexts in the request is not kept: nothing below depends *)
(* on it, except that validate refuses a tool result that stands before    *)
(* its call.  A context that is named in the task, that survives redaction *)
(* as it is, or that counts as secret says so in a field of its own.       *)
(***************************************************************************)
EXTENDS Integers, FiniteSets

CONSTANTS Ids,         \* identifiers of contexts
          Task,        \* the identifier "current-task", reserved for the task
          ToolNames,   \* names of tool definitions
          CallIds,     \* tool call identifiers
          Requests,    \* the managed requests callers pass to plan
          EagerTools,  \* a catalog of this size is never cut (8 in the code)
          Nothing      \* Python's None

Critical == {"system", "developer", "current_task"}
SourceLike == {"source", "test", "configuration"}
RepositoryLike == {"repository_map", "repository"}
Kinds == Critical \cup SourceLike \cup RepositoryLike \cup
         {"user", "assistant", "tool_definition", "tool_call", "tool_result",
          "attachment", "command_output", "checkpoint", "document"}
Retentions == {"required", "stable", "ephemeral", "recoverable", "superseded", "redundant"}
Modes == {"strict", "parity", "extreme", "economy"}
Operations == {"evidence.get", "context.expand", "source.range", "symbol.get",
               "dependency.get", "log.search", "log.range", "repository.map",
               "tool.discover"}

Context == [kind : Kinds, retention : Retentions, priority : 0 .. 100, named : BOOLEAN,
            dependencies : SUBSET (Ids \cup {Task}), call : CallIds \cup {Nothing},
            exact : BOOLEAN, secret : BOOLEAN, size : Nat]

Tool == [required : BOOLEAN, named : BOOLEAN]

IsRequest(r) ==
  /\ DOMAIN r.context \subseteq Ids /\ r.context \in [DOMAIN r.context -> Context]
  /\ IsFiniteSet(DOMAIN r.context)
  /\ DOMAIN r.tools \subseteq ToolNames /\ r.tools \in [DOMAIN r.tools -> Tool]
  /\ r.mode \in Modes

ASSUME PlannerAssumption ==
  /\ Task \notin Ids
  /\ Nothing \notin Ids \cup {Task} \cup CallIds
  /\ EagerTools \in Nat
  /\ \A r \in Requests : IsRequest(r)

VARIABLES phase,      \* where plan is
          request,    \* its argument
          rows,       \* rows of table evidence: context -> "old" or "fresh"
          selected,   \* the set selected of plan
          todo,       \* the contexts still to be put into the store
          current,    \* the context being put and read back
          slipped,    \* history: contexts whose row a sweep took while get read it
          plan,       \* the ContextPlan, once it exists
          outcome     \* how the call ended

planVars == <<phase, request, rows, selected, todo, current, slipped, plan, outcome>>

Contexts == DOMAIN request.context
Of(i) == request.context[i]

-----------------------------------------------------------------------------
(* ManagedRequest.validate, as far as plan relies on it.  A dependency on  *)
(* the task itself is accepted.  A definition marked "slip" is a mistake   *)
(* the properties have to catch; the definition after it is the code.      *)

DependenciesKnown(r) ==
  \A i \in DOMAIN r.context : r.context[i].dependencies \subseteq DOMAIN r.context \cup {Task}

(* No set of contexts is such that each depends on another one of them.    *)
Acyclic(r) ==
  \A S \in SUBSET DOMAIN r.context :
    S # {} => \E i \in S : r.context[i].dependencies \cap S = {}

CriticalKept(r) ==
  \A i \in DOMAIN r.context :
    r.context[i].kind \in Critical => r.context[i].retention \in {"required", "stable", "ephemeral"}

ToolCallsUnique(r) ==
  LET calls == {i \in DOMAIN r.context : r.context[i].kind = "tool_call"}
      results == {i \in DOMAIN r.context : r.context[i].kind = "tool_result"}
  IN /\ \A i \in calls : r.context[i].call # Nothing
     /\ \A i, j \in calls : r.context[i].call = r.context[j].call => i = j
     /\ \A i \in results : \E j \in calls : r.context[i].call = r.context[j].call

Validated(r) == DependenciesKnown(r) /\ Acyclic(r) /\ CriticalKept(r) /\ ToolCallsUnique(r)

-----------------------------------------------------------------------------
(* What is selected to begin with.                                         *)

(* A tool call with no result is still active.                             *)
Active(i) == /\ Of(i).kind = "tool_call"
             /\ \A j \in Contexts : Of(j).kind = "tool_result" => Of(j).call # Of(i).call

Initially(i) ==
  \/ Of(i).retention \in {"required", "stable", "ephemeral"}
  \/ Of(i).kind = "current_task"
  \/ Active(i)
  \/ Of(i).named
  \/ request.mode = "strict"
  \/ request.mode = "parity" /\ Of(i).priority >= 50

(* The contexts that selected content depends on and that are still to be  *)
(* added: a recoverable one is not.                                        *)
MissingRecoverableToo(S) ==   \* slip: every dependency is added
  {d \in Contexts \ S : \E i \in S : d \in Of(i).dependencies}
Missing(S) ==
  {d \in Contexts \ S : Of(d).retention # "recoverable" /\ \E i \in S : d \in Of(i).dependencies}

-----------------------------------------------------------------------------
(* Tools and operations.                                                   *)

DeferredTools ==
  IF Cardinality(DOMAIN request.tools) <= EagerTools THEN {}
  ELSE {t \in DOMAIN request.tools : ~(request.tools[t].required \/ request.tools[t].named)}

KindsOf(S) == {Of(i).kind : i \in S}

OperationsByKindOnly(deferred, tools) ==   \* slip: the general operations are forgotten
  (IF KindsOf(deferred) \cap SourceLike # {}
   THEN {"source.range", "symbol.get", "dependency.get"} ELSE {})
  \cup (IF "command_output" \in KindsOf(deferred) THEN {"log.search", "log.range"} ELSE {})
  \cup (IF tools # {} THEN {"tool.discover"} ELSE {})
OperationsFor(deferred, tools) ==
  (IF deferred # {} THEN {"evidence.get", "context.expand"} ELSE {})
  \cup (IF KindsOf(deferred) \cap SourceLike # {}
        THEN {"source.range", "symbol.get", "dependency.get"} ELSE {})
  \cup (IF "command_output" \in KindsOf(deferred) THEN {"log.search", "log.range"} ELSE {})
  \cup (IF KindsOf(deferred) \cap RepositoryLike # {} THEN {"repository.map"} ELSE {})
  \cup (IF tools # {} THEN {"tool.discover"} ELSE {})

-----------------------------------------------------------------------------
(* The store holds, to begin with, evidence of some contexts from earlier  *)
(* runs.                                                                   *)
PlanInit ==
  /\ phase = "validate"
  /\ request \in Requests
  /\ \E S \in SUBSET DOMAIN request.context : rows = [i \in S |-> "old"]
  /\ selected = {}
  /\ todo = {}
  /\ current = Nothing
  /\ slipped = {}
  /\ plan = Nothing
  /\ outcome = "none"

End(result) == /\ phase' = "ended"
               /\ outcome' = result

Validate ==
  /\ phase = "validate"
  /\ IF Validated(request)
     THEN /\ phase' = "select"
          /\ UNCHANGED outcome
     ELSE End("ProtocolError")
  /\ UNCHANGED <<request, rows, selected, todo, current, slipped, plan>>

Select ==
  /\ phase = "select"
  /\ selected' = {i \in Contexts : Initially(i)}
  /\ phase' = "close"
  /\ UNCHANGED <<request, rows, todo, current, slipped, plan, outcome>>

(* The loop over the dependencies.  by_id knows the contexts alone: to     *)
(* look the task up there raises KeyError.                                 *)
AddDependency ==
  /\ phase = "close"
  /\ \E d \in Missing(selected) : selected' = selected \cup {d}
  /\ UNCHANGED <<phase, request, rows, todo, current, slipped, plan, outcome>>

LooksUpUnknown(S) == \E i \in S : ~(Of(i).dependencies \subseteq Contexts)

UnknownDependency ==
  /\ phase = "close"
  /\ LooksUpUnknown(selected)
  /\ End("KeyError")
  /\ UNCHANGED <<request, rows, selected, todo, current, slipped, plan>>

PersistNext(left) == IF left = {} THEN "finish" ELSE "put"

Closed ==
  /\ phase = "close"
  /\ Missing(selected) = {}
  /\ ~LooksUpUnknown(selected)
  /\ todo' = Contexts
  /\ phase' = PersistNext(Contexts)
  /\ UNCHANGED <<request, rows, selected, current, slipped, plan, outcome>>

-----------------------------------------------------------------------------
(* EvidenceStore.put leaves a row that is there already as it is, with its *)
(* old last_accessed.  The context is read back to see whether redaction   *)
(* has changed it: get selects the row and then, in a statement of its     *)
(* own, sets last_accessed to now, which changes nothing when a sweep has  *)
(* taken the row in between.                                               *)

WithRow(i, age) == [k \in DOMAIN rows \cup {i} |-> IF k = i THEN age ELSE rows[k]]

PutContext ==
  /\ phase = "put"
  /\ \E i \in todo :
       /\ rows' = IF i \in DOMAIN rows THEN rows ELSE WithRow(i, "fresh")
       /\ current' = i
  /\ phase' = "get"
  /\ UNCHANGED <<request, selected, todo, slipped, plan, outcome>>

SelectRow ==
  /\ phase = "get"
  /\ IF current \in DOMAIN rows THEN phase' = "renew" /\ UNCHANGED outcome ELSE End("KeyError")
  /\ UNCHANGED <<request, rows, selected, todo, current, slipped, plan>>

NotRenewed(i) == rows   \* slip: a read does not count as an access
Renewed(i) == IF i \in DOMAIN rows THEN WithRow(i, "fresh") ELSE rows

Retained(i) == IF Of(i).exact THEN selected ELSE selected \cup {i}

RenewRow ==
  /\ phase = "renew"
  /\ rows' = Renewed(current)
  /\ slipped' = slipped \cup ({current} \ DOMAIN rows)
  /\ selected' = Retained(current)
  /\ todo' = todo \ {current}
  /\ phase' = PersistNext(todo \ {current})
  /\ UNCHANGED <<request, current, plan, outcome>>

(* The plan is compared with the whole request in tokens.  With nothing    *)
(* left out they are equal; otherwise the counter may still find the plan  *)
(* no smaller.                                                             *)
Omitted == (Contexts \ selected) # {} \/ DeferredTools # {}

DeferAll(smaller) == Contexts \ selected   \* slip: falling back forgets the deferred contexts
DeferredWhen(smaller) == IF smaller THEN Contexts \ selected ELSE {}

Finish ==
  /\ phase = "finish"
  /\ \E smaller \in BOOLEAN :
       /\ smaller => Omitted
       /\ LET deferred == DeferredWhen(smaller)
              tools == IF smaller THEN DeferredTools ELSE {}
          IN plan' = [sent |-> IF smaller THEN selected ELSE Contexts,
                      deferred |-> deferred, tools |-> tools, fallback |-> ~smaller,
                      operations |-> OperationsFor(deferred, tools)]
  /\ phase' = "planned"
  /\ UNCHANGED <<request, rows, selected, todo, current, slipped, outcome>>

-----------------------------------------------------------------------------
(* EvidenceStore.collect in another process.  Its cutoff is taken to lie   *)
(* before the start of this call, so only rows not read since may go.      *)
Sweep ==
  /\ \E gone \in SUBSET {i \in DOMAIN rows : rows[i] = "old"} :
       rows' = [i \in DOMAIN rows \ gone |-> rows[i]]
  /\ UNCHANGED <<phase, request, selected, todo, current, slipped, plan, outcome>>

PlanStep == Validate \/ Select \/ AddDependency \/ UnknownDependency \/ Closed
              \/ PutContext \/ SelectRow \/ RenewRow \/ Finish

PlanNext == PlanStep \/ Sweep

PlanSpec == PlanInit /\ [][PlanNext]_planVars

-----------------------------------------------------------------------------
Phases == {"validate", "select", "close", "put", "get", "renew", "finish", "planned", "ended"}

Plan == [sent : SUBSET Ids, deferred : SUBSET Ids, tools : SUBSET ToolNames,
         fallback : BOOLEAN, operations : SUBSET Operations]

PlanDataOK ==
  /\ IsRequest(request)
  /\ DOMAIN rows \subseteq Contexts /\ rows \in [DOMAIN rows -> {"old", "fresh"}]
  /\ selected \subseteq Contexts
  /\ todo \subseteq Contexts
  /\ current \in Contexts \cup {Nothing}
  /\ slipped \subseteq Contexts
  /\ plan \in Plan \cup {Nothing}

(* The types.  What a plan offers is what RetrievalService knows.          *)
PlanTypeOK ==
  /\ phase \in Phases
  /\ outcome \in {"none", "ProtocolError", "KeyError"}
  /\ PlanDataOK

(* The reference: the smallest set that holds what is selected to begin    *)
(* with and the dependencies of all it holds, but for recoverable ones.    *)
IsClosed(S) == \A i \in S : \A d \in Of(i).dependencies :
                 d \in Contexts /\ Of(d).retention # "recoverable" => d \in S

Required == {i \in Contexts : Initially(i)}

Least ==
  LET required == Required IN
  {i \in Contexts : \A S \in SUBSET Contexts : required \subseteq S /\ IsClosed(S) => i \in S}

HasPlan == plan # Nothing

(* Unless it falls back to the whole request, the plan sends the smallest  *)
(* closed set, whatever the order in which the loop goes, and beyond it    *)
(* only what would not come back from the store as it is.  The loop has    *)
(* ended by then: of those, the dependencies need not be sent (see         *)
(* DependenciesIncluded).                                                  *)
PlanIsLeast ==
  HasPlan /\ ~plan.fallback =>
    /\ Least \subseteq plan.sent
    /\ plan.sent \ Least = {i \in Contexts \ Least : ~Of(i).exact}

(* What the comment at managed/planner.py:109 says: "Dependencies of       *)
(* selected content are included transitively unless explicitly            *)
(* recoverable".                                                           *)
DependenciesIncluded ==
  HasPlan => IsClosed(plan.sent)

(* Every context is sent or deferred and never both, on the fallback path  *)
(* too.                                                                    *)
SentOrDeferred ==
  HasPlan => /\ plan.sent \cup plan.deferred = Contexts
             /\ plan.sent \cap plan.deferred = {}

(* What is deferred can be had back exactly: no redaction has touched it.  *)
DeferredIsExact ==
  HasPlan => \A i \in plan.deferred : Of(i).exact

(* What is deferred stays in the store for as long as the sweeps of other  *)
(* processes keep to evidence not accessed since the plan was begun: the   *)
(* read that checks a context also renews an old row.  The exception is a  *)
(* row of an earlier run that is swept between the two statements of this  *)
(* very read, which succeeds all the same.                                 *)
DeferredStaysStored ==
  HasPlan => plan.deferred \ slipped \subseteq DOMAIN rows

(* Whatever is left out, contexts of any kind or tools, the operation that *)
(* restores it is offered; and nothing is offered when nothing is left out.*)
RestorationOffered ==
  HasPlan => /\ plan.deferred # {} => "evidence.get" \in plan.operations
             /\ plan.tools # {} => "tool.discover" \in plan.operations
             /\ plan.deferred = {} /\ plan.tools = {} => plan.operations = {}
=============================================================================
