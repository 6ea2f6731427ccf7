---------------------------- MODULE ManagedRuntime ----------------------------
(***************************************************************************)
(* ManagedRuntime.run (managed/runtime.py) with RetrievalService           *)
(* (managed/retrieval.py), after the plan of module ContextPlanner: the    *)
(* provider is called turn after turn with a context that grows by the     *)
(* evidence it asked for, until it answers without asking, or a bound is   *)
(* reached.                                                                *)
(*                                                                         *)
(* The caller may set the cancellation event, or cancel the task, at any   *)
(* time; time passes at any time; the provider answers, fails, or never    *)
(* answers.                                                                *)
(***************************************************************************)
EXTENDS ContextPlanner, Sequences, FiniteSetsExt, SequencesExt

CONSTANTS Replies,      \* what a provider may ask for in one answer
          Arguments,    \* the other arguments of a call, taken together
          Suits(_),     \* what the operation of a call makes of them
          InputTokens,  \* what one request may cost
          MaxResult     \* bound: sizes of excerpts and tool definitions

(* A retrieval call: "rest" are its other arguments (lines, a pattern, a   *)
(* symbol, a revision, and any that the operation does not look at).  What *)
(* the operation makes of them depends on the call alone: they fit; they   *)
(* are refused (a stale revision, a range beyond the text, an unsafe       *)
(* pattern, a symbol that is not there); or they raise something else (a   *)
(* line number that is no number, a malformed regex).                      *)
Call == [op : Operations, id : Ids \cup ToolNames, dependency : Ids \cup {Task, Nothing},
         rest : Arguments]

ASSUME RuntimeAssumption ==
  /\ Replies \subseteq Seq(Call)
  /\ \A calls \in Replies : \A k \in DOMAIN calls : Suits(calls[k]) \in {"fits", "refused", "raises"}
  /\ InputTokens \subseteq Nat \ {0}
  /\ MaxResult \in Nat
  /\ Nothing \notin Plan
  /\ \A r \in Requests :
       /\ r.max_turns \in Nat \ {0}
       /\ r.max_retrieval_bytes \in Nat
       /\ r.max_total_tokens \in Nat \cup {Nothing}
       /\ r.supported \in BOOLEAN

VARIABLES turn,       \* number of the turn
          working,    \* what run has added to the plan's blocks, in order
          queue,      \* calls of the last answer that are still to be executed
          repeated,   \* the set repeated of run
          usage,      \* ManagedUsage: initial, continuation and total input tokens
          billed,     \* history: the input tokens of all requests that were answered
          cancelled,  \* whether the cancellation event is set
          late        \* whether timeout_seconds have gone by since run was called

runVars == <<turn, working, queue, repeated, usage, billed, cancelled, late>>
vars == <<planVars, runVars>>

-----------------------------------------------------------------------------
(* RetrievalService.  Its cache never answers: run turns a repeated call   *)
(* down before.  A definition marked "slip" is a mistake the properties    *)
(* have to catch; the definition after it is the code.                     *)

(* The dependencies whose evidence the call reads.                         *)
Requested(c) == IF c.op # "dependency.get" THEN {}
                ELSE IF c.dependency = Nothing THEN Of(c.id).dependencies
                ELSE {c.dependency}

UnavailableAtAll(c) == c.id \notin Contexts   \* slip: model-bound contexts are sent again
Unavailable(c) == c.id \notin plan.deferred

(* RetrievalError before any evidence is read.                             *)
RefusedAtOnce(c) ==
  \/ c.op \notin plan.operations
  \/ c.op = "tool.discover" /\ c.id \notin plan.tools
  \/ c.op # "tool.discover" /\ (Unavailable(c) \/ Of(c.id).secret)

Undeclared(c) == ~(Requested(c) \subseteq Of(c.id).dependencies)

WholeOperations == {"evidence.get", "context.expand", "repository.map"}

(* A whole context has its size; an excerpt, the dependencies taken        *)
(* together or a tool definition has any size within the bound.            *)
Sizes(c) == IF c.op \in WholeOperations THEN {Of(c.id).size} ELSE 0 .. MaxResult

(* The contexts whose content the result of a call carries.                *)
Brought(c) == CASE c.op = "tool.discover" -> {}
                [] c.op = "dependency.get" -> Requested(c)
                [] OTHER -> {c.id}

(* Reading evidence makes its rows fresh.  With the plan made all rows are *)
(* fresh already, so that no sweep comes between the statements of a read. *)
ReadRows(S) == [i \in DOMAIN rows |-> IF i \in S THEN "fresh" ELSE rows[i]]

-----------------------------------------------------------------------------
(* Blocks of the working context: an assistant block with the calls it     *)
(* makes, a tool_result block for each of them.                            *)

Assistant(calls) == [kind |-> "assistant", calls |-> calls, size |-> 0]
Result(c, size) == [kind |-> "tool_result", calls |-> <<c>>, size |-> size]

(* Bytes of all tool results in the context, those of the request itself   *)
(* included.                                                               *)
SentResults == {i \in plan.sent : Of(i).kind = "tool_result"}

SentVolume == MapThenSumSet(LAMBDA i : Of(i).size, SentResults)

Volume(blocks) == FoldLeft(LAMBDA sum, b : sum + b.size, SentVolume, blocks)

(* The usage starts with the estimate of the plan, which the first answer  *)
(* replaces: it is left out.                                               *)
RunInit ==
  /\ PlanInit
  /\ turn = 0
  /\ working = <<>>
  /\ queue = <<>>
  /\ repeated = {}
  /\ usage = [initial |-> 0, continuation |-> 0, total |-> 0]
  /\ billed = 0
  /\ cancelled = FALSE
  /\ late = FALSE

Planning == PlanStep /\ UNCHANGED runVars

(* With the plan made, a dry run returns it; otherwise the loop begins if  *)
(* a transport is configured.                                              *)
Start ==
  /\ phase = "planned"
  /\ \/ End("planned") /\ UNCHANGED turn
     \/ End("no transport") /\ UNCHANGED turn
     \/ /\ phase' = "turn"
        /\ turn' = 1
        /\ UNCHANGED outcome
  /\ UNCHANGED <<request, rows, selected, todo, current, slipped, plan, working, queue, repeated,
                 usage, billed, cancelled, late>>

(* The head of the loop: the bounds, then the request is built and sent.   *)
TurnLimitReached == turn > request.max_turns

Ask ==
  /\ phase = "turn"
  /\ CASE TurnLimitReached -> End("turn limit")
       [] ~TurnLimitReached /\ cancelled -> End("CancelledError")
       [] ~TurnLimitReached /\ ~cancelled /\ late -> End("timed out")
       [] ~TurnLimitReached /\ ~cancelled /\ ~late /\ ~request.supported -> End("unsupported")
       [] OTHER -> phase' = "awaiting" /\ UNCHANGED outcome
  /\ UNCHANGED <<request, rows, selected, todo, current, slipped, plan, runVars>>

-----------------------------------------------------------------------------
(* The answer.                                                             *)

BilledOnce(tokens) ==   \* slip: a later turn replaces what the earlier ones cost
  IF turn = 1
  THEN [initial |-> tokens, continuation |-> 0, total |-> tokens]
  ELSE [initial |-> usage.initial, continuation |-> tokens, total |-> usage.initial + tokens]
Billed(tokens) ==
  IF turn = 1
  THEN [initial |-> tokens, continuation |-> usage.continuation,
        total |-> tokens + usage.continuation]
  ELSE [initial |-> usage.initial, continuation |-> usage.continuation + tokens,
        total |-> usage.initial + usage.continuation + tokens]

AnswerAlone(calls) == <<Assistant(calls)>>   \* slip: the context starts over
AssistantForgotten(calls) == working   \* slip: the answer itself is not kept
WithAnswer(calls) == Append(working, Assistant(calls))

Answered ==
  /\ phase = "awaiting"
  /\ \E tokens \in InputTokens :
       /\ usage' = Billed(tokens)
       /\ billed' = billed + tokens
  /\ \/ /\ End("completed")
        /\ UNCHANGED <<working, queue>>
     \/ /\ End("malformed call")
        /\ UNCHANGED <<working, queue>>
     \/ \E calls \in Replies \ {<<>>} :
          /\ working' = WithAnswer(calls)
          /\ queue' = calls
          /\ phase' = "dispatch"
          /\ UNCHANGED outcome
  /\ UNCHANGED <<request, rows, selected, todo, current, slipped, plan, turn, repeated, cancelled, late>>

(* wait_for gives up at the deadline.                                      *)
WaitsForever == FALSE   \* slip: no timeout
TimesOut == late

Timeout ==
  /\ phase = "awaiting"
  /\ TimesOut
  /\ End("timed out")
  /\ UNCHANGED <<request, rows, selected, todo, current, slipped, plan, runVars>>

(* Any error of the provider ends the run, and so does a cancellation of   *)
(* the task it runs in.                                                    *)
Unanswered ==
  /\ phase = "awaiting"
  /\ End("provider failed") \/ End("CancelledError")
  /\ UNCHANGED <<request, rows, selected, todo, current, slipped, plan, runVars>>

-----------------------------------------------------------------------------
(* The calls of the answer, one after the other.                           *)

(* A call is known by its operation and all its arguments.                 *)
IsRepeated(c) == c \in repeated

TooLarge(blocks) == ~(Volume(blocks) <= request.max_retrieval_bytes)

Retrieve(c, size) ==
  LET blocks == Append(working, Result(c, size)) IN
    IF size > request.max_retrieval_bytes
    THEN End("retrieval refused") /\ UNCHANGED <<working, queue>>
    ELSE /\ working' = blocks
         /\ queue' = Tail(queue)
         /\ IF TooLarge(blocks) THEN End("volume exceeded") ELSE UNCHANGED <<phase, outcome>>

(* The call fails: nothing is added to the context.                        *)
Fails(result, read) == /\ End(result)
                       /\ rows' = ReadRows(read)
                       /\ UNCHANGED <<working, queue>>

(* RetrievalService._execute: tool.discover needs no evidence; the others  *)
(* read the evidence of the context before they look at the arguments.     *)
(* The task has no evidence: asking for it raises KeyError.                *)
Discover(c) == /\ \E size \in Sizes(c) : Retrieve(c, size)
               /\ UNCHANGED rows

RetrieveEvidence(c) ==
  LET fits == Suits(c) = "fits" /\ ~Undeclared(c)
      needed == {c.id} \cup Requested(c)
      stored == needed \subseteq DOMAIN rows
  IN CASE c.id \notin DOMAIN rows -> Fails("KeyError", {})
       [] c.id \in DOMAIN rows /\ ~fits ->
            Fails(IF Suits(c) = "raises" THEN "raised" ELSE "retrieval refused", {c.id})
       [] c.id \in DOMAIN rows /\ fits /\ ~stored -> Fails("KeyError", needed)
       [] fits /\ stored -> /\ rows' = ReadRows(needed)
                            /\ \E size \in Sizes(c) : Retrieve(c, size)

Execute(c) == IF c.op = "tool.discover" THEN Discover(c) ELSE RetrieveEvidence(c)

Dispatch ==
  /\ phase = "dispatch"
  /\ queue # <<>>
  /\ LET c == Head(queue) IN
       /\ repeated' = repeated \cup {c}
       /\ \/ IsRepeated(c) /\ Fails("repeated call", {})
          \/ ~IsRepeated(c) /\ RefusedAtOnce(c) /\ Fails("retrieval refused", {})
          \/ ~IsRepeated(c) /\ ~RefusedAtOnce(c) /\ Execute(c)
  /\ UNCHANGED <<request, selected, todo, current, slipped, plan, turn, usage, billed, cancelled, late>>

(* When all calls are answered the token bound is looked at, and the next  *)
(* turn begins.                                                            *)
OverBudgetToBeginWith ==   \* slip: what continuations cost is left out
  request.max_total_tokens # Nothing /\ usage.initial > request.max_total_tokens
OverBudget == request.max_total_tokens # Nothing /\ usage.total > request.max_total_tokens

NextTurn ==
  /\ phase = "dispatch"
  /\ queue = <<>>
  /\ \/ OverBudget /\ End("token bound") /\ UNCHANGED turn
     \/ /\ ~OverBudget
        /\ phase' = "turn"
        /\ turn' = turn + 1
        /\ UNCHANGED outcome
  /\ UNCHANGED <<request, rows, selected, todo, current, slipped, plan, working, queue, repeated,
                 usage, billed, cancelled, late>>

-----------------------------------------------------------------------------
Cancel == /\ ~cancelled
          /\ cancelled' = TRUE
          /\ UNCHANGED <<planVars, turn, working, queue, repeated, usage, billed, late>>

TimePasses == /\ ~late
              /\ late' = TRUE
              /\ UNCHANGED <<planVars, turn, working, queue, repeated, usage, billed, cancelled>>

RunStep == Planning \/ Start \/ Ask \/ Timeout \/ Dispatch \/ NextTurn

RunNext == RunStep \/ Answered \/ Unanswered \/ Cancel \/ TimePasses \/ (Sweep /\ UNCHANGED runVars)

RunSpec == RunInit /\ [][RunNext]_vars

(* The program goes on whenever it can, and time does not stand still; the *)
(* provider need not answer or fail, and nobody need cancel.               *)
FairRunSpec == /\ RunSpec
               /\ WF_vars(RunStep)
               /\ WF_vars(TimePasses)

-----------------------------------------------------------------------------
Outcomes == {"none", "ProtocolError", "KeyError", "planned", "no transport", "turn limit",
             "CancelledError", "timed out", "unsupported", "completed", "malformed call",
             "provider failed", "repeated call", "retrieval refused", "raised",
             "volume exceeded", "token bound"}

Block == [kind : {"assistant", "tool_result"}, calls : Seq(Call), size : Nat]

(* The types.                                                              *)
RunTypeOK ==
  /\ phase \in Phases \cup {"turn", "awaiting", "dispatch"}
  /\ outcome \in Outcomes
  /\ phase = "ended" <=> outcome # "none"
  /\ turn \in Nat
  /\ working \in Seq(Block)
  /\ queue \in Seq(Call)
  /\ repeated \subseteq Call
  /\ usage \in [initial : Nat, continuation : Nat, total : Nat]
  /\ billed \in Nat
  /\ cancelled \in BOOLEAN /\ late \in BOOLEAN

Results == {i \in DOMAIN working : working[i].kind = "tool_result"}

Sending == phase = "awaiting"

(* The usage reports what all provider requests of the run have cost, the  *)
(* initial one and every continuation.                                     *)
AllInputCounted ==
  usage.total = billed /\ usage.total = usage.initial + usage.continuation

(* The provider never sees a call without its result or a result without   *)
(* its call: each answer it gave is followed by the results of its calls,  *)
(* in their order.                                                         *)
CallsAnswered ==
  Sending =>
    /\ \A i \in DOMAIN working \ Results : \A k \in DOMAIN working[i].calls :
         /\ i + k \in Results
         /\ working[i + k].calls = <<working[i].calls[k]>>
    /\ \A i \in Results : \E j \in DOMAIN working \ Results :
         i \in j + 1 .. j + Len(working[j].calls)

(* Only what was deferred can be asked for, and no call is answered twice  *)
(* with the same arguments: a provider that asks the same again and again  *)
(* is stopped.  Content that the plan has sent comes back in one way only, *)
(* as a declared dependency of a deferred context; a plan that fell back   *)
(* retrieves nothing.                                                      *)
OnlyDeferredRetrieved ==
  /\ \A i \in Results :
       LET c == working[i].calls[1] IN
         /\ c.op \in plan.operations
         /\ c.id \in IF c.op = "tool.discover" THEN plan.tools ELSE plan.deferred
         /\ \A k \in Brought(c) \cap plan.sent :
              c.op = "dependency.get" /\ k \in Of(c.id).dependencies
  /\ \A i, j \in Results : working[i].calls = working[j].calls => i = j

(* A continuation is never sent once a bound is exceeded: that of bytes in *)
(* tool results, those of the request itself included, or that of tokens.  *)
ContinuesWithinBounds ==
  Sending /\ working # <<>> =>
    /\ Volume(working) <= request.max_retrieval_bytes
    /\ request.max_total_tokens # Nothing => usage.total <= request.max_total_tokens

(* Once there is a plan, a run asks in vain for no evidence that the store *)
(* has had since: only for that of the task, which has none, and for a row *)
(* that was swept while the plan read it.                                  *)
OnlySlippedIsMissing ==
  HasPlan /\ outcome = "KeyError" =>
    \E c \in repeated : ({c.id} \cup Requested(c)) \cap ({Task} \cup slipped) # {}

(* The context the provider sees only grows, and the plan stays as it is.  *)
ContextOnlyGrows == [][/\ IsPrefix(working, working')
                       /\ HasPlan => plan' = plan]_vars

(* Every run comes to an end, though the provider may never answer.        *)
RunEnds == <>(phase = "ended")
=============================================================================
