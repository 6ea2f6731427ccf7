--------------------------- MODULE MCManagedRuntime ---------------------------
(***************************************************************************)
(* Managed requests of two families.                                       *)
(*                                                                         *)
(* PlanRequests are for the planner: three contexts over a choice of       *)
(* shapes (required, pinned by the task, deferred, changed by redaction,   *)
(* halves of a tool call) with many patterns of dependencies among them,   *)
(* and on the task, cyclic and dangling ones included, and two tools       *)
(* against a catalog bound of one.  Their endpoint has no retrieval        *)
(* support, so that they end with the plan.                                *)
(*                                                                         *)
(* RunRequests are for the rounds that follow: a source file "a" that can  *)
(* be deferred and depends on the task and on "b", which redaction may     *)
(* change; "c", a secret or plain log, or a tool result that is sent.      *)
(***************************************************************************)
EXTENDS ManagedRuntime

Base == [kind |-> "source", retention |-> "recoverable", priority |-> 40,
         named |-> FALSE, dependencies |-> {}, call |-> Nothing, exact |-> TRUE,
         secret |-> FALSE, size |-> 1]

Linked(c, D) == {[c EXCEPT !.dependencies = d] : d \in D}

Middles ==
  Linked([Base EXCEPT !.kind = "document"], {{}, {"c"}, {"a"}})
  \cup Linked([Base EXCEPT !.kind = "document", !.retention = "superseded", !.priority = 60],
              {{"c"}, {"a"}})
  \cup Linked([Base EXCEPT !.kind = "command_output", !.retention = "redundant",
                          !.exact = FALSE],
              {{}, {"c"}})
  \cup Linked([Base EXCEPT !.kind = "tool_call", !.call = "call"], {{}, {"a"}})

Lasts == {[Base EXCEPT !.kind = "system", !.retention = "ephemeral"],
          [Base EXCEPT !.kind = "repository_map"],
          [Base EXCEPT !.kind = "tool_result", !.call = "call"]}

Firsts == Linked([Base EXCEPT !.named = TRUE], {{"b"}})
          \cup Linked([Base EXCEPT !.retention = "superseded"], {{"b", "c"}})
          \cup Linked([Base EXCEPT !.kind = "document", !.exact = FALSE], {{"b"}, {Task}})

Catalog(names) == [t \in names |-> [required |-> t = "t1", named |-> FALSE]]

(* The catalog is cut in extreme mode, and in strict mode too.             *)
Settings == {[mode |-> "extreme", tools |-> Catalog({"t1", "t2"})],
             [mode |-> "strict", tools |-> Catalog({"t1", "t2"})],
             [mode |-> "parity", tools |-> Catalog({"t1"})]}

PlanRequests ==
  {[context |-> [i \in {"a", "b", "c"} |->
                   CASE i = "a" -> a [] i = "b" -> b [] i = "c" -> c],
    tools |-> setting.tools, mode |-> setting.mode, max_turns |-> 1,
    max_retrieval_bytes |-> 2, max_total_tokens |-> Nothing, supported |-> FALSE] :
     a \in Firsts,
     b \in Middles,
     c \in Lasts \cup Linked([Base EXCEPT !.kind = "document"], {{Task}, {"gone"}}),
     setting \in Settings}

A == [Base EXCEPT !.dependencies = {"b", Task}]
Bs == {Base, [Base EXCEPT !.exact = FALSE]}
Cs == {[Base EXCEPT !.kind = "command_output", !.size = 2],
       [Base EXCEPT !.kind = "command_output", !.secret = TRUE],
       [Base EXCEPT !.kind = "tool_result", !.call = "call", !.retention = "required"]}
Caller == [Base EXCEPT !.kind = "tool_call", !.call = "call"]

Names(c) == IF c.kind = "tool_result" THEN {"a", "b", "c", "d"} ELSE {"a", "b", "c"}

RunRequests ==
  {[context |-> [i \in Names(c) |->
                   CASE i = "a" -> A [] i = "b" -> b [] i = "c" -> c [] i = "d" -> Caller],
    tools |-> Catalog({"t1", "t2"}), mode |-> "extreme", max_turns |-> 3,
    max_retrieval_bytes |-> 2, max_total_tokens |-> IF b.exact THEN 3 ELSE Nothing,
    supported |-> TRUE] :
     b \in Bs, c \in Cs}

MCRequests == PlanRequests \cup RunRequests

MCSuits(c) == IF c.rest = "other lines" THEN "fits" ELSE c.rest

Get(op, id) == [op |-> op, id |-> id, dependency |-> Nothing, rest |-> "fits"]

MCReplies ==
  {<<Get("evidence.get", "a")>>, <<Get("evidence.get", "c")>>,
   <<Get("source.range", "a"), Get("evidence.get", "b")>>,
   <<[Get("dependency.get", "a") EXCEPT !.dependency = "b"]>>,
   <<Get("dependency.get", "a")>>, <<[Get("source.range", "a") EXCEPT !.rest = "other lines"]>>,
   <<Get("tool.discover", "t2"), [Get("symbol.get", "a") EXCEPT !.rest = "refused"]>>,
   <<[Get("log.search", "c") EXCEPT !.rest = "raises"]>>}
=============================================================================
