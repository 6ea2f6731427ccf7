--------------------------- MODULE RequestOptimizer ---------------------------
(***************************************************************************)
(* Optimizer.optimize (core/optimize.py) with the deduplication and the    *)
(* selection policies it applies, and optimize_native (proxy/optimize.py), *)
(* which wraps it for a request in a provider's own format.                *)
(*                                                                         *)
(* A content (a message, a tool, a block) is a value with a size.  A       *)
(* definition marked "slip" is a mistake the properties have to catch; the *)
(* definition after it is the code.                                        *)
(***************************************************************************)
EXTENDS Naturals, Sequences, SequencesExt

CONSTANTS Contents,    \* what messages, tools and blocks hold
          SizeOf(_),   \* tokens a content counts for
          Secrets,     \* contents that redaction changes when they are persisted
          Nothing      \* an absent value

(* A message, a tool or a block is an object in JSON, which counts at      *)
(* least one token.                                                        *)
ASSUME OptimizerAssumption == \A x \in Contents : SizeOf(x) \in Nat \ {0}

Kinds == {"system", "developer", "user", "assistant", "tool_definition", "tool_call",
          "tool_result", "attachment", "repository", "command_output", "checkpoint", "source",
          "repository_map", "configuration", "test", "document", "current_task"}

Flags == {"none", "proven_redundant", "superseded", "represented_by_verified_structure",
          "task_irrelevant"}

(* A block: the caller's flag is the metadata key that is true, and safe   *)
(* is FALSE where an adapter has set dedupe_safe to False.                 *)
Block(kind, content, flag, safe) ==
  [kind |-> kind, content |-> content, flag |-> flag, safe |-> safe]

Blocks == [kind : Kinds, content : Contents, flag : Flags, safe : BOOLEAN]

IsRequest(request) ==
  request \in [blocks : Seq(Blocks), tools : Seq(Blocks)]

(* The elements of a sequence at some positions, in their order.           *)
At(s, positions) ==
  LET order == CHOOSE e \in Bijection(1 .. Cardinality(positions), positions) :
                 \A i, j \in DOMAIN e : i < j => e[i] < e[j]
  IN  [k \in DOMAIN order |-> s[order[k]]]

Total(blocks) == SumFunction([i \in DOMAIN blocks |-> SizeOf(blocks[i].content)])

(* EvidenceStore.put stores the redacted text under its own digest, or one *)
(* placeholder for every text when contents are not to be persisted        *)
(* (persist_prompt_content).                                               *)
Placeholder == <<"placeholder", Nothing>>

Persisted(persist, content) ==
  IF ~persist THEN Placeholder
  ELSE <<IF content \in Secrets THEN "redacted" ELSE "exact", content>>

-----------------------------------------------------------------------------
(* deduplicate.                                                            *)

Key(b) == <<b.kind, b.content>>

DeduplicateLast(blocks) ==    \* slip: the last of equal blocks stays
  At(blocks, {i \in DOMAIN blocks :
                blocks[i].safe => \A j \in i + 1 .. Len(blocks) :
                  blocks[j].safe => Key(blocks[j]) # Key(blocks[i])})
Deduplicate(blocks) ==
  At(blocks, {i \in DOMAIN blocks :
                blocks[i].safe => \A j \in 1 .. i - 1 :
                  blocks[j].safe => Key(blocks[j]) # Key(blocks[i])})

-----------------------------------------------------------------------------
(* The selection policies.  Strict mode keeps every block.                 *)

ProvenOmission(b) ==
  \/ b.flag = "proven_redundant"
  \/ b.kind = "checkpoint" /\ b.flag = "superseded"
  \/ b.kind = "command_output" /\ b.flag = "represented_by_verified_structure"

(* A block has been stored before the policy sees it, so it has a          *)
(* reference; the flag "task_irrelevant" is the one with high confidence.  *)
(* An exclusion is always confident enough for the policy's threshold.     *)
ExcludesBlock(mode, b) ==
  \/ mode # "strict" /\ ProvenOmission(b)
  \/ mode = "extreme" /\ b.kind = "repository" /\ b.flag = "task_irrelevant"

ExcludesTool(mode, t) == mode = "extreme" /\ t.flag = "task_irrelevant"

SelectedBlocks(mode, blocks) ==
  At(blocks, {i \in DOMAIN blocks : ~ExcludesBlock(mode, blocks[i])})

SelectedTools(mode, tools) == At(tools, {i \in DOMAIN tools : ~ExcludesTool(mode, tools[i])})

-----------------------------------------------------------------------------
(* Optimizer.optimize: the request it returns and whether that is the      *)
(* original, and what is put into the evidence store: the original request *)
(* as a whole, and every block and tool that is no duplicate.              *)

ContentsOf(request) == {b.content : b \in ToSet(request.blocks \o request.tools)}

(* The text of a request holds a secret when one of its contents does.     *)
StoredRequest(persist, request) ==
  IF ~persist THEN Placeholder
  ELSE <<IF ContentsOf(request) \cap Secrets = {} THEN "request" ELSE "redacted request", request>>

Stores(persist, request) ==
  {StoredRequest(persist, request)} \cup
  {Persisted(persist, b.content) :
     b \in ToSet(Deduplicate(request.blocks) \o Deduplicate(request.tools))}

Optimize(mode, request) ==
  LET blocks == SelectedBlocks(mode, Deduplicate(request.blocks))
      tools == SelectedTools(mode, Deduplicate(request.tools))
      larger == Total(blocks) + Total(tools) >= Total(request.blocks) + Total(request.tools)
  IN  [request |-> IF larger THEN request ELSE [blocks |-> blocks, tools |-> tools],
       fallback |-> larger]

-----------------------------------------------------------------------------
(* A request in a provider's format.                                       *)
(*   form      "object" that the adapter accepts; "invalid" JSON, or an    *)
(*             object it refuses; a "value" that is no object; an object   *)
(*             that is "odd" (a list of messages that are no objects);     *)
(*             "undecodable" bytes                                         *)
(*   messages  a message may carry a key of llmcut's own (flag)            *)
(*   tools     a sequence, or Nothing when the key is missing              *)
(*   padding   what the spelling of the body costs beyond the compact one  *)
(* Gemini groups its tools: an item holds function declarations and, or,   *)
(* another tool.                                                           *)

Forms == {"object", "invalid", "value", "odd", "undecodable"}

Messages == [content : Contents, flag : Flags]

Groups == [functions : Seq(Contents), other : Contents \cup {Nothing}]

ToolsOf(body) == IF body.tools = Nothing THEN <<>> ELSE body.tools

IsBody(body) ==
  /\ body \in [form : Forms,
               endpoint : {"chat-completions", "responses", "messages", "generate-content"},
               messages : Seq(Messages), tools : {body.tools}, padding : Nat]
  /\ ToolsOf(body) \in Seq(IF body.endpoint = "generate-content" THEN Groups ELSE Contents)

Declarations(tools) == FlattenSeq([i \in DOMAIN tools |-> tools[i].functions])
Others(tools) ==
  LET with == At(tools, {i \in DOMAIN tools : tools[i].other # Nothing})
  IN  [i \in DOMAIN with |-> with[i].other]

(* from_native of the adapters.  A message is never deduplicated; only the *)
(* one for OpenAI takes the other keys of a message for metadata.  It has  *)
(* two styles: "responses" keeps its messages under another key, and its   *)
(* instructions are never left out.                                        *)
Canonical(messages, tools, flagged) ==
  [blocks |-> [i \in DOMAIN messages |->
                 Block("user", messages[i].content, IF flagged THEN messages[i].flag ELSE "none",
                       FALSE)],
   tools |-> [i \in DOMAIN tools |-> Block("tool_definition", tools[i], "none", TRUE)]]

FromOpenAI(body) == Canonical(body.messages, ToolsOf(body), TRUE)
FromAnthropic(body) == Canonical(body.messages, ToolsOf(body), FALSE)
FromGemini(body) == Canonical(body.messages, Declarations(ToolsOf(body)), FALSE)

FromNative(body) ==
  CASE body.endpoint \in {"chat-completions", "responses"} -> FromOpenAI(body)
    [] body.endpoint = "messages" -> FromAnthropic(body)
    [] body.endpoint = "generate-content" -> FromGemini(body)

(* to_native: llmcut's own keys are left out, and a list of tools is       *)
(* always there.                                                           *)
ToolItems(request) == [i \in DOMAIN request.tools |-> request.tools[i].content]

ToGroups(body, request) ==
  LET others == Others(ToolsOf(body))
  IN  (IF request.tools = <<>> THEN <<>>
       ELSE <<[functions |-> ToolItems(request), other |-> Nothing]>>)
      \o [i \in DOMAIN others |-> [functions |-> <<>>, other |-> others[i]]]

ToNative(body, request) ==
  [form |-> body.form,
   endpoint |-> body.endpoint,
   messages |-> [i \in DOMAIN request.blocks |->
                   [content |-> request.blocks[i].content, flag |-> "none"]],
   tools |-> IF body.endpoint = "generate-content" THEN ToGroups(body, request)
             ELSE ToolItems(request),
   padding |-> 0]

SemanticallyEqual(body, other) ==
  /\ body.messages = other.messages
  /\ ToolsOf(body) = ToolsOf(other)

-----------------------------------------------------------------------------
(* The checks of the candidate.                                            *)

(* Tokens of a body, with one for the list of tools when it is there.      *)
BodySize(body) ==
  LET tools == ToolsOf(body)
      items == IF body.endpoint = "generate-content" THEN Declarations(tools) \o Others(tools) ELSE tools
  IN  Total(body.messages) + SumFunction([i \in DOMAIN items |-> SizeOf(items[i])])
        + (IF body.tools = Nothing THEN 0 ELSE 1) + body.padding

Unique(items) == At(items, {i \in DOMAIN items : \A j \in 1 .. i - 1 : items[j] # items[i]})

ExactDuplicateReduction(original, candidate, endpoint) ==
  \/ original = candidate
  \/ IF endpoint = "generate-content"
     THEN /\ Others(candidate) = Others(original)
          /\ Declarations(candidate) = Unique(Declarations(original))
     ELSE candidate = Unique(original)

SafeCandidate(body, candidate) ==
  /\ body.messages = candidate.messages
  /\ ExactDuplicateReduction(ToolsOf(body), ToolsOf(candidate), body.endpoint)

-----------------------------------------------------------------------------
(* optimize_native.  An exception it does not name leaves it.              *)

Kept(body, status, attempted) ==
  [raised |-> FALSE, body |-> body, status |-> status, original |-> BodySize(body),
   attempted |-> attempted, effective |-> BodySize(body)]

Raised(body) == [Kept(body, "restored", BodySize(body)) EXCEPT !.raised = TRUE]

OptimizedUnchecked(mode, body) ==    \* slip: neither check of the candidate is made
  LET candidate == ToNative(body, Optimize(mode, FromNative(body)).request)
      attempted == BodySize(candidate)
  IN  IF attempted >= BodySize(body) THEN Kept(body, "unchanged", attempted)
      ELSE [Kept(candidate, "optimized", attempted) EXCEPT !.original = BodySize(body)]
Optimized(mode, body) ==
  LET candidate == ToNative(body, Optimize(mode, FromNative(body)).request)
      attempted == BodySize(candidate)
  IN  IF ~SemanticallyEqual(body, ToNative(body, FromNative(body)))
        THEN Kept(body, "restored", BodySize(body))
      ELSE IF ~SafeCandidate(body, candidate) THEN Kept(body, "restored", attempted)
      ELSE IF attempted >= BodySize(body) THEN Kept(body, "unchanged", attempted)
      ELSE [Kept(candidate, "optimized", attempted) EXCEPT !.original = BodySize(body)]

IsRefused(body) == body.form \in {"invalid", "value"}

OptimizeNative(mode, body) ==
  CASE body.form \in {"undecodable", "odd"} -> Raised(body)
    [] IsRefused(body) -> Kept(body, "restored", BodySize(body))
    [] body.form = "object" -> Optimized(mode, body)
=============================================================================
