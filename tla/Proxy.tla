-------------------------------- MODULE Proxy --------------------------------
(***************************************************************************)
(* The application of proxy/app.py: requests forwarded to a provider       *)
(* (forward), managed runs (managed), the status of a run                  *)
(* (managed_run_status); and the optimize command of the command line,     *)
(* which shares the database and the optimizer (module RequestOptimizer).  *)
(*                                                                         *)
(* The handlers share one event loop: a step goes from one await to the    *)
(* next.  The upstream answers, fails or times out; the client of a stream *)
(* may go away; another process may hold the database past the busy        *)
(* timeout, so that a statement raises; the application may die and be     *)
(* started again.                                                          *)
(***************************************************************************)
EXTENDS RequestOptimizer, FiniteSetsExt

CONSTANTS Clients,      \* each sends one request
          Modes,        \* the configured optimization modes
          Requests,     \* what each client may send
          Usages,       \* output tokens a response may report, 0 for none
          KeptRuns,     \* completed runs kept for managed_run_status (128)
          MaxRestarts   \* bound: deaths of the application

(* What a client may be told.                                              *)
Told == {"refused", "failed", "timed out", "unreachable", "upstream", "cut", "run", "not found",
         "optimized", "lost"}

(* Requests are native ones [kind, body, admitted, stream, path_stream],   *)
(* managed ones [kind, admitted] and canonical ones [kind, canonical].     *)
ASSUME ProxyAssumption ==
  /\ \A c \in Clients : \A r \in Requests[c] :
       /\ r.kind \in {"native", "managed", "status", "canonical"}
       /\ r.kind = "native" => IsBody(r.body) /\ {r.stream, r.path_stream} \subseteq BOOLEAN
       /\ r.kind = "canonical" => IsRequest(r.canonical)
  /\ Nothing \notin Told
  /\ Usages \subseteq Nat
  /\ KeptRuns \in Nat \ {0}
  /\ MaxRestarts \in Nat

VARIABLES mode,       \* the configured optimization mode
          persist,    \* persist_prompt_content of the configuration
          handler,    \* what becomes of each client's request
          evidence,   \* persisted texts
          metrics,    \* table request_metrics
          runs,       \* table runs: requests optimized by the command
          usage,      \* table usage: output tokens, in order
          managed,    \* table managed_metrics: run ids, in order
          completed,  \* completed_runs: run ids, in order
          recorded,   \* rows of managed_metrics when the application started
          restarts

tables == <<evidence, metrics, runs, usage, managed, completed>>
vars == <<mode, persist, handler, evidence, metrics, runs, usage, managed, completed, recorded,
          restarts>>

(* A handler: sent is the body the upstream was given, open whether its    *)
(* response is not closed yet, answer what the client is told.             *)
Idle == [phase |-> "idle", request |-> Nothing, result |-> Nothing, sent |-> Nothing,
         stream |-> FALSE, open |-> FALSE, output |-> 0, answer |-> Nothing]

Ended(h, answer) == [h EXCEPT !.phase = "ended", !.answer = answer]

Init ==
  /\ mode \in Modes
  /\ persist \in BOOLEAN
  /\ handler = [c \in Clients |-> Idle]
  /\ evidence = {}
  /\ metrics = {}
  /\ runs = {}
  /\ usage = <<>>
  /\ managed = <<>>
  /\ completed = <<>>
  /\ recorded = 0
  /\ restarts = 0

-----------------------------------------------------------------------------
(* forward.                                                                *)

(* _stream_requested raises for a body that is no JSON object, unless the  *)
(* path decides.                                                           *)
StreamRaises(r) == r.body.form = "value" /\ ~r.path_stream
StreamRequested(r) == r.path_stream \/ (r.body.form # "value" /\ r.stream)

(* Whether optimize_native comes to the optimizer, which puts evidence.    *)
ReachesOptimizer(body) ==
  body.form = "object" /\ SemanticallyEqual(body, ToNative(body, FromNative(body)))

(* A request of any kind that is refused at once: an unknown provider, a   *)
(* body beyond the limit, an unsafe route; authentication.                 *)
Refuse(c, r) ==
  /\ r.kind \in {"native", "managed"}
  /\ ~r.admitted
  /\ handler' = [handler EXCEPT ![c] = Ended([Idle EXCEPT !.request = r], "refused")]
  /\ UNCHANGED tables

(* Puts that raise leave what was put before.                              *)
PutSome(stored) == \E put \in SUBSET stored \ {stored} : evidence' = evidence \cup put

(* Everything up to client.send.  An exception is answered with 500.       *)
Forward(c, r) ==
  /\ r.kind = "native"
  /\ r.admitted
  /\ LET result == OptimizeNative(mode, r.body)
         stored == IF ReachesOptimizer(r.body) THEN Stores(persist, FromNative(r.body)) ELSE {}
         start == [Idle EXCEPT !.request = r, !.result = result]
     IN  \/ /\ result.raised \/ StreamRaises(r)
            /\ handler' = [handler EXCEPT ![c] = Ended(start, "failed")]
            /\ UNCHANGED evidence
         \/ /\ handler' = [handler EXCEPT ![c] = Ended(start, "failed")]
            /\ PutSome(stored)
         \/ /\ ~result.raised
            /\ ~StreamRaises(r)
            /\ handler' = [handler EXCEPT ![c] = [start EXCEPT
                              !.phase = "sent", !.sent = result.body,
                              !.stream = StreamRequested(r)]]
            /\ evidence' = evidence \cup stored
  /\ UNCHANGED <<metrics, runs, usage, managed, completed>>

(* client.send raises: a timeout, or another HTTP error.                   *)
UpstreamFails(c) ==
  /\ handler[c].phase = "sent"
  /\ \E answer \in {"timed out", "unreachable"} :
       handler' = [handler EXCEPT ![c] = Ended(@, answer)]
  /\ UNCHANGED tables

RowUnnumbered(c, result) ==    \* slip: record_request returns nothing
  [id |-> Nothing, original |-> result.original, effective |-> result.effective,
   fallback |-> result.status # "optimized", output |-> 0]
Row(c, result) ==
  [id |-> c, original |-> result.original, effective |-> result.effective,
   fallback |-> result.status # "optimized", output |-> 0]

(* The headers of a response, or the whole response when no stream was     *)
(* asked for: record_request, which may raise.  A stream is then left      *)
(* open.                                                                   *)
RecordRequest(c) ==
  /\ handler[c].phase = "sent"
  /\ \/ /\ handler' = [handler EXCEPT ![c] =
                         Ended([@ EXCEPT !.open = handler[c].stream], "failed")]
        /\ UNCHANGED metrics
     \/ /\ handler' = [handler EXCEPT ![c].phase = IF handler[c].stream THEN "streaming"
                                                                       ELSE "reading",
                                      ![c].open = handler[c].stream]
        /\ metrics' = metrics \cup {Row(c, handler[c].result)}
  /\ UNCHANGED <<evidence, runs, usage, managed, completed>>

-----------------------------------------------------------------------------
(* The end of a stream, an error of the upstream or the departure of the   *)
(* client, which all close it.  Passing a chunk on changes no state.       *)

EndStream(c) ==
  /\ handler[c].phase = "streaming"
  /\ \E answer \in {"upstream", "cut"} :
       handler' = [handler EXCEPT ![c] = Ended([@ EXCEPT !.open = FALSE], answer)]
  /\ UNCHANGED tables

(* _record_usage of the whole response, then the answer.  Both statements  *)
(* are in one transaction, which may raise, as does a response that is no  *)
(* object; a response that is no JSON is passed over.                      *)
WithOutputEverywhere(c, tokens) ==    \* slip: the update has no WHERE clause
  {[row EXCEPT !.output = tokens] : row \in metrics}
WithOutput(c, tokens) ==
  {IF row.id = c THEN [row EXCEPT !.output = tokens] ELSE row : row \in metrics}

Reply(c) ==
  /\ handler[c].phase = "reading"
  /\ \/ /\ handler' = [handler EXCEPT ![c] = Ended(@, "failed")]
        /\ UNCHANGED <<metrics, usage>>
     \/ \E tokens \in Usages :
          /\ handler' = [handler EXCEPT ![c] = Ended([@ EXCEPT !.output = tokens], "upstream")]
          /\ usage' = IF tokens = 0 THEN usage ELSE Append(usage, tokens)
          /\ metrics' = IF tokens = 0 THEN metrics ELSE WithOutput(c, tokens)
  /\ UNCHANGED <<evidence, runs, managed, completed>>

-----------------------------------------------------------------------------
(* managed: the run itself is module ManagedRuntime.                       *)

StartManaged(c, r) ==
  /\ r.kind = "managed"
  /\ r.admitted
  /\ handler' = [handler EXCEPT ![c] = [Idle EXCEPT !.request = r, !.phase = "running"]]
  /\ UNCHANGED tables

WithRun(c) == Append(managed, c)

KeepAll(ids) == ids    \* slip: no run is dropped
Keep(ids) == IF Len(ids) > KeptRuns THEN Tail(ids) ELSE ids

(* record_managed, then completed_runs, which drops the oldest.  The run   *)
(* may be refused (400), and the run or the insertion may raise (500).     *)
EndManaged(c) ==
  /\ handler[c].phase = "running"
  /\ \/ /\ \E answer \in {"refused", "failed"} :
             handler' = [handler EXCEPT ![c] = Ended(@, answer)]
        /\ UNCHANGED <<managed, completed>>
     \/ /\ handler' = [handler EXCEPT ![c] = Ended(@, "run")]
        /\ managed' = WithRun(c)
        /\ completed' = Keep(Append(completed, c))
  /\ UNCHANGED <<evidence, metrics, runs, usage>>

(* managed_run_status for the run of another client.                       *)
Status(c, r) ==
  /\ r.kind = "status"
  /\ handler' = [handler EXCEPT ![c] =
                   Ended([Idle EXCEPT !.request = r],
                         IF Contains(completed, r.run) THEN "run" ELSE "not found")]
  /\ UNCHANGED tables

-----------------------------------------------------------------------------
(* The optimize command, another process: the optimizer, then record_run,  *)
(* then the list of the evidence and the output.  Any statement may raise, *)
(* and the process may die; the row is committed by then or not.           *)
RunRow(c, request, result) ==
  [id |-> c, original |-> Total(request.blocks) + Total(request.tools),
   optimized |-> Total(result.request.blocks) + Total(result.request.tools)]

OptimizeCommand(c, r) ==
  /\ r.kind = "canonical"
  /\ LET start == [Idle EXCEPT !.request = r]
         result == Optimize(mode, r.canonical)
         stored == Stores(persist, r.canonical)
     IN  \/ /\ handler' = [handler EXCEPT ![c] = Ended(start, "failed")]
            /\ PutSome(stored) \/ evidence' = evidence \cup stored
            /\ UNCHANGED runs
         \/ /\ \E answer \in {"optimized", "failed"} :
                  handler' = [handler EXCEPT ![c] =
                                Ended([start EXCEPT !.result = result], answer)]
            /\ evidence' = evidence \cup stored
            /\ runs' = runs \cup {RunRow(c, r.canonical, result)}
  /\ UNCHANGED <<metrics, usage, managed, completed>>

(* The application dies and is started again.                              *)
Restart ==
  /\ restarts < MaxRestarts
  /\ restarts' = restarts + 1
  /\ handler' = [c \in Clients |->
                   IF handler[c].phase \in {"idle", "ended"} THEN [handler[c] EXCEPT !.open = FALSE]
                   ELSE Ended([handler[c] EXCEPT !.open = FALSE], "lost")]
  /\ completed' = <<>>
  /\ recorded' = Len(managed)
  /\ UNCHANGED <<mode, persist, evidence, metrics, runs, usage, managed>>

Accept(c) ==
  /\ handler[c].phase = "idle"
  /\ \E r \in Requests[c] :
       \/ Refuse(c, r) \/ Forward(c, r) \/ StartManaged(c, r) \/ Status(c, r)
       \/ OptimizeCommand(c, r)

Continue(c) ==
  UpstreamFails(c) \/ RecordRequest(c) \/ EndStream(c) \/ Reply(c) \/ EndManaged(c)

Serve(c) == (Accept(c) \/ Continue(c)) /\ UNCHANGED <<mode, persist, recorded, restarts>>

Next == Restart \/ \E c \in Clients : Serve(c)

Spec == Init /\ [][Next]_vars

-----------------------------------------------------------------------------
Phases == {"idle", "sent", "streaming", "reading", "running", "ended"}

Answers == Told \cup {Nothing}

(* The types.                                                              *)
TypeOK ==
  /\ mode \in Modes
  /\ persist \in BOOLEAN
  /\ \A c \in Clients : LET h == handler[c] IN
       /\ h.phase \in Phases
       /\ h.request \in Requests[c] \cup {Nothing}
       /\ {h.stream, h.open} \subseteq BOOLEAN
       /\ h.output \in Usages \cup {0}
       /\ h.answer \in Answers
  /\ \A row \in metrics : row.id \in Clients /\ row.output \in Usages \cup {0}
  /\ usage \in Seq(Usages)
  /\ managed \in Seq(Clients)
  /\ completed \in Seq(Clients)
  /\ recorded \in 0 .. Len(managed)
  /\ restarts \in 0 .. MaxRestarts

(* The first occurrences of a sequence, in their order.                    *)
IsFirstOccurrences(t, s) ==
  /\ ToSet(t) = ToSet(s)
  /\ IsInjective(t)
  /\ \A i, j \in DOMAIN t : i < j =>
       \E k \in DOMAIN s : s[k] = t[i] /\ \A l \in DOMAIN s : s[l] = t[j] => k < l

SameTools(body, sent) ==
  IF body.endpoint # "generate-content" THEN IsFirstOccurrences(ToolsOf(sent), ToolsOf(body))
  ELSE /\ IsFirstOccurrences(Declarations(ToolsOf(sent)), Declarations(ToolsOf(body)))
       /\ Others(ToolsOf(sent)) = Others(ToolsOf(body))

(* What a provider is given is the client's body as it came, or a smaller  *)
(* one with the same messages, in which the first of every group of equal  *)
(* tools is still there and the order is kept (README: forwarded only when *)
(* "the complete native request is safe and smaller; otherwise the         *)
(* original bytes are replayed").                                          *)
ForwardedIsEquivalent ==
  \A c \in Clients : LET h == handler[c] IN
    h.sent # Nothing =>
      \/ h.sent = h.request.body
      \/ /\ h.request.body.form = "object"
         /\ BodySize(h.sent) < BodySize(h.request.body)
         /\ h.sent.messages = h.request.body.messages
         /\ SameTools(h.request.body, h.sent)

CommandResults == {c \in Clients : handler[c].answer = "optimized"}

(* The metrics tell what crossed the boundary: a row for every request     *)
(* whose response was passed on, with the size of the body that was sent   *)
(* and whether it was the original; its output is what was taken from the  *)
(* response to this request (nothing from a stream), whatever other        *)
(* requests were answered in between, and the usage table adds up to the   *)
(* same.  Every command that printed its result has a row, and a row, also *)
(* one of a command that failed after it, has the size the optimizer's     *)
(* result had.                                                             *)
RowsTellWhatWasSent ==
  /\ \A c \in Clients : handler[c].answer \in {"upstream", "cut"} => \E row \in metrics : row.id = c
  /\ \A row \in metrics : LET h == handler[row.id] IN
       /\ row.effective = BodySize(h.sent)
       /\ row.effective <= row.original
       /\ row.fallback = (h.sent = h.request.body)
       /\ row.output = h.output
  /\ SumFunction(usage) = SumFunction([row \in metrics |-> row.output])
  /\ CommandResults \subseteq {row.id : row \in runs}
  /\ \A row \in runs : LET returned == handler[row.id].result.request IN
       row.optimized = Total(returned.blocks) + Total(returned.tools)

(* completed_runs holds the latest runs that were recorded since the       *)
(* application started, and no more than its limit of them: an id that a   *)
(* caller was given can be asked for until enough others have ended.       *)
KeptAreLatest ==
  completed = SubSeq(managed, 1 + (IF Len(managed) > recorded + KeptRuns
                                   THEN Len(managed) - KeptRuns ELSE recorded),
                     Len(managed))

(* What is left out of a canonical request: no equal block of its kind is  *)
(* in the result.                                                          *)
Parts(request) == ToSet(request.blocks \o request.tools)

Omitted(request, result) ==
  {b \in Parts(request) : \A k \in Parts(result) : Key(k) # Key(b)}

(* What a mode may leave out, by the caller's word for this very content.  *)
Omissible(request, b) ==
  /\ mode # "strict"
  /\ \/ b.flag = "proven_redundant"
     \/ <<b.kind, b.flag>> \in {<<"checkpoint", "superseded">>,
                                <<"command_output", "represented_by_verified_structure">>}
     \/ /\ mode = "extreme" /\ b.flag = "task_irrelevant"
        /\ b.kind = "repository" \/ b \in ToSet(request.tools)

(* The parts of a list that were asked about when all with a key are gone: *)
(* those that are never deduplicated, and the first of the others.         *)
Representatives(parts, key) ==
  {parts[i] : i \in {i \in DOMAIN parts :
     /\ Key(parts[i]) = key
     /\ parts[i].safe => ~\E j \in 1 .. i - 1 : parts[j].safe /\ Key(parts[j]) = key}}

(* A content is left out of a context only if the caller flagged it: every *)
(* part with it that is not deduplicated, and the first of those that are, *)
(* whose flag decides for the rest.  Where contents are persisted it can   *)
(* then be read back from the store, unless redaction changed it; without  *)
(* a secret the whole request can.                                         *)
OmittedIsRecoverable ==
  \A c \in CommandResults :
    LET request == handler[c].request.canonical
        omitted == Omitted(request, handler[c].result.request)
    IN  /\ \A b \in omitted :
             /\ \A x \in Representatives(request.blocks, Key(b))
                         \cup Representatives(request.tools, Key(b)) : Omissible(request, x)
             /\ persist => b.content \in Secrets \/ <<"exact", b.content>> \in evidence
        /\ persist /\ ContentsOf(request) \cap Secrets = {} => <<"request", request>> \in evidence

(* docs/architecture.md, lines 87-88: the engine "preserves every          *)
(* exclusion by reference" (README, line 185: where contents are           *)
(* persisted).                                                             *)
ExclusionsArePreserved ==
  persist => \A c \in CommandResults :
    LET request == handler[c].request.canonical
    IN  \A b \in Omitted(request, handler[c].result.request) :
           <<"exact", b.content>> \in evidence
=============================================================================
