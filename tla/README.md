# Verification of llmcut

llmcut sits between an agent and a model provider and makes requests smaller: it
leaves context out, keeps it as evidence in a local SQLite file, and lets the
provider retrieve it. What can go wrong is mostly a matter of order: several
processes share one state file, evidence is swept by age while a request still
depends on it, a provider may never answer, messages arrive before the answer that
explains them, and a process may die between two statements. This directory holds
TLA+ modules for those parts, TLC configurations that check them on small instances,
and proofs for TLAPS.

Paths below are relative to `src/llmcut/` of the repository.

## The system

| Component | State | Operations | Hard behaviour |
|---|---|---|---|
| Evidence store and checkpoints (`store/evidence.py`, `core/checkpoint.py`) | tables `evidence`, `evidence_refs`, `checkpoints` | put, get, reference, collect; save, load | processes interleave between statements; sweeps by age; deaths inside a save; rows changed from outside |
| State database (`store/database.py`) | the schema, table `schema_version` | initialize, connect | two initializers; death inside a migration script |
| Context planner (`managed/planner.py`, validate of `managed/protocol.py`) | the selection, the evidence of each context | plan | transitive dependencies; redaction that changes content; fallback; sweeps by other processes |
| Managed runtime and retrieval (`managed/runtime.py`, `managed/retrieval.py`) | working context, usage, repeated calls | run, execute | several turns; failing and repeated calls; bounds; timeout and cancellation |
| Repository index (`index/`) | table `repository_index` keyed by path and blob | build, pack | the worktree changes between and during builds |
| Codex execution (`integrations/codex/executor.py`, `backend.py`, `app_server.py`) | worktrees, the agent's session, queued messages, validations, results | run, cancel | a thread that outlives its run, messages out of order, deadlines, turns and corrections, clean-up |
| Codex set-up (the rest of `integrations/codex/`) | configuration of an installation | load suite, init, doctor, normalize_event | none |
| Proxy (`proxy/`, `client.py`) | open streams, completed runs | forward, managed, managed_run_status | fallback to the original request; usage recorded after the answer; streams that break off; eviction |
| Request optimizer (`core/`) | none | optimize | exact duplicates, policies, adapters both ways |
| Metrics (`store/metrics.py`) | tables `runs`, `usage`, `request_metrics`, `managed_metrics` | record_run, record_request, record_managed | statements that raise after the upstream has answered |
| Captures (`captures.py`) | capture directories with a manifest | load, verify, redact, delete, write_agent_capture | death between two files; two processes at one path |
| Provider adapters (`adapters/`) | none | from_native, to_native | what a round trip loses |
| Token counters (`tokens/`, `measurement.py`) | registered counters, a cache | count_transport | an endpoint that does not answer |
| MCP server (`mcp/server.py`) | a snapshot of the index | read, search | stale snapshots |
| Evaluation (`eval/`) | paired results | run, report | order of trials, clean-up |
| Command line, configuration, reports | | optimize | none: single statements and pure conversions |

The planner writes evidence through the store and reads it back; the runtime
calls the planner once, the provider once a turn, and the retrieval service, which
reads the store, once for each call in an answer. The optimizer puts into the same
store what it might leave out; the proxy calls it through `optimize_native` for
requests in a provider's own format, the command line with canonical ones. The proxy
also starts managed runs. Checkpoints refer to evidence and so protect it from
`collect`. All of them go through `Database.connect`, a connection and a transaction
per operation. The Codex evaluator drives an agent through one of two backends, of
which the App Server client is a protocol of its own.

What makes each component right, and which property says so, is listed with the
modules below; PROJECT.json lists every hazard at its line.

## Modules

| Module | Models | Extends or instantiates | Checked by | Proofs |
|---|---|---|---|---|
| `Retention` | what the store promises | | `store` | |
| `EvidenceStore` | evidence and checkpoints | instance of `Retention` | `store` | `EvidenceStoreProofs` |
| `DatabaseMigration` | migrations | | `migration`, `migration_atomic` | `DatabaseMigrationProofs` |
| `ContextPlanner` | plan | | `runtime`, `closure` | `ManagedRuntimeProofs` |
| `ManagedRuntime` | run, with the planner and the retrieval service | `ContextPlanner` | `runtime` | `ManagedRuntimeProofs` |
| `RepositoryIndex` | build and the MCP server | | `index`, `index_edited` | `RepositoryIndexProofs` |
| `CodexEvaluation` | the evaluator with both backends | | `codex` | `CodexEvaluationProofs` |
| `AgentRun` | what a run of the App Server client promises | | `app_server` | |
| `AppServer` | the App Server client, message by message | instance of `AgentRun` | `app_server` | `AppServerProofs` |
| `RequestOptimizer` | optimizer, adapters, optimize_native, as operators | | `proxy` | `ProxyProofs` |
| `Proxy` | the application, metrics and the optimize command | `RequestOptimizer` | `proxy`, `proxy_exclusions` | `ProxyProofs` |
| `Captures` | captures at one path | | `captures` | `CapturesProofs` |

Each `MC` module gives the constants their values for TLC. A definition whose comment
says "slip" is not part of a specification: it is a mistake of the code that would
break a property, listed in PROJECT.json with the property that catches it.

### EvidenceStore, Retention

`EvidenceStore` has the three tables as variables and one action per statement of
put, get, reference, collect, save and load, for any number of processes; a read
and a write of one operation are two actions where SQLite lets another process in
between. `Die` ends a process between two actions and leaves what it committed.
`Tamper` changes a stored row, `MoveHead` the revision of the repository, `Tick`
the clock. Content is one of `Contents`; `Persisted` says what redaction makes of
it, and digests are identified with the text they are digests of.

`Retention` is what the store promises: evidence appears, is protected when a
checkpoint refers to it, and disappears only unprotected. `EvidenceStore`
implements it (`ImplementsRetention`), in every run and by proof.

Properties: the evidence of a checkpoint is referenced and stored
(`CheckpointEvidenceRetained`), a load that found its checkpoint finds the evidence
(`LoadNeverMissing`), no read returns altered text (`ReadsAreVerified`). That
references never dangle and that one identifier has one checkpoint are parts of the
proved invariant and are not checked by runs of their own.

### DatabaseMigration

`Database.initialize`: read the version, run the script of each newer version
statement by statement, insert the version, commit. `executescript` commits first
and runs every statement on its own; `Crash` may come between any two. Properties:
a recorded version is complete (`RecordedIsComplete`), an initialize that returned
left the newest schema (`ReturnedMeansCurrent`), no two processes migrate at a time
(`OneMigrator`), and all initializers get through unless a death left a migration
half applied (`EventuallyInitialized`).

### ContextPlanner

`plan` step by step: validate, the first selection, the dependency loop (one
dependency at a time, in any order), then for every context the put and the two
statements of the get that checks it (`SelectRow`, `RenewRow`), the comparison in
tokens and the plan. `Sweep` is `collect` of another process at any moment; a row of
an earlier run that goes between the two statements of a get, which succeeds all the
same, is remembered in the history variable `slipped`. A
context has its kind, retention, priority, dependencies and call; what the code
finds out from text has a field of its own: `named` (the task names it), `exact`
(redaction leaves it alone), `secret`. Whether the plan is smaller than the
request is arbitrary, except that they are equal when nothing is left out. The
order of contexts is dropped: only validate (a result after its call) looks at it.

Properties: the plan sends the least closed selection, and beyond it only what
redaction changes (`PlanIsLeast`, with `Least` as the reference definition), contexts
are sent or deferred (`SentOrDeferred`), deferred ones stay stored, but for those that
slipped (`DeferredStaysStored`), and can be asked for (`RestorationOffered`). That the
dependencies of all that is sent are sent, as a comment has it, is
`DependenciesIncluded`, which the run `closure` refutes.

### ManagedRuntime

Extends the planner with `run`: the turns, the provider, which answers, fails or
never answers, the calls of an answer one after the other, the bounds, the
caller's cancellation and the passing of time. A retrieval call is an operation, a
context or tool, perhaps a dependency, and all its other arguments (`rest`), by which
it is recognised when it is repeated; `Suits` says what the operation makes of them:
they fit, are refused, or raise something that is no RetrievalError. Sizes of excerpts
are arbitrary within `MaxResult`; `Brought` says whose content a result carries, which
for `dependency.get` are declared dependencies, sent or not. With the plan made all rows
are fresh, so that the reads of a retrieval are one step. The estimate
that stands in the usage before the first answer is left out. The cache of the
retrieval service is left out: `run` turns a repeated call down before the cache
is asked, which `OnlyDeferredRetrieved` relies on.

Properties: the usage counts every request of the run (`AllInputCounted`), every
call is followed by its result before the provider is asked again
(`CallsAnswered`), only what was deferred can be asked for, nothing twice with the same
arguments, and what was sent comes back only as a declared dependency
(`OnlyDeferredRetrieved`), both bounds hold when a continuation is sent
(`ContinuesWithinBounds`), a run with a plan misses no evidence but the task's and what
slipped (`OnlySlippedIsMissing`),
the context only grows (`ContextOnlyGrows`), and every run ends (`RunEnds`).

### RepositoryIndex

`build` of `index/repository.py` by any number of processes with any parser
versions: three calls of git, then per path the look at the cache, the reading and
the storing, then the selection and the deletion of the rows of paths not listed, and
the second storing of all records. Developers write, delete, stage, commit and check
out at any moment. Two sets of the history say which files the code can be held to:
`moved` has those that changed since a build listed its paths, and `disturbed` those
into which something was written while git knew them, or while any build went on. A
build may have stored a record of the latter under a blob that it was not made from.
The records of a build are right for every file that has not moved and is settled, that
is, not disturbed or reported by git as changed (`SettledAreCurrent`): files deleted and
made anew or checked out while builds go on are settled, and rows that an older build
stores again after another has removed them do no harm. The violation run drops the
condition (`ChangesInvalidate`). The MCP server takes the records of one build; `Matches`
is what `read` asks of a file, the digest of the file read as text (the constant `Text`
says what this makes of a content) against the digest of the bytes indexed. It refuses no settled
file that has stayed as it was, unless reading it as text alters it
(`UnchangedIsServed`). Of a record, what depends on content alone is the content. Left
out: unsafe files and symbolic links, a directory that is no repository, the association
of tests, and the `status` field of a record, which `_cached` returns as it was stored
(a file that was staged and then committed is reported as staged).

### CodexEvaluation

`CodexEvaluator.run` with both backends. A run is a session that opens, goes
through turns and validations, and ends or raises; the App Server client drives it
in the evaluator's coroutine, the SDK backend in a thread that goes on when the run
is given up. So the SDK's session steps are enabled after the evaluator has moved
on, and `active` (the one `_active_client`) may belong to any run. A worktree is the
number of validation commands that would pass. The agent works, completes, fails,
reports rerouting, breaks, leaves requests unread, closes its output or stays silent as
it likes. `GiveUp` stands for the deadline and the cancellation event, which the App
Server client notices while it reads, and for the SDK also for a cancelled task;
`CancelTask` cancels the App Server client wherever it waits. That client ends its runs
step by step: the turn is interrupted, the agent told to stop, killed after the grace
period (`GraceEnds`), and reaped with its stderr (`Reaped`); `GivenUp` says where a
cancellation takes it from each of these, which may be past the kill. Configuration that is looked at in one
place only (keep_worktrees, fail_fast, the given directory, parity of settings) is
chosen there.

Properties: a run that is driven has its worktree and is measured with the outcomes
of a validation (part of `TypeOK`), what passed was completed in the last turn and
is what the worktree holds (`ResultsAreReal`), a passed evaluation is complete and
fair (`PassedIsFair`), no agent is alive for a measured run, except for runs that were
given up and count as such: the SDK's, and those of an App Server client that was
cancelled in the last grace period (`AgentsAreStopped`), and every evaluation ends and
cleans up, or says by an exception that it could not, unless an agent holds it up in one
of the waits that have no deadline, which are `HeldUp` (`EndsClean`).

### AppServer, AgentRun

`CodexAppServer.run` with its two pipes. The agent takes one request after another
and answers it, declares turns before or after the answer that names them, repeats a
declaration, sends requests with ids of its own, reports usage or another model,
writes garbage, exits or falls silent. The client waits for an answer and queues what
else arrives (`Queue`), then looks at the queue before it reads on (`NextPending`,
`ReadLine`); it looks at the event and the deadline before it waits for a line, and while
it waits only the deadline and a cancelled task are noticed. A request is sent when its
bytes have left the client's buffer (`Drained`), and a pipe that has ended is followed by
the wait for the exit status (`Exited`); there the deadline goes unnoticed. However the
run ends, a turn in progress is interrupted if it is given up, the process is terminated,
killed after five seconds, and its stderr read to the end. `CancelTask` cancels the client
at each of these awaits: a run that was complete is given up and stopped once more, and
from the last stop nothing comes back (`CancelStop`), so that an agent which ignores
SIGTERM is left alive (`abandoned`). The validation callback may raise.
The identifier of a turn is its number; an answer without a result, or without the
name of what it began, is "empty". Sizes of messages, and digests, are left out; an
oversized line behaves as garbage does.

`AgentRun` is what the evaluator relies on: turns are begun one at a time, each after
the agent declared the end of the one before, and what is returned is what the agent
declared of the last turn. `AppServer` implements it (`ImplementsAgentRun`), in the
run and by proof. Other properties: no notification is lost, repeated or overtaken
between agent and loop (`HandledInOrder`), and every run ends with the process dead, or
left by a cancellation of the last stop, unless it is held up for ever by one of the three
waits without a deadline (`EndsStopped`, `HeldUp`).

### RequestOptimizer, Proxy

`RequestOptimizer` has the pure part as operators: `Deduplicate`, the two policies,
`Optimize` and what it stores; `FromNative` and `ToNative` of the three providers on
messages and tools (flat lists, or Gemini's groups of declarations; OpenAI's two
endpoints), with llmcut's own keys and the spelling of a body (`padding`); and `OptimizeNative` with every check of
a candidate and every fallback. Contents have a size and may be secrets. The adapters
make tools that are tool definitions, while a canonical request may come with tools of
any kind, as `from_dict` takes them.

`Proxy` has the handlers of one event loop, a step from one await to the next: forward
with its stream, its usage record and its response; managed runs and the table of
completed ones; and the optimize command, another process on the same file. A step
that uses the database may raise, the command also after its row is committed; the upstream
may fail or break off; a client may go away; `Restart` is the death of the application.
Contents are persisted or replaced by a placeholder (`persist`). The chunks of a stream
are left out: `EndStream` is the `finally` that closes its response, which nothing obliges
to come. The managed run itself is
`ManagedRuntime`; here it is admitted, refused, fails or is recorded.

Properties: what is forwarded is the body as it came, or a smaller one with the same
messages and the first of each group of equal tools, in order
(`ForwardedIsEquivalent`, against the reference definition `IsFirstOccurrences`); rows
tell what was sent and carry the usage taken from their own response (none for a stream),
agree with the usage table, and a command that printed its result has one
(`RowsTellWhatWasSent`); completed runs are the latest (`KeptAreLatest`); what is left out
was flagged by the caller, on every part with it that deduplication leaves, and can be
recovered from the store where contents are persisted (`OmittedIsRecoverable`).

### Captures

One path, at which a capture was imported or nothing is, and processes that verify,
redact, delete and write. Each write of a file is two steps, the cutting and the
writing, so that a death leaves a torn file; a file that was opened is written even
when it has been removed from its directory; `rmtree` removes what it has listed, one
entry at a time. Properties: a written capture appears as a whole (`AppearsWhole`), and
a manifest that claims redaction is true (`RedactionIsBound`): as in `verify_capture`, a
file that the manifest does not list is not looked at. A redaction that goes on while
its capture is deleted and another made writes the manifest it has in hand over the new
one, which then no longer verifies. Imported captures have contents of turns only, no
raw artifacts.

## Runs

| Run | Shows | Instance | Distinct states |
|---|---|---|---|
| `store` | safety of the three tables, and that they implement `Retention` | 2 processes, 2 contents, 2 checkpoints of one identifier, clock to 1 | all, with symmetry |
| `migration` | versions, tables and initializers agree; all get through | 3 processes, 3 migrations of 2 statements, 2 deaths | all |
| `migration_atomic` | violated: a death leaves half a migration, and no initialize gets over it | the same | until found |
| `runtime` | the plan's selection, evidence and offers; usage, results, bounds and the end of managed runs | 540 requests of 3 contexts for the plan; 6 requests of 3 or 4 contexts, 3 turns, 8 replies for the run; any sweeps | 841,268 |
| `closure` | violated: a context retained for its redaction lacks its dependencies | the same | until found |
| `index` | records of settled files are current, unchanged files served | 2 builders, 1 file, 2 contents, 2 parser versions, 3 builds, 3 changes | 1,641,774, with symmetry |
| `index_edited` | violated: a change that is undone leaves its record behind | the same | until found |
| `codex` | results are real, evaluations fair, agents stopped, the end reached | 1 task in 2 modes, 2 turns, 2 commands, 2 changes | 751,026 |
| `proxy` | what is forwarded, recorded, kept and omitted | 2 clients, 3 modes, contents persisted or not, 21 native requests, managed runs, canonical requests, 1 run kept, 1 restart | 940,308 |
| `proxy_exclusions` | violated: an excluded block with a secret is not preserved | the same | until found |
| `app_server` | order of notifications, what is returned, the end of every run | 2 turns, 2 events kept, 1 extra line | 717,524 |
| `captures` | captures appear whole, claims are true | 2 processes, 5 operations, 2 captures, 2 deaths | 36,072, with symmetry |

The `runtime` run has the requests for the planner and those for the rounds in one
instance: the former end with the plan, because their endpoint has no retrieval.
Deadlock is checked by `store`, `runtime` and `app_server`; elsewhere the system may
stop, when everybody is done or nobody begins anything more.

### Why the bounds are enough

- Two processes have every interleaving of two operations; `migration` has three so
  that one can wait while another dies and a third goes on. Two checkpoints of one
  identifier and two texts let a repeated save mix its evidence. `MaxClock` = 1 gives
  a before and an after of each cutoff.
- Three contexts are the shortest chain of dependencies with a middle, and make
  cycles; the family has every retention, the kinds that the code treats specially,
  both outcomes of redaction, dangling dependencies and one on the task. Two tools
  against a catalog bound of one leave one out.
- Three turns let a run retrieve, repeat itself and end; replies cover each
  operation's outcome (content, refusal, missing evidence, an exception), a bound of
  two units of volume is reached by two retrievals.
- Three builds by two processes and three changes suffice for forward and back (edit,
  index, restore, index), for a cache of another parser, and for a build that stores a
  row of a deleted file again before a third one reads the file made anew. The server
  starts when the last build has begun: builds take no notice of it, nor it of them. Rows and
  records of different paths do not meet, so that one file is enough; the proofs are for
  any number.
- Two runs are what a thread that was given up can disturb; two commands make the
  list of outcomes ragged; two turns have a correction. `MaxChanges` lets both runs
  succeed, or one be corrected or broken again. Agents that were given up change
  nothing more in a measured worktree, when the evaluation is over nothing but a
  validation is driven to its end, and the baseline runs first.
- Two clients have a request answered between the row and the usage of another; with
  one run kept, the second evicts the first. Bodies have duplicates at the front, the
  end and across groups, spellings that make a candidate smaller or not, a message
  with a key of llmcut's own, and each form that the code refuses or trips over.
- Two turns let a declaration of the first arrive in the second. Two events kept are
  fewer than a run can have. One extra line is enough for each way in which an agent
  may disturb a client that waits.
- Five operations are two redactions with a deletion and two writes around them.

For every safety property of these runs the proofs below do without the bounds. TLC
alone bounds what is said of liveness, and a violation needs no bound.

### Fairness

- `migration`: WF of each process's next statement. A process that was killed has
  no next statement; lock waits are not modelled as failures.
- `runtime`: WF of the run's own step, which includes the timeout of a provider that
  does not answer, and of the passing of time. Nothing is assumed of the provider;
  sweeps and cancellation have no fairness.
- `codex`: WF of the evaluator, which includes its deadline, of validation, whose
  commands have a time limit, and of the end of the grace period, after which the process
  is killed. Nothing is assumed of the agents: they need not answer, take a request, exit
  or let go of stderr, and `EndsClean` says what follows.
- `app_server`: WF of the client, of the deadline and of the death of a process that was
  killed; and of the draining of a request that the agent has read, or whose pipe is
  broken because the agent is dead. The agent itself may hang, read nothing, close its
  output, ignore the signal or exit at any moment, and a child of it may have stderr open
  for ever.

The `store`, `index`, `proxy` and `captures` runs check safety only.

## Proofs

Each proof module extends the module it is about; the assumptions are the named ones
of that module, and nothing else.

- **EvidenceStoreProofs.** The inductive invariant `IInv` adds two facts to the
  properties: what each call in progress has established so far (`CallsInv`: which
  references a save has made, whether a load has found its checkpoint), and that the
  evidence of a saved checkpoint is referenced in its name (`Referred`). The latter
  is what makes a sweep harmless: a referenced row is never collected, and no code
  removes a reference. `StoreImplementsRetention` maps each action to a step of
  `Retention` or a stutter. A clock bound of any height, any processes and contents.
- **DatabaseMigrationProofs.** The invariant says how far each process is in a
  migration, and relates that to the tables there are; SQLite's write lock enters as
  the guard of the script. From it: a recorded version is complete, versions are
  recorded in order, an initialize that returned left the newest schema, and no two
  processes get beyond the first statement of one migration.
- **ManagedRuntimeProofs**, of planner and runtime. The planner's invariant has a part
  for each phase; while the dependency loop runs, the selection lies between the
  required contexts and the least closed set, so that when nothing is missing it is
  that set, in whatever order the loop went. `KeepsDeferred` rests on the assumption,
  built into `Sweep`, that other processes collect with cutoffs before the beginning of
  the run, as the retention in days does; a context that was put and read back has a
  fresh row or has slipped (`IsKept`). `RunInv` keeps this invariant through the
  turns (`PlanOutlastsTurns`) and adds the usage. Three further invariants are relative
  to it: each answer in the context is followed by the results of the calls that have
  left the queue (`PairedOK`), which gives `CallsAnswered`; every result is of a call
  that is remembered as asked (`RetrievedOK`), which gives `OnlyDeferredRetrieved`: a
  call that is remembered is refused, one for what the plan has sent too, and a
  dependency must be declared; and the bound of
  bytes holds between the last result and the next request, that of tokens from the
  turn on (`WithinOK`), which gives `StaysWithinBounds`. What is compared is a fold over
  the context, so the proof does not ask what it comes to, but shows that nothing the
  comparison reads changes before the request is sent.
  `RunsDescend` is what can be proved of the end of a run: every step of plan and run,
  whatever the provider answers, lowers a triple (the turns left, the part of the plan or
  turn, the contexts or calls left in it) in a well-founded order (`DescentEnds`), and
  neither sweeps nor cancellation nor time raise it.
- **RepositoryIndexProofs.** Of a calm (not disturbed) file, any two of the contents that
  git's index, the worktree, a row, a build's list of blobs and its record have agree, or
  one of them knows of none: a build may see the file go, but while it goes on nothing
  else is written there, so that what it reads is of the blob that it stores it
  under, however late. The second half is about files that have not moved: git does
  not make a clean file a changed one, so what `git status` said still holds, a file
  that is clean and settled is calm, and its row has its content.
  `ServesUnchanged` follows from what an ended build has.
- **CodexEvaluationProofs.** Each entry has one place in the order (from the
  cardinality of the entries), so results are those of the entries before the position.
  `StoppedOK` says that nothing is left of the session of a run with a result, unless
  the run was given up and is the SDK's or `abandoned` in the last grace period; `Good` relates session, worktree and outcomes of a run
  that was not given up, which is what the last few outcomes of a ragged list are
  worth. `PassesFairly` follows from the summary's conditions and the places.
- **AppServerProofs.** `AppInv` follows a turn through the pipes: the agent owes one
  answer at most, which carries the number of the turn that its request began, and a
  declaration in a pipe or in the queue is what the agent has declared. So the client's
  `turnId` is its turn whenever it waits for a completion, and each step of client and
  agent is a step of `AgentRun` or a stutter. A run that is to be returned is `Judged`
  until its process is stopped, and only then `Return` is taken (`KeptLeave`); giving it
  up at any await before is the step `Raise` (`KeptRaised`). `HandlesInOrder` has an invariant of its
  own (`TraceOK`): what was handled, the queue and the pipe, one behind the other, hold
  the notifications that were written, each once and in order, and the queue is empty
  while the loop over events reads the pipe. The latter makes it harmless that a line
  from the pipe is handled at once. `Conveys` says this by positions and numbers of
  notifications, so that the proof needs no induction over sequences.
- **ProxyProofs**, of proxy and optimizer. The inductive invariant `ProxyInv` has five
  parts: what a handler remembers of its request, be it what `OptimizeNative` made of it
  or the body as it came (`HandlersInv`); the one row of each request whose response
  was passed on (`MetricsInv`); the usage table adds up to the outputs of the rows
  (`SumsInv`); the rows of the command, and the evidence that was stored before them
  (`RunsInv`); the table of completed runs (`KeptInv`). A late usage finds its own row
  because rows are told apart by their handler, and the row stays true because the
  handler keeps its result from the request to the answer. `ForwardsEquivalent` and
  `OmitsRecoverably` rest on what the optimizer makes of bodies of any length:
  deduplication leaves one block of every key (`Deduplicated`), what is left out of a
  request was excluded as a whole and is stored (`NotSelected`, `LeftOut`), and whatever `OptimizeNative` returns
  without raising has the messages of the body and the first of each group of its tools
  (`NativeIsSent`). Folds are described by positions and by sums over finite sets; the
  laws of those (`SumSplit`, `Flattened`, `TotalIsSum`) come from the well-foundedness of
  the naturals, where a least counterexample (`Least`, `UpTo`, `BySize`) takes the place
  of the induction theorems. Assumed is that requests are typed (`ProxyAssumption`) and
  that a content counts at least one token (`OptimizerAssumption`): messages, tools and
  blocks are JSON objects. How the code rounds an estimate is abstracted, in the
  model and so in the proofs.
- **CapturesProofs.** The invariant says of each process what it has in hand: what a
  redaction has written is redacted and its digests say so, a temporary directory
  belongs to one writer and is whole when it is published, and a directory that was
  `touched` is the only one that may be torn.

Every safety property of the passing runs is a theorem. Only model-checked is liveness
(`EventuallyInitialized`, `RunEnds`, `EndsClean`, `EndsStopped`):
fairness speaks of ENABLED, which the prover does not reason about. Of `RunEnds`,
`RunsDescend` proves that no run takes steps for ever, so that what is left to TLC is
that a run is never stuck before its end, not even when its provider does not answer.

## Findings

Four runs end in a violation, each of a sentence in the documentation: migrations
are not transactional (`migration_atomic`), a change that is undone leaves a wrong
record under the right blob (`index_edited`), contexts retained for their redaction
may lack the dependencies that the comment at planner.py:109 promises (`closure`), and an
excluded block that holds a secret is stored in its redacted form only
(`proxy_exclusions`). PROJECT.json quotes the sentences.

Observed while modelling, and modelled as the code has it, without a run of its own:

- Evidence that is put again does not renew `last_accessed` (docs/architecture.md:46); a
  read may succeed and its row be gone; `dependency.get` may return a redacted form
  (docs/architecture.md:76), and content that is in the context already.
- The SDK backend does not look at the model that the agent reports, so a rerouted run
  passes, where docs/integrations/codex.md:24-25 says that it is invalid; only the App
  Server client raises (app_server.py:195).
- A dependency on `current-task` passes validation and raises KeyError in the plan;
  tools are deferred in strict mode too; the call and the result of a finished tool
  use are selected separately; a run whose last answer exceeds the token bound
  completes; a save that fails leaves references that protect their evidence for ever.
- The MCP server compares a digest of text, with line ends translated, with one of bytes:
  it refuses files with CRLF line ends, or that are not UTF-8, as stale, and serves a
  file whose line ends were LF when it started and are CRLF now, as it was.
- A cancelled task of the Codex evaluator ends one run and the evaluation goes on
  (executor.py:355). A cancellation that arrives while `_stop` waits for the grace period
  skips the kill (app_server.py:263-265): during the last stop, the agent is left with its
  SIGTERM and the next run begins. The clean-up of an evaluation may fail, and lose the
  report (executor.py:560-562). The App Server client has no deadline while it waits for
  the end of stderr, for its request to be taken, or for an exit status.
- The proxy answers with 500, without asking the upstream, where a body is not UTF-8 or
  its messages are no objects; and when `record_request` raises, after the upstream has
  answered, it leaves the response of a stream open.
- Between the verification of a capture and its removal another may have taken its
  place; the artifact of an agent's capture is not redacted again.

## Plan

What is worth adding next, in this order:

1. `CodexEvaluation` with the steps of `AgentRun` in place of its own session, so that
   evaluator, client and agent are one chain of refinements.
2. Token counters: the choice of a counter, its cache, and the timeout that waits.
3. Paired trials of `eval/`, with their clean-up.

## Not modelled

- Evaluation scripts (`eval/`) run fixtures one after the other and compute
  statistics: no state outlives a fixture, and nothing runs beside it.
- Token counters choose an implementation and cache it; what a body costs is
  `BodySize`. Their timeout depends on the endpoint's own client alone.
- Text: scoring, symbol parsing, excerpts, packing, history and command compression of
  `core/`, redaction patterns, headers, formatting of reports.
- `proxy/security.py` decides which requests are admitted, and is an input of `Proxy`;
  `client.py` is a caller of it. Suite parsing, doctor and configuration of the Codex
  integration inspect an installation; configuration, policies and the command line are
  parsing and printing, except for `optimize`.
