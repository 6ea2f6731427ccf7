---------------------------- MODULE CodexEvaluation ----------------------------
(***************************************************************************)
(* CodexEvaluator.run (integrations/codex/executor.py): the runs of an     *)
(* evaluation one after the other, each in a worktree of its own, driven   *)
(* by one of two backends.  CodexAppServer.run (app_server.py) talks to    *)
(* the agent in the coroutine of the evaluator.  SDKBackend.run            *)
(* (backend.py) does it in a thread, which goes on when the evaluator has  *)
(* given the run up.                                                       *)
(*                                                                         *)
(* Of a worktree the model keeps how many validation commands would pass,  *)
(* one after the other.  Whether only allowed files are changed and the    *)
(* required ones there is decided when it is measured.  Payloads, usage    *)
(* and durations are left out.                                             *)
(***************************************************************************)
EXTENDS Integers, Sequences, FiniteSets

CONSTANTS Tasks,        \* tasks of the suite
          Repetitions,  \* repetitions of each
          Commands,     \* validation commands of a task
          MaxTurns,     \* max_turns of a task
          Nothing       \* Python's None, and a worktree that is not there

ASSUME EvaluationAssumption ==
  /\ IsFiniteSet(Tasks)
  /\ Repetitions \in Nat \ {0} /\ Commands \in Nat \ {0} /\ MaxTurns \in Nat \ {0}

VARIABLES backend,      \* the backend
          order,        \* the entries, in the order of _order
          where,        \* where the evaluator is
          position,     \* order_index
          root,         \* the directory of the evaluation: "none", "there", or left
                        \* behind as "kept", "refused" or "stuck"
          tree,         \* the worktrees
          registered,   \* worktrees that _cleanup removes
          session,      \* what the backend knows of each run
          active,       \* _active_client of the SDK backend: whose client it is
          validations,  \* outcomes of the validation commands of the run
          gaveUp,       \* the evaluator has given the run up
          results,      \* the results
          report        \* what run returns

config == <<backend, order>>
loop == <<where, position, root, registered, gaveUp, results, report>>
driving == <<session, active, validations>>
vars == <<config, loop, driving, tree>>

Modes == {"baseline", "optimized"}
Entries == [task : Tasks, repetition : 1 .. Repetitions, mode : Modes]
Pairs == Tasks \X (1 .. Repetitions)

Tree == 0 .. Commands
Fresh == 0

(* What is kept of a measured run.                                         *)
Results == [quality : BOOLEAN, first : BOOLEAN, turns : 0 .. MaxTurns, gaveUp : BOOLEAN,
            sound : BOOLEAN]

ASSUME NothingAssumption == Nothing \notin Tree \cup Results

(* A run is "opening" until the thread of the agent is there, then         *)
(* "sending" the request for a turn, in the "turn" or at its "validate";   *)
(* it has "ended" with a CodexRun or "raised".  The App Server client also *)
(* waits for an agent that has closed its output ("eof") to exit, for its  *)
(* "interrupt" to be taken, for the grace period ("stopping"), and for     *)
(* exit status and the end of stderr ("ending"); what the run comes to     *)
(* then is to.  An agent that is open is alive, and working if it is in a  *)
(* turn.  completed is history: the last turn the agent has completed; so  *)
(* is abandoned: the client was cancelled before it had killed the agent.  *)
Session == [at : {"none", "opening", "sending", "turn", "eof", "validate", "interrupt", "stopping",
                  "ending", "ended", "raised"},
            to : {"ended", "raised"}, open : BOOLEAN, working : BOOLEAN, turns : 0 .. MaxTurns,
            status : {"failed", "completed"}, first : BOOLEAN,
            completed : 0 .. MaxTurns, abandoned : BOOLEAN]

NoSession == [at |-> "none", to |-> "raised", open |-> FALSE, working |-> FALSE, turns |-> 0,
              status |-> "failed", first |-> FALSE, completed |-> 0, abandoned |-> FALSE]

Entry == IF position \in DOMAIN order THEN order[position] ELSE Nothing
Over == {"returned", "failed"}

(* Tasks and repetitions in sequence, each with its two modes in either    *)
(* order: random may give any, the other policies give some of these.      *)
IsOrder(o) ==
  /\ \A e \in Entries : \E i \in DOMAIN o : o[i] = e
  /\ \A i \in DOMAIN o : i % 2 = 1 =>
       o[i].task = o[i + 1].task /\ o[i].repetition = o[i + 1].repetition
  /\ \A i, j \in DOMAIN o : i < j /\ o[i].task = o[j].task => o[i].repetition <= o[j].repetition
  /\ \A i, j, k \in DOMAIN o : i < j /\ j < k /\ o[i].task = o[k].task => o[j].task = o[i].task

Init ==
  /\ backend \in {"sdk", "app-server"}
  /\ order \in {o \in [1 .. Cardinality(Entries) -> Entries] : IsOrder(o)}
  /\ where = "start" /\ position = 1
  /\ root = "none"
  /\ tree = [e \in Entries |-> Nothing]
  /\ registered = {}
  /\ session = [e \in Entries |-> NoSession]
  /\ active = Nothing
  /\ validations = <<>>
  /\ gaveUp = FALSE
  /\ results = [e \in Entries |-> Nothing]
  /\ report = Nothing

-----------------------------------------------------------------------------
(* A run, as both backends drive it.  A definition marked "slip" is a      *)
(* mistake the properties have to catch; the definition after it is the    *)
(* code.                                                                   *)

(* What is left of a run that is over and measured is forgotten.           *)
Left(s, measured) ==
  IF s.at \in {"ended", "raised"} /\ ~ s.open /\ measured THEN NoSession ELSE s
Goes(e, s) == session' = [session EXCEPT ![e] = Left(s, results[e] # Nothing)]

(* The run is over: the SDK closes its client, the App Server client stops *)
(* the process, if it has not exited, whether the run has succeeded or not.*)
Ends(s, to) ==
  IF backend = "sdk" THEN [s EXCEPT !.at = to, !.open = FALSE, !.working = FALSE]
  ELSE [s EXCEPT !.at = IF s.open THEN "stopping" ELSE "ending", !.to = to]

(* The client is open and a thread of the agent is started.                *)
Opens(e) ==
  /\ session[e].at = "opening"
  /\ tree[e] # Nothing
  /\ Goes(e, [session[e] EXCEPT !.at = "sending", !.open = TRUE])
  /\ active' = IF backend = "sdk" THEN e ELSE active
  /\ UNCHANGED <<config, loop, validations, tree>>

(* The request for a turn is taken and answered.                           *)
Sent(e) ==
  /\ session[e].at = "sending" /\ session[e].open
  /\ Goes(e, [session[e] EXCEPT !.at = "turn", !.working = TRUE, !.turns = @ + 1])
  /\ UNCHANGED <<config, loop, active, validations, tree>>

(* The agent changes its worktree while it is in a turn, which one that is *)
(* only told to stop may still be.                                         *)
Works(e) ==
  /\ session[e].open /\ session[e].working
  /\ tree[e] # Nothing
  /\ \E t \in Tree \ {tree[e]} : tree' = [tree EXCEPT ![e] = t]
  /\ UNCHANGED <<config, loop, driving>>

(* The agent reports another model than the configured one: the SDK        *)
(* backend takes it for an event like any other.                           *)
Reroutes(e) ==
  /\ session[e].at = "turn" /\ session[e].open
  /\ IF backend = "app-server"
     THEN Goes(e, Ends(session[e], "raised"))
     ELSE UNCHANGED session
  /\ UNCHANGED <<config, loop, active, validations, tree>>

(* The turn ends with its completion.                                      *)
Completes(e) ==
  /\ session[e].at = "turn" /\ session[e].open
  /\ \E outcome \in {"failed", "completed"} :
       Goes(e, [session[e] EXCEPT !.at = "validate", !.working = FALSE, !.status = outcome,
                  !.completed = IF outcome = "completed" THEN session[e].turns ELSE @])
  /\ UNCHANGED <<config, loop, active, validations, tree>>

(* A completion that names an earlier turn: the App Server client goes on  *)
(* reading, the SDK backend raises.                                        *)
AcceptsAny(e) == [session[e] EXCEPT !.at = "validate", !.status = "completed"]   \* slip
AfterStale(e) == IF backend = "sdk" THEN Ends(session[e], "raised") ELSE session[e]

Closing(e) == active' = IF backend = "sdk" THEN Nothing ELSE active

CompletesAnother(e) ==
  /\ session[e].at = "turn" /\ session[e].open /\ session[e].turns > 1
  /\ Goes(e, AfterStale(e))
  /\ IF AfterStale(e).at = "raised" THEN Closing(e) ELSE UNCHANGED active
  /\ UNCHANGED <<config, loop, validations, tree>>

(* The agent exits, answers with an error or sends what is no message, its *)
(* client is closed, or a validation command cannot be started: the        *)
(* backend raises.                                                         *)
Breaks(e) ==
  /\ session[e].at \in {"opening", "sending", "turn", "eof", "validate"}
  /\ \E alive \in {session[e].open /\ session[e].at # "eof", FALSE} :
       Goes(e, Ends([session[e] EXCEPT !.open = alive, !.working = @ /\ alive], "raised"))
  /\ Closing(e)
  /\ UNCHANGED <<config, loop, validations, tree>>

(* The agent closes its output and goes on: the App Server client waits    *)
(* for its exit, without a deadline.                                       *)
ClosesOutput(e) ==
  /\ backend = "app-server"
  /\ session[e].at \in {"opening", "turn"}
  /\ Goes(e, [session[e] EXCEPT !.at = "eof"])
  /\ UNCHANGED <<config, loop, active, validations, tree>>

(* The stream of a closed client may also end without a completion.        *)
StreamEnds(e) ==
  /\ session[e].at = "turn" /\ ~ session[e].open
  /\ Goes(e, [session[e] EXCEPT !.at = "validate", !.working = FALSE])
  /\ UNCHANGED <<config, loop, active, validations, tree>>

(* _validate stops at the first command that fails.                        *)
Outcomes(t) == [i \in 1 .. t |-> TRUE] \o (IF t < Commands THEN <<FALSE>> ELSE <<>>)
Passes(t) == t = Commands

(* After a turn: validation, and another turn if it failed or the turn did *)
(* not complete.  A thread that was given up adds to the list of its own   *)
(* run, which nobody reads once that run is measured.                      *)
Done(e) == session[e].status = "completed" /\ Passes(tree[e])
Validates(e) ==
  /\ session[e].at = "validate"
  /\ IF tree[e] = Nothing
     THEN /\ Goes(e, Ends(session[e], "raised"))
          /\ Closing(e) /\ UNCHANGED validations
     ELSE /\ validations' = IF e = Entry THEN validations \o Outcomes(tree[e]) ELSE validations
          /\ IF Done(e) \/ session[e].turns = MaxTurns
             THEN /\ Goes(e, Ends([session[e] EXCEPT !.first = Done(e) /\ session[e].turns = 1],
                                  "ended"))
                  /\ Closing(e)
             ELSE /\ Goes(e, [session[e] EXCEPT !.at = "sending"])
                  /\ UNCHANGED active
  /\ UNCHANGED <<config, loop, tree>>

Drive(e) == \/ Opens(e) \/ Sent(e) \/ Works(e) \/ Reroutes(e) \/ Completes(e)
            \/ CompletesAnother(e) \/ Breaks(e) \/ ClosesOutput(e) \/ StreamEnds(e) \/ Validates(e)

-----------------------------------------------------------------------------
(* The App Server client stops its agent.                                  *)

(* turn/interrupt is taken, or the pipe is broken.                         *)
Interrupted(e) ==
  /\ session[e].at = "interrupt"
  /\ Goes(e, [session[e] EXCEPT !.at = "stopping"])
  /\ UNCHANGED <<config, loop, active, validations, tree>>

(* The process exits on SIGTERM, or it is killed when the grace period is  *)
(* over.                                                                   *)
NotKilled(s) == [s EXCEPT !.at = "ending"]   \* slip
Killed(s) == [s EXCEPT !.at = "ending", !.open = FALSE, !.working = FALSE]

GraceEnds(e) ==
  /\ session[e].at = "stopping"
  /\ Goes(e, Killed(session[e]))
  /\ UNCHANGED <<config, loop, active, validations, tree>>

(* Its exit status is there and its stderr has ended, which a child of it  *)
(* may put off.                                                            *)
Reaped(e) ==
  /\ session[e].at = "ending"
  /\ Goes(e, [session[e] EXCEPT !.at = session[e].to])
  /\ UNCHANGED <<config, loop, active, validations, tree>>

(* An agent that was abandoned exits on its SIGTERM after all.             *)
Dies(e) ==
  /\ session[e].at = "raised" /\ session[e].open
  /\ Goes(e, [session[e] EXCEPT !.open = FALSE, !.working = FALSE])
  /\ UNCHANGED <<config, loop, active, validations, tree>>

Stop(e) == Interrupted(e) \/ GraceEnds(e) \/ Reaped(e) \/ Dies(e)

-----------------------------------------------------------------------------
(* The evaluator.                                                          *)

At(place) == where' = place

(* Without a usable backend or login, or if the given directory exists,    *)
(* nothing is begun.                                                       *)
Begin ==
  /\ where = "start"
  /\ \/ At("failed") /\ UNCHANGED root
     \/ At("seeds") /\ root' = "there"
  /\ UNCHANGED <<config, position, registered, gaveUp, results, report, driving, tree>>

(* Each task is cloned or copied, and has to be clean.                     *)
PrepareSeeds ==
  /\ where = "seeds"
  /\ At("next") \/ At("raise")
  /\ UNCHANGED <<config, position, root, registered, gaveUp, results, report, driving, tree>>

AddWorktree ==
  /\ where = "next" /\ position <= Len(order)
  /\ \/ At("raise") /\ UNCHANGED tree
     \/ At("check") /\ tree' = [tree EXCEPT ![Entry] = Fresh]
  /\ UNCHANGED <<config, position, root, registered, gaveUp, results, report, driving>>

(* Revision and tracked files are compared with the seed's; only then is   *)
(* the worktree registered.                                                *)
RegisterNone == {}   \* slip
Register == registered \cup {Entry}
CheckWorktree ==
  /\ where = "check"
  /\ \/ At("raise") /\ UNCHANGED registered
     \/ At("begin") /\ registered' = Register
  /\ UNCHANGED <<config, position, root, gaveUp, results, report, driving, tree>>

(* The prompt of a baseline with full context reads the worktree.          *)
StartRun ==
  /\ where = "begin"
  /\ \/ At("raise") /\ UNCHANGED session
     \/ At("run") /\ Goes(Entry, [NoSession EXCEPT !.at = "opening",
                                                    !.open = (backend = "app-server")])
  /\ gaveUp' = FALSE /\ validations' = <<>>
  /\ UNCHANGED <<config, position, root, registered, results, report, active, tree>>

MeasuresAtOnce == At("measure")   \* slip
AfterRun == At(IF validations = <<>> THEN "revalidate" ELSE "measure")

Takes ==
  /\ where = "run" /\ session[Entry].at \in {"ended", "raised"}
  /\ AfterRun
  /\ UNCHANGED <<config, position, root, registered, gaveUp, results, report, driving, tree>>

(* The SDK backend closes whatever client is the active one.  A thread     *)
(* that has no client yet is not stopped by this, nor one whose client     *)
(* has been forgotten because an older thread ended.                       *)
ClosedActive == IF active = Nothing THEN session
                ELSE [session EXCEPT ![active] = [@ EXCEPT !.open = FALSE]]

(* What the App Server client does when it is told to give up.  It         *)
(* interrupts the turn, if there was one and the process has not exited,   *)
(* and stops the process in any case.  A cancellation while it waits       *)
(* after success makes it stop the process once more; one in the last      *)
(* grace period leaves the process, alive as it may be, with its SIGTERM.  *)
GivenUp(s) ==
  IF s.at \in {"opening", "interrupt"} \/ (s.at = "sending" /\ s.turns = 0)
  THEN [s EXCEPT !.at = "stopping", !.to = "raised"]
  ELSE IF s.at \in {"sending", "turn"} \/ (s.at = "eof" /\ s.turns > 0)
          \/ (s.at = "stopping" /\ s.to = "ended")
  THEN [s EXCEPT !.at = "interrupt", !.to = "raised"]
  ELSE IF s.at = "eof" THEN [s EXCEPT !.at = "stopping", !.to = "raised"]
  ELSE IF s.at = "stopping" THEN [s EXCEPT !.at = "raised", !.abandoned = TRUE]
  ELSE IF s.to = "ended" THEN [s EXCEPT !.to = "raised"]
  ELSE [s EXCEPT !.at = "raised"]

(* The deadline passes or the cancellation is set, which nothing tells     *)
(* apart but a flag of the result.  The App Server client looks at them    *)
(* only while it reads.  For the SDK an answer that arrives at this moment *)
(* may come too late, and so may one when the task of the evaluator is     *)
(* cancelled from outside, as Ctrl-C does: that ends this run only, and    *)
(* closes no client.                                                       *)
GiveUp ==
  /\ where = "run"
  /\ \/ /\ backend = "sdk"
        /\ session' \in {session, ClosedActive}
        /\ AfterRun
     \/ /\ backend = "app-server" /\ session[Entry].at \in {"opening", "turn"}
        /\ session' = [session EXCEPT ![Entry] = GivenUp(@)]
        /\ UNCHANGED where
  /\ gaveUp' = TRUE
  /\ UNCHANGED <<config, position, root, registered, results, report, active, validations, tree>>

(* The task of the evaluator is cancelled from outside while the App       *)
(* Server client waits for anything.  CancelledError ends this run only.   *)
CancelTask ==
  /\ where = "run"
  /\ backend = "app-server"
  /\ session[Entry].at \in {"opening", "sending", "turn", "eof", "interrupt", "stopping", "ending"}
  /\ session' = [session EXCEPT ![Entry] = GivenUp(@)]
  /\ gaveUp' = TRUE
  /\ UNCHANGED <<config, where, position, root, registered, results, report, active, validations,
                 tree>>

Revalidate ==
  /\ where = "revalidate"
  /\ \/ At("raise") /\ UNCHANGED validations
     \/ /\ At("measure")
        /\ validations' = validations \o Outcomes(tree[Entry])
  /\ UNCHANGED <<config, position, root, registered, gaveUp, results, report, session, active, tree>>

(* The outcomes of one validation are the last ones; what is left of an    *)
(* earlier one does not matter, for it stopped at its first failure.       *)
ValidationPassed(outcomes) ==
  \A i \in 1 .. Len(outcomes) : i > Len(outcomes) - Commands => outcomes[i]

RunStatus(e) == IF ~ gaveUp /\ session[e].at = "ended" THEN session[e].status ELSE "failed"

Quality(status, passed, clean) ==
  status = "completed" /\ passed /\ clean /\ ~ gaveUp

(* sound is history: the last turn was completed, and what it left in the  *)
(* worktree validates.                                                     *)
ResultOf(e, clean) ==
  [quality |-> Quality(RunStatus(e), ValidationPassed(validations), clean),
   first |-> ~ gaveUp /\ session[e].first,
   turns |-> IF ~ gaveUp /\ session[e].at = "ended" THEN session[e].turns ELSE 0,
   gaveUp |-> gaveUp,
   sound |-> /\ session[e].at = "ended" /\ session[e].completed = session[e].turns
             /\ Passes(tree[e])]

(* git may fail, or not answer.  With fail_fast the first failure is the   *)
(* last run; whether it is set is left open at each failure.               *)
Measure ==
  /\ where = "measure"
  /\ \/ At("raise") /\ UNCHANGED <<position, results, session>>
     \/ /\ \E clean \in BOOLEAN :
             results' = [results EXCEPT ![Entry] = ResultOf(Entry, clean)]
        /\ session' = [session EXCEPT ![Entry] = Left(@, TRUE)]
        /\ position' = position + 1
        /\ At("next") \/ (~ results'[Entry].quality /\ At("report"))
  /\ UNCHANGED <<config, root, registered, gaveUp, report, active, validations, tree>>

(* _task_reports and _summary.  The settings of the two modes may differ   *)
(* in more than the context.                                               *)
Have(p, mode) == results[[task |-> p[1], repetition |-> p[2], mode |-> mode]]
Compared == {p \in Pairs : \E mode \in Modes : Have(p, mode) # Nothing}
EligibleByQuality(p, parity) ==   \* slip
  \A mode \in Modes : Have(p, mode) # Nothing /\ Have(p, mode).quality
Eligible(p, parity) ==
  /\ \A mode \in Modes : Have(p, mode) # Nothing /\ Have(p, mode).quality
  /\ parity[p[1]]

Passed(parity) ==
  /\ \E e \in Entries : results[e] # Nothing
  /\ \A e \in Entries : results[e] # Nothing => results[e].quality
  /\ \A p \in Compared : Eligible(p, parity)

Report ==
  /\ where = "report" \/ (where = "next" /\ position > Len(order))
  /\ \E parity \in [Tasks -> BOOLEAN] :
       report' = [passed |-> Passed(parity), parity |-> parity]
  /\ At("clean")
  /\ UNCHANGED <<config, position, root, registered, gaveUp, results, driving, tree>>

(* _cleanup.  A given directory in which nothing is registered is left     *)
(* alone, with an exception.  git may not answer in time, and rmtree may   *)
(* fail, also because an agent that still works puts a file into a         *)
(* directory that is being removed: then the report is lost, and what is   *)
(* left of the worktrees is not asked.                                     *)
Clean ==
  /\ where \in {"clean", "raise"}
  /\ \/ /\ root' = "kept"
        /\ At(IF where = "clean" THEN "returned" ELSE "failed")
        /\ UNCHANGED tree
     \/ /\ registered = {}
        /\ root' = "refused" /\ At("failed")
        /\ UNCHANGED tree
     \/ /\ root' = "none"
        /\ At(IF where = "clean" THEN "returned" ELSE "failed")
        /\ tree' = [e \in Entries |-> Nothing]
     \/ /\ root' = "stuck" /\ At("failed")
        /\ UNCHANGED tree
  /\ UNCHANGED <<config, position, registered, gaveUp, results, report, driving>>

Evaluate == \/ Begin \/ PrepareSeeds \/ AddWorktree \/ CheckWorktree \/ StartRun \/ Takes
            \/ GiveUp \/ Revalidate \/ Measure \/ Report \/ Clean

Next == Evaluate \/ CancelTask \/ \E e \in Entries : Drive(e) \/ Stop(e)

(* The evaluator goes on, its deadlines and grace periods pass, and        *)
(* validation commands, which have a time limit, end.  The agents may stop *)
(* answering, stop reading, and not go away.                               *)
Fairness == /\ WF_vars(Evaluate)
            /\ WF_vars(\E e \in Entries : Validates(e))
            /\ WF_vars(\E e \in Entries : GraceEnds(e))

Spec == Init /\ [][Next]_vars /\ Fairness

-----------------------------------------------------------------------------
(* The types.                                                              *)
TypeOK ==
  /\ backend \in {"sdk", "app-server"}
  /\ where \in Over \cup {"start", "seeds", "next", "check", "begin", "run", "revalidate",
                          "measure", "report", "clean", "raise"}
  /\ position \in 1 .. Cardinality(Entries) + 1
  /\ root \in {"none", "there", "kept", "refused", "stuck"}
  /\ tree \in [Entries -> Tree \cup {Nothing}]
  /\ registered \subseteq Entries
  /\ session \in [Entries -> Session]
  /\ active \in Entries \cup {Nothing}
  /\ gaveUp \in BOOLEAN
  /\ results \in [Entries -> Results \cup {Nothing}]
  /\ where \in {"run", "revalidate", "measure"} =>
       tree[Entry] # Nothing /\ session[Entry].at # "none"
  /\ where = "measure" => validations # <<>>

(* docs/integrations/codex.md: a first-attempt success requires a          *)
(* completed first turn and passing validation, and quality a worktree     *)
(* that validates: what is reported as passed was completed by the agent   *)
(* in its last turn, and is what is left in the worktree.                  *)
ResultsAreReal ==
  \A e \in Entries : results[e] # Nothing =>
    /\ results[e].quality => results[e].sound
    /\ results[e].first => results[e].sound /\ results[e].turns = 1

(* An evaluation that passed has run every task in both modes as often as  *)
(* was asked for, with equal settings, and every run was good, though it   *)
(* may stop early.                                                         *)
PassedIsFair ==
  report # Nothing /\ report.passed =>
    /\ \A t \in Tasks : report.parity[t]
    /\ \A e \in Entries : results[e] # Nothing /\ results[e].quality

(* No agent is alive when its run has been measured, but one of the SDK    *)
(* that was given up, and one of the App Server whose client was cancelled *)
(* in the last grace period: what they do counts for nothing.              *)
AgentsAreStopped ==
  \A e \in Entries : session[e].open /\ results[e] # Nothing =>
    results[e].gaveUp /\ (backend = "sdk" \/ session[e].abandoned)

(* Where nothing limits the time an agent may hold the evaluator up: until *)
(* it takes a request, exits after it has closed its output, or is gone    *)
(* with all that hold its stderr.                                          *)
HeldUp ==
  /\ where = "run" /\ backend = "app-server"
  /\ session[Entry].at \in {"sending", "eof", "interrupt", "ending"}

(* Every evaluation ends, unless an agent holds it up for ever, and        *)
(* removes what it has made unless it is told to keep it, the removal      *)
(* fails, or it had not registered anything, which is so only before the   *)
(* first run.                                                              *)
EndsClean ==
  \/ <>(/\ where \in Over
        /\ root \in {"none", "kept", "refused", "stuck"}
        /\ root = "none" => \A e \in Entries : tree[e] = Nothing
        /\ root = "refused" => where = "failed" /\ \A e \in Entries : results[e] = Nothing)
  \/ <>[]HeldUp
================================================================================
