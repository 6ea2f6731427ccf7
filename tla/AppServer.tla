------------------------------ MODULE AppServer ------------------------------
(***************************************************************************)
(* CodexAppServer.run (integrations/codex/app_server.py): a JSON-RPC       *)
(* client and its agent, a child process, joined by two pipes.  The client *)
(* queues what arrives while it waits for an answer, gives each turn to    *)
(* the agent, and stops the process however the run ends.                  *)
(*                                                                         *)
(* The agent answers, declares, asks and repeats in any order, writes      *)
(* garbage, leaves its requests unread, closes its output, exits or falls  *)
(* silent; the deadline may pass and the cancellation event be set at any  *)
(* time, and the task be cancelled wherever the client awaits something,   *)
(* the stop of the process included.  A definition marked "slip" is a      *)
(* mistake the properties have to catch; the definition after it is the    *)
(* code.                                                                   *)
(***************************************************************************)
EXTENDS Naturals, Sequences, SequencesExt

CONSTANTS MaxTurns,      \* max_turns
          Nothing,       \* an absent value
          MaxEvents,     \* MAX_EVENTS: events kept (2000)
          MaxExtras      \* bound: lines of the agent that no run needs

Statuses == {"completed", "failed", "interrupted"}

ASSUME AppServerAssumption ==
  /\ MaxTurns \in Nat \ {0}
  /\ MaxEvents \in Nat
  /\ MaxExtras \in Nat
  /\ Nothing \notin Nat
  /\ Nothing \notin Statuses \cup {"result", "turn/completed", "garbage"}

VARIABLES phase,        \* where the client is
          drained,      \* whether its last request has left its buffer
          reading,      \* whether it waits for a line
          identifier,   \* the id of its last request
          pending,      \* messages queued while an answer was awaited
          events,       \* the events kept
          usage,        \* the last usage update
          turns,        \* turns begun
          turnId,       \* the turn of the last answer, 0 before the first
          outcome,      \* Nothing, or the run that is returned or Raised
          requests,     \* pipe to the agent
          lines,        \* pipe from the agent
          process,      \* "running", "terminated", "killed" or "dead"
          child,        \* whether stderr, of which little has come, is still open elsewhere
          agent,        \* the agent: the id it owes an answer, turns begun, extra lines
          declared,     \* what the agent has declared of each turn
          late,         \* whether the deadline has passed
          cancelled,    \* whether the cancellation event is set
          abandoned,    \* history: whether a stop was left before the process died
          handled,      \* history: messages looked at by the event loop
          said          \* history: notifications the agent has written

client == <<phase, drained, reading, identifier, pending, events, usage, turns, turnId, outcome,
            handled>>
server == <<lines, agent, declared, said>>
world == <<process, child, late, cancelled, abandoned>>
vars == <<client, requests, server, world>>

(* A line of the agent: "id" is Nothing for a notification, "method" for   *)
(* an answer.  A history: "no" is the number of a notification, in the     *)
(* order they are written.                                                 *)
Line(id, method, turn, status) ==
  [id |-> id, method |-> method, turn |-> turn, status |-> status, no |-> 0]

Notification(method, turn, status) == Line(Nothing, method, turn, status)

IsNotice(line) == line.id = Nothing /\ line.method \notin {Nothing, "garbage"}

Init ==
  /\ phase = "initialize"
  /\ drained = FALSE
  /\ reading = FALSE
  /\ identifier = 1
  /\ pending = <<>>
  /\ events = <<>>
  /\ usage = Nothing
  /\ turns = 0
  /\ turnId = 0
  /\ outcome = Nothing
  /\ requests = <<[id |-> 1, method |-> "initialize"]>>
  /\ lines = <<>>
  /\ process = "running"
  /\ child \in BOOLEAN
  /\ agent = [owes |-> Nothing, begun |-> 0, extras |-> 0]
  /\ declared = [t \in 1 .. MaxTurns |-> Nothing]
  /\ late = FALSE
  /\ cancelled = FALSE
  /\ abandoned = FALSE
  /\ handled = <<>>
  /\ said = <<>>

-----------------------------------------------------------------------------
(* The agent.  It reads its requests one after another, and may declare a  *)
(* turn before it answers the request that began it, declare a turn again, *)
(* or send a request of its own, whose ids are counted from 1 as well.     *)
(* What happens to the pipes once the run is over is left out.             *)
Over == phase \in {"exit", "interrupt", "stopping", "ended"}

Numbered(line) == IF IsNotice(line) THEN [line EXCEPT !.no = Len(said) + 1] ELSE line

Write(line) ==
  /\ process # "dead"
  /\ ~Over
  /\ lines' = Append(lines, Numbered(line))
  /\ said' = IF IsNotice(line) THEN Append(said, Numbered(line)) ELSE said

TakeRequest ==
  /\ process # "dead"
  /\ ~Over
  /\ agent.owes = Nothing
  /\ requests # <<>>
  /\ agent' = [agent EXCEPT !.owes = Head(requests).id,
                 !.begun = IF Head(requests).method = "turn/start" THEN @ + 1 ELSE @]
  /\ requests' = Tail(requests)
  /\ UNCHANGED <<client, lines, declared, said, world>>

Answer ==
  /\ agent.owes # Nothing
  /\ \E status \in {"result", "empty", "error"} :
       Write(Line(agent.owes, Nothing, agent.begun, status))
  /\ agent' = [agent EXCEPT !.owes = Nothing]
  /\ UNCHANGED <<client, requests, declared, world>>

DeclareTurn ==
  /\ \E t \in 1 .. agent.begun, s \in Statuses :
       /\ declared[t] = Nothing
       /\ Write(Notification("turn/completed", t, s))
       /\ declared' = [declared EXCEPT ![t] = s]
  /\ UNCHANGED <<client, requests, agent, world>>

Extra ==
  /\ agent.extras < MaxExtras
  /\ agent' = [agent EXCEPT !.extras = @ + 1]
  /\ \/ \E method \in {"item", "usage", "model/rerouted", "garbage"} :
          Write(Notification(method, agent.extras, Nothing))
     \/ Write(Line(identifier, "approval", 0, Nothing))
     \/ \E t \in {t \in 1 .. agent.begun : declared[t] # Nothing} :
          Write(Notification("turn/completed", t, declared[t]))
  /\ UNCHANGED <<client, requests, declared, world>>

-----------------------------------------------------------------------------
(* A request is written, and then its bytes have to leave the client's     *)
(* buffer: there is no deadline for an agent that leaves them unread.      *)
Send(method) ==
  /\ identifier' = identifier + 1
  /\ requests' = Append(requests, [id |-> identifier + 1, method |-> method])
  /\ drained' = FALSE

(* The end of a run: what is raised or returned, once it is stopped.       *)
Raised == [status |-> "raised", turns |-> 0, first |-> FALSE]

Finish(result) ==
  /\ phase' = "stopping"
  /\ drained' = TRUE
  /\ reading' = FALSE
  /\ outcome' = result

(* TimeoutError or CancelledError: the turn of the last answer is          *)
(* interrupted, if there is one and the process is alive.                  *)
Interrupts == turnId # 0 /\ process # "dead"

GiveUp ==
  /\ phase' = IF Interrupts THEN "interrupt" ELSE "stopping"
  /\ requests' = IF Interrupts
                 THEN Append(requests, [id |-> identifier + 1, method |-> "turn/interrupt"])
                 ELSE requests
  /\ drained' = TRUE
  /\ reading' = FALSE
  /\ outcome' = Raised
  /\ UNCHANGED <<identifier, pending, events, usage, turns, turnId, handled, server, world>>

(* The request to interrupt has left the buffer too, or never will: an     *)
(* error of the pipe is suppressed.                                        *)
Interrupted ==
  /\ phase = "interrupt"
  /\ phase' = "stopping"
  /\ UNCHANGED <<drained, reading, identifier, pending, events, usage, turns, turnId, outcome,
                 handled, requests, server, world>>

Awaits == {"initialize", "thread", "turn", "events"}

Sending == phase \in Awaits /\ ~drained

Drained ==
  /\ Sending
  /\ \/ drained' = TRUE /\ UNCHANGED <<phase, reading, outcome>>
     \/ process = "dead" /\ Finish(Raised)
  /\ UNCHANGED <<identifier, pending, events, usage, turns, turnId, handled, requests, server,
                 world>>

(* read looks at the event and the deadline, then awaits a line; while it  *)
(* does, the event goes unnoticed, but the task may be cancelled.          *)
AboutToRead == phase \in Awaits /\ drained /\ ~reading /\ (phase = "events" => pending = <<>>)

StartReading ==
  /\ AboutToRead
  /\ IF cancelled \/ late THEN GiveUp
     ELSE /\ reading' = TRUE
          /\ UNCHANGED <<phase, drained, identifier, pending, events, usage, turns, turnId,
                         outcome, handled, requests, server, world>>

TimeOut == reading /\ late /\ GiveUp

(* The pipe is at its end, because the process has exited or has closed    *)
(* its output; its exit status is awaited, without a deadline.             *)
OutputEnds ==
  /\ reading
  /\ lines = <<>>
  /\ phase' = "exit"
  /\ reading' = FALSE
  /\ outcome' = Raised
  /\ UNCHANGED <<drained, identifier, pending, events, usage, turns, turnId, handled, requests,
                 server, world>>

EndOfFile == process = "dead" /\ OutputEnds
ClosesOutput == process # "dead" /\ OutputEnds

Exited ==
  /\ phase = "exit"
  /\ process = "dead"
  /\ phase' = "stopping"
  /\ UNCHANGED <<drained, reading, identifier, pending, events, usage, turns, turnId, outcome,
                 handled, requests, server, world>>

-----------------------------------------------------------------------------
(* rpc: an answer with the id of the request, which a request of the agent *)
(* may have too.  Every method but the first must name what it began.      *)
Accepted(line) ==
  /\ line.status # "error"
  /\ phase = "initialize" \/ line.status = "result"

Answered(line) ==
  /\ CASE ~Accepted(line) -> Finish(Raised) /\ UNCHANGED <<identifier, requests, turns, turnId>>
       [] Accepted(line) /\ phase = "initialize" ->
            /\ phase' = "thread"
            /\ Send("thread/start")
            /\ UNCHANGED <<turns, turnId, outcome>>
       [] Accepted(line) /\ phase = "thread" ->
            /\ phase' = "begin"
            /\ UNCHANGED <<drained, identifier, requests, turns, turnId, outcome>>
       [] Accepted(line) /\ phase = "turn" ->
            /\ phase' = "events"
            /\ turns' = turns + 1
            /\ turnId' = line.turn
            /\ UNCHANGED <<drained, identifier, requests, outcome>>
  /\ UNCHANGED <<pending, events, usage, handled>>

QueueNewest(line) == <<line>> \o pending    \* slip: the newest message comes first
Queue(line) == Append(pending, line)

(* next_event and the loop over events.                                    *)
EndsAnyTurn(line) == line.method = "turn/completed"   \* slip: whichever turn was declared
EndsTurn(line) == line.method = "turn/completed" /\ line.turn = turnId

Handle(line) ==
  /\ handled' = Append(handled, line)
  /\ events' = IF Len(events) < MaxEvents THEN Append(events, line) ELSE events
  /\ usage' = IF line.method = "usage" THEN line.turn ELSE usage
  /\ CASE line.method = "model/rerouted" -> Finish(Raised)
       [] EndsTurn(line) ->
            /\ phase' = "judging" /\ reading' = FALSE /\ UNCHANGED drained
            /\ outcome' = [status |-> line.status, turns |-> turns, first |-> FALSE]
       [] OTHER -> reading' = FALSE /\ UNCHANGED <<phase, drained, outcome>>
  /\ UNCHANGED <<identifier, turns, turnId, requests>>

NextPending ==
  /\ phase = "events"
  /\ pending # <<>>
  /\ Handle(Head(pending))
  /\ pending' = Tail(pending)
  /\ UNCHANGED <<server, world>>

(* A line has come: malformed, the answer, a message for later, a message  *)
(* for the loop, or an answer to nothing.                                  *)
ReadLine ==
  /\ reading
  /\ lines # <<>>
  /\ lines' = Tail(lines)
  /\ LET line == Head(lines)
         same == <<identifier, events, usage, turns, turnId, requests, handled>>
     IN  CASE line.method = "garbage" -> Finish(Raised) /\ UNCHANGED <<same, pending>>
           [] line.method # "garbage" /\ phase # "events" /\ line.id = identifier ->
                Answered(line) /\ (Accepted(line) => reading' = FALSE)
           [] line.method # "garbage" /\ phase # "events" /\ line.id # identifier ->
                /\ reading' = FALSE
                /\ pending' = IF line.method = Nothing THEN pending ELSE Queue(line)
                /\ UNCHANGED <<same, phase, drained, outcome>>
           [] phase = "events" /\ line.method = Nothing ->
                reading' = FALSE /\ UNCHANGED <<same, pending, phase, drained, outcome>>
           [] phase = "events" /\ line.method \notin {Nothing, "garbage"} ->
                Handle(line) /\ UNCHANGED pending
  /\ UNCHANGED <<agent, declared, said, world>>

-----------------------------------------------------------------------------
(* The loop over turns.                                                    *)

BeginTurn ==
  /\ phase = "begin"
  /\ IF cancelled THEN GiveUp
     ELSE /\ phase' = "turn"
          /\ Send("turn/start")
          /\ UNCHANGED <<reading, pending, events, usage, turns, turnId, outcome, handled,
                         server, world>>

(* validation_callback, which may raise, and whether the run is over.      *)
Validate ==
  /\ phase = "judging"
  /\ \/ Finish(Raised)
     \/ /\ \E passed \in BOOLEAN :
             IF passed /\ outcome.status = "completed"
             THEN phase' = "stopping" /\ outcome' = [outcome EXCEPT !.first = turns = 1]
             ELSE IF turns < MaxTurns THEN phase' = "begin" /\ outcome' = Nothing
             ELSE phase' = "stopping" /\ UNCHANGED outcome
        /\ UNCHANGED <<drained, reading>>
  /\ UNCHANGED <<identifier, pending, events, usage, turns, turnId, handled, requests, server,
                 world>>

-----------------------------------------------------------------------------
(* _stop, and stderr, which ends when nobody has it open: there is no      *)
(* deadline for that either.                                               *)

Stopping ==
  /\ phase = "stopping"
  /\ UNCHANGED <<client, requests, server, child, late, cancelled, abandoned>>

Terminate == process = "running" /\ process' = "terminated" /\ Stopping
WaitForever == FALSE /\ UNCHANGED vars     \* slip: no kill after the five seconds
Kill == process = "terminated" /\ process' = "killed" /\ Stopping

Leave ==
  /\ phase = "stopping"
  /\ process = "dead"
  /\ ~child
  /\ phase' = "ended"
  /\ UNCHANGED <<drained, reading, identifier, pending, events, usage, turns, turnId, outcome,
                 handled, requests, server, world>>

(* The task is cancelled while it awaits the end of the process or of      *)
(* stderr.  A run that was about to be returned is given up, and stopped   *)
(* once more by the finally clause, which does not wait for a stderr whose *)
(* reader was cancelled.  From that stop nothing comes back: the process   *)
(* has been asked to end, and is left.                                     *)
CancelStop ==
  /\ phase = "stopping"
  /\ process # "running"
  /\ \/ /\ outcome # Raised
        /\ outcome' = Raised
        /\ phase' \in IF process = "dead" THEN {"stopping", "ended"} ELSE {"interrupt"}
        /\ UNCHANGED abandoned
     \/ /\ outcome = Raised
        /\ phase' = "ended"
        /\ abandoned' = (process = "terminated")
        /\ UNCHANGED outcome
  /\ UNCHANGED <<drained, reading, identifier, pending, events, usage, turns, turnId, handled,
                 requests, server, process, child, late, cancelled>>

CancelTask ==
  \/ (reading \/ Sending \/ phase = "exit") /\ GiveUp
  \/ Interrupted
  \/ CancelStop

Run ==
  \/ StartReading \/ TimeOut \/ EndOfFile \/ Exited \/ ReadLine \/ NextPending \/ BeginTurn
  \/ Validate \/ Terminate \/ Kill \/ Leave

(* The process exits, by itself or because it was told to; a child of its  *)
(* own ends or fills what is kept of stderr; the deadline passes; the      *)
(* cancellation event is set.                                              *)
Exit ==
  /\ process # "dead"
  /\ process' = "dead"
  /\ UNCHANGED <<client, requests, server, child, late, cancelled, abandoned>>

ChildEnds ==
  /\ child
  /\ child' = FALSE
  /\ UNCHANGED <<client, requests, server, process, late, cancelled, abandoned>>

Deadline ==
  /\ ~Over
  /\ ~late
  /\ late' = TRUE
  /\ UNCHANGED <<client, requests, server, process, child, cancelled, abandoned>>

Cancel ==
  /\ ~Over
  /\ ~cancelled
  /\ cancelled' = TRUE
  /\ UNCHANGED <<client, requests, server, process, child, late, abandoned>>

Agent == TakeRequest \/ Answer \/ DeclareTurn \/ Extra

Done == phase = "ended" /\ UNCHANGED vars

Next ==
  \/ Run \/ Agent \/ Drained \/ Interrupted \/ ClosesOutput \/ Exit \/ ChildEnds
  \/ Deadline \/ Cancel \/ CancelTask \/ Done

Spec == Init /\ [][Next]_vars

(* The client goes on, time passes and a killed process dies.  A request   *)
(* leaves the buffer if the agent has read it or is dead.  The agent owes  *)
(* nothing, and a child of it may have stderr open for ever.               *)
FairSpec ==
  /\ Spec
  /\ WF_vars(Run)
  /\ WF_vars(Deadline)
  /\ WF_vars(process = "killed" /\ Exit)
  /\ WF_vars((requests = <<>> \/ process = "dead") /\ Drained)
  /\ WF_vars(process = "dead" /\ Interrupted)

-----------------------------------------------------------------------------
(* The types.                                                              *)
TypeOK ==
  /\ phase \in Awaits \cup {"begin", "judging", "exit", "interrupt", "stopping", "ended"}
  /\ {drained, reading, child, late, cancelled, abandoned} \subseteq BOOLEAN
  /\ identifier \in 1 .. MaxTurns + 2
  /\ turns \in 0 .. MaxTurns
  /\ turnId \in 0 .. MaxTurns
  /\ Len(events) <= MaxEvents
  /\ process \in {"running", "terminated", "killed", "dead"}
  /\ \A t \in 1 .. MaxTurns : declared[t] \in Statuses \cup {Nothing}

(* The notifications in a sequence of lines are those that were written,   *)
(* each of them once and in their order.                                   *)
Conveys(sequence, written) ==
  LET notices == {i \in DOMAIN sequence : IsNotice(sequence[i])}
  IN  /\ \A i \in notices : /\ sequence[i].no \in DOMAIN written
                            /\ written[sequence[i].no] = sequence[i]
      /\ \A i, j \in notices : i < j => sequence[i].no < sequence[j].no
      /\ \A n \in DOMAIN written : \E i \in notices : sequence[i].no = n

Updates == {i \in DOMAIN handled : handled[i].method = "usage"}

(* No notification is lost, repeated or overtaken on its way through the   *)
(* pipe and the queue, whatever the client was waiting for when it came.   *)
(* The events kept are the first of them, and the usage is the last one    *)
(* reported even when events are no longer kept.                           *)
HandledInOrder ==
  /\ Conveys(handled \o pending \o lines, said)
  /\ events = SubSeq(handled, 1, IF Len(handled) < MaxEvents THEN Len(handled) ELSE MaxEvents)
  /\ IF Updates = {} THEN usage = Nothing
     ELSE \E i \in Updates : usage = handled[i].turn /\ \A j \in Updates : j <= i

(* What a caller of the run is promised (module AgentRun).  A run that is  *)
(* to be returned is not returned before its process is stopped.           *)
Settled == phase = "ended" \/ (Over /\ outcome = Raised)

Promise == INSTANCE AgentRun WITH
  stage <- CASE Settled -> "ended"
             [] ~Settled /\ phase \in {"initialize", "thread"} -> "opening"
             [] ~Settled /\ phase = "events" -> "turn"
             [] ~Settled /\ phase \in {"judging", "stopping"} -> "judging"
             [] ~Settled /\ phase \in {"begin", "turn"} ->
                  IF turns = 0 THEN "opening" ELSE "judging",
  turn <- turns,
  result <- IF Settled THEN outcome ELSE Nothing

ImplementsAgentRun == Promise!AgentSpec

(* What the client waits for without a deadline: an agent that does not    *)
(* read, the exit of one that has closed its output, and a child that has  *)
(* stderr open.                                                            *)
HeldUp ==
  \/ Sending /\ requests # <<>> /\ process # "dead"
  \/ phase \in {"exit", "interrupt"} /\ process # "dead"
  \/ phase = "stopping" /\ process = "dead" /\ child

(* Every run ends, whether the agent answers, hangs, ignores the signal or *)
(* exits by itself, with the agent's process dead unless the task was      *)
(* cancelled while the last stop waited for it; unless it is held up for   *)
(* ever, and then by nothing but that.                                     *)
EndsStopped ==
  \/ <>(phase = "ended" /\ (process = "dead" \/ abandoned))
  \/ <>[]HeldUp
=============================================================================
