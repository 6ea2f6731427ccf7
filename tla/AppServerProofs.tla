---------------------------- MODULE AppServerProofs ----------------------------
(***************************************************************************)
(* Proofs that AppServer implements AgentRun, for any number of turns and  *)
(* whatever the agent writes: no message of one turn is taken for one of   *)
(* another, though answers, requests and notifications share a pipe and    *)
(* some of them wait in a queue; and that the queue keeps their order.     *)
(***************************************************************************)
EXTENDS AppServer, SequenceTheorems, TLAPS

(* Requests are numbered from 1; all but the first two begin a turn.       *)
TurnOf(i) == IF i <= 2 THEN 0 ELSE i - 2

Request(i) == [id |-> i, method |-> IF i = 1 THEN "initialize"
                                    ELSE IF i = 2 THEN "thread/start" ELSE "turn/start"]

Asked == {"initialize", "thread/start", "turn/start"}

Methods == {"garbage", "item", "usage", "model/rerouted", "turn/completed", "approval", Nothing}

Lines == [id : Nat \cup {Nothing}, method : Methods, turn : Nat,
          status : Statuses \cup {Nothing, "result", "empty", "error"}, no : Nat]

(* What a line says of a turn: an answer with a result names the turn that *)
(* its request began, and a completion is of a declared turn.              *)
LineOK(line, d) ==
  /\ line.status = "result" => line.id \in Nat /\ line.turn = TurnOf(line.id)
  /\ line.method = "turn/completed" =>
       /\ line.turn \in 1 .. MaxTurns
       /\ line.status = d[line.turn] /\ line.status # Nothing

(* A run that is about to be returned: what was declared of its last turn. *)
Judged ==
  \E passed \in BOOLEAN :
    LET done == passed /\ declared[turns] = "completed" IN
    /\ done \/ turns = MaxTurns
    /\ outcome = [status |-> declared[turns], turns |-> turns, first |-> done /\ turns = 1]

(* Where the client is, the number of its last request, and the turn.      *)
ClientOK ==
  /\ phase \in Awaits \cup {"begin", "judging", "exit", "interrupt", "stopping", "ended"}
  /\ turns \in 0 .. MaxTurns
  /\ declared \in [1 .. MaxTurns -> Statuses \cup {Nothing}]
  /\ phase = "initialize" => identifier = 1 /\ turns = 0
  /\ phase = "thread" => identifier = 2 /\ turns = 0
  /\ phase = "begin" => identifier = turns + 2 /\ turns < MaxTurns
  /\ phase = "turn" => identifier = turns + 3 /\ turns < MaxTurns
  /\ phase \in {"events", "judging"} => identifier = turns + 2 /\ turns >= 1 /\ turnId = turns
  /\ phase = "judging" =>
       /\ declared[turns] # Nothing
       /\ outcome = [status |-> declared[turns], turns |-> turns, first |-> FALSE]
  /\ phase \in {"exit", "interrupt"} => outcome = Raised
  /\ phase = "stopping" => outcome = Raised \/ Judged

ReadingOK == reading => phase \in Awaits

(* What is in the pipes and the queue.                                     *)
Taken == identifier - Len(requests)

PipesOK ==
  /\ requests \in Seq([id : Nat, method : Asked]) /\ Len(requests) <= identifier
  /\ \A k \in 1 .. Len(requests) : requests[k] = Request(Taken + k)
  /\ agent \in [owes : Nat \cup {Nothing}, begun : Nat, extras : Nat]
  /\ agent.begun = TurnOf(Taken)
  /\ agent.owes \in {Nothing, Taken}
  /\ lines \in Seq(Lines) /\ pending \in Seq(Lines) /\ said \in Seq(Lines)
  /\ \A k \in 1 .. Len(lines) : LineOK(lines[k], declared)
  /\ \A k \in 1 .. Len(pending) : LineOK(pending[k], declared)

AppInv == ClientOK /\ ReadingOK /\ (~Over => PipesOK)

-----------------------------------------------------------------------------
LEMMA BeginsAtMostOneMore ==
  ASSUME ClientOK, ~Over
  PROVE  /\ identifier \in Nat
         /\ TurnOf(identifier) <= turns + 1 /\ TurnOf(identifier) <= MaxTurns
BY AppServerAssumption DEF ClientOK, Over, Awaits, TurnOf

(* A declared turn stays declared as it is, and so do the lines about it.  *)
DeclarationsKept == \A t \in 1 .. MaxTurns : declared[t] # Nothing => declared'[t] = declared[t]

LEMMA LineKept ==
  ASSUME DeclarationsKept, NEW line, LineOK(line, declared)
  PROVE  LineOK(line, declared')
BY DEF DeclarationsKept, LineOK

LEMMA LinesAppended ==
  ASSUME NEW s \in Seq(Lines), NEW line \in Lines, NEW d, LineOK(line, d),
         \A k \in 1 .. Len(s) : LineOK(s[k], d)
  PROVE  /\ Append(s, line) \in Seq(Lines)
         /\ \A k \in 1 .. Len(Append(s, line)) : LineOK(Append(s, line)[k], d)
<1>1. Append(s, line) \in Seq(Lines) /\ Len(Append(s, line)) = Len(s) + 1
  OBVIOUS
<1>2. ASSUME NEW k \in 1 .. Len(s) + 1 PROVE LineOK(Append(s, line)[k], d)
  <2>1. CASE k = Len(s) + 1
    BY <2>1
  <2>2. CASE k # Len(s) + 1
    BY <2>2
  <2>. QED
    BY <2>1, <2>2
<1>. QED
  BY <1>1, <1>2

LEMMA LinesTaken ==
  ASSUME NEW s \in Seq(Lines), s # <<>>, NEW d, \A k \in 1 .. Len(s) : LineOK(s[k], d)
  PROVE  /\ Head(s) \in Lines /\ LineOK(Head(s), d)
         /\ Tail(s) \in Seq(Lines) /\ \A k \in 1 .. Len(Tail(s)) : LineOK(Tail(s)[k], d)
<1>1. /\ Tail(s) \in Seq(Lines) /\ Len(Tail(s)) = Len(s) - 1 /\ Len(s) \in Nat \ {0}
      /\ \A k \in 1 .. Len(Tail(s)) : Tail(s)[k] = s[k + 1] /\ k + 1 \in 1 .. Len(s)
      /\ Head(s) = s[1] /\ s[1] \in Lines
  OBVIOUS
<1>. QED
  BY <1>1

LEMMA InitApp == ASSUME Init PROVE AppInv
<1>1. ClientOK /\ ReadingOK
  BY AppServerAssumption DEF Init, ClientOK, ReadingOK, Awaits
<1>2. PipesOK
  <2>1. requests = <<Request(1)>> /\ Taken = 0
    BY DEF Init, Request, Taken
  <2>2. Request(1) \in [id : Nat, method : Asked]
    BY DEF Request, Asked
  <2>. QED
    BY <2>1, <2>2 DEF Init, PipesOK, TurnOf
<1>. QED
  BY <1>1, <1>2 DEF AppInv

-----------------------------------------------------------------------------
(* The end of a run: from then on only the result matters.                 *)
LEMMA OverKept ==
  ASSUME AppInv, Over', turns' = turns, declared' = declared, ~reading',
         phase' \in {"exit", "interrupt"} => outcome' = Raised,
         phase' = "stopping" => outcome' = Raised \/ Judged'
  PROVE  AppInv'
<1>1. /\ phase' \in {"exit", "interrupt", "stopping", "ended"} /\ turns' \in 0 .. MaxTurns
      /\ declared' \in [1 .. MaxTurns -> Statuses \cup {Nothing}]
  BY DEF Over, AppInv, ClientOK
<1>2. ClientOK'
  BY <1>1 DEF ClientOK, Awaits
<1>. QED
  BY <1>2 DEF AppInv, ReadingOK, Over

LEMMA RaisedStep ==
  ASSUME AppInv, Over', outcome' = Raised, ~reading', UNCHANGED <<turns, declared>>
  PROVE  AppInv'
BY OverKept

LEMMA FinishStep ==
  ASSUME AppInv, Finish(Raised), turns' = turns, declared' = declared
  PROVE  AppInv'
BY RaisedStep DEF Finish, Over

(* The agent's steps leave the client as it is.                            *)
LEMMA ClientKept ==
  ASSUME AppInv, UNCHANGED client, DeclarationsKept, Over => UNCHANGED declared,
         declared' \in [1 .. MaxTurns -> Statuses \cup {Nothing}], ~Over => PipesOK'
  PROVE  AppInv'
<1>1. ClientOK'
  <2>1. /\ ClientOK /\ UNCHANGED <<phase, identifier, turns, turnId, outcome>>
    BY DEF AppInv, client
  <2>2. CASE Over
    <3>1. UNCHANGED declared
      BY <2>2
    <3>. QED
      BY <2>1, <3>1 DEF ClientOK, Judged
  <2>3. CASE ~Over
    BY <2>1, <2>3 DEF ClientOK, DeclarationsKept, Over
  <2>. QED
    BY <2>2, <2>3
<1>2. ReadingOK' /\ Over' = Over
  BY DEF AppInv, ReadingOK, client, Over
<1>. QED
  BY <1>1, <1>2 DEF AppInv

LEMMA PipesFacts ==
  ASSUME AppInv, ~Over
  PROVE  /\ ClientOK /\ PipesOK /\ identifier \in Nat /\ Len(requests) \in Nat
         /\ Taken \in Nat /\ Taken <= identifier
<1>1. ClientOK /\ PipesOK /\ identifier \in Nat
  BY BeginsAtMostOneMore DEF AppInv
<1>2. Len(requests) \in Nat /\ Len(requests) <= identifier
  BY <1>1 DEF PipesOK
<1>. QED
  BY <1>1, <1>2 DEF Taken

LEMMA TakeRequestStep == ASSUME AppInv, TakeRequest PROVE AppInv'
<1>1. /\ ~Over /\ UNCHANGED <<client, lines, declared, said, world>>
      /\ requests # <<>> /\ requests' = Tail(requests)
      /\ agent' = [agent EXCEPT !.owes = Head(requests).id,
                     !.begun = IF Head(requests).method = "turn/start" THEN @ + 1 ELSE @]
  BY DEF TakeRequest
<1>2. /\ PipesOK /\ identifier \in Nat /\ Len(requests) \in Nat /\ Taken \in Nat
      /\ requests \in Seq([id : Nat, method : Asked])
  BY <1>1, PipesFacts DEF PipesOK
<1>3. /\ Tail(requests) \in Seq([id : Nat, method : Asked])
      /\ Len(Tail(requests)) = Len(requests) - 1 /\ Head(requests) = requests[1]
      /\ \A k \in 1 .. Len(Tail(requests)) : Tail(requests)[k] = requests[k + 1]
      /\ Len(requests) >= 1
  BY <1>1, <1>2
<1>4. identifier' = identifier /\ Taken' = Taken + 1
  BY <1>1, <1>2, <1>3 DEF client, Taken
<1>5. Head(requests) = Request(Taken + 1)
  BY <1>2, <1>3 DEF PipesOK
<1>6. /\ agent'.begun = TurnOf(Taken + 1) /\ agent'.owes = Taken + 1
      /\ agent' \in [owes : Nat \cup {Nothing}, begun : Nat, extras : Nat]
  <2>1. agent \in [owes : Nat \cup {Nothing}, begun : Nat, extras : Nat]
        /\ agent.begun = TurnOf(Taken)
    BY <1>2 DEF PipesOK
  <2>2. Request(Taken + 1).id = Taken + 1
        /\ (Request(Taken + 1).method = "turn/start" <=> Taken >= 2)
    BY <1>2 DEF Request
  <2>3. TurnOf(Taken + 1) = IF Taken >= 2 THEN TurnOf(Taken) + 1 ELSE TurnOf(Taken)
    BY <1>2 DEF TurnOf
  <2>4. TurnOf(Taken + 1) \in Nat
    BY <1>2 DEF TurnOf
  <2>5. PICK n \in Nat : n = Taken + 1
    BY <1>2
  <2>6. PICK m \in Nat : m = TurnOf(Taken + 1)
    BY <2>4
  <2>7. agent' = [agent EXCEPT !.owes = n, !.begun = m]
    BY <1>1, <1>5, <2>1, <2>2, <2>3, <2>5, <2>6
  <2>8. /\ agent'.owes = n /\ agent'.begun = m
        /\ agent' \in [owes : Nat \cup {Nothing}, begun : Nat, extras : Nat]
    BY <2>1, <2>7
  <2>. QED
    BY <2>5, <2>6, <2>8
<1>7. \A k \in 1 .. Len(requests') : requests'[k] = Request(Taken + 1 + k)
  <2>1. ASSUME NEW k \in 1 .. Len(Tail(requests))
        PROVE  Tail(requests)[k] = Request(Taken + 1 + k)
    <3>1. k + 1 \in 1 .. Len(requests) /\ Taken + (k + 1) = Taken + 1 + k
      BY <1>2, <1>3
    <3>. QED
      BY <1>2, <1>3, <3>1 DEF PipesOK
  <2>. QED
    BY <1>1, <2>1
<1>8. PipesOK'
  <2>1. lines' = lines /\ pending' = pending /\ declared' = declared /\ said' = said
    BY <1>1 DEF client
  <2>. QED
    BY <1>1, <1>2, <1>3, <1>4, <1>6, <1>7, <2>1 DEF PipesOK
<1>9. DeclarationsKept /\ declared' \in [1 .. MaxTurns -> Statuses \cup {Nothing}]
  BY <1>1 DEF DeclarationsKept, AppInv, ClientOK
<1>. QED
  BY <1>1, <1>8, <1>9, ClientKept

(* The agent writes a line that is true of its turns.                      *)
LEMMA NumberedLine ==
  ASSUME said \in Seq(Lines), NEW line \in Lines
  PROVE  Numbered(line) \in Lines
<1>1. Len(said) + 1 \in Nat
  OBVIOUS
<1>2. \A n \in Nat : [line EXCEPT !.no = n] \in Lines
  BY DEF Lines
<1>. QED
  BY <1>1, <1>2 DEF Numbered

LEMMA NumberedFacts ==
  ASSUME said \in Seq(Lines), NEW line \in Lines, NEW d, LineOK(line, d)
  PROVE  Numbered(line) \in Lines /\ LineOK(Numbered(line), d)
BY DEF Numbered, Lines, LineOK

LEMMA WriteStep ==
  ASSUME AppInv, NEW line \in Lines, Write(line), LineOK(line, declared'), DeclarationsKept,
         declared' \in [1 .. MaxTurns -> Statuses \cup {Nothing}],
         UNCHANGED <<client, requests, world>>,
         agent' \in [owes : {agent.owes, Nothing}, begun : {agent.begun}, extras : Nat]
  PROVE  AppInv'
<1>1. /\ ~Over /\ lines' = Append(lines, Numbered(line)) /\ pending' = pending
      /\ said' = IF IsNotice(line) THEN Append(said, Numbered(line)) ELSE said
  BY DEF Write, client
<1>2. PipesOK /\ said \in Seq(Lines)
  BY <1>1, PipesFacts DEF PipesOK
<1>3. /\ Numbered(line) \in Lines /\ LineOK(Numbered(line), declared') /\ said' \in Seq(Lines)
  BY <1>1, <1>2, NumberedFacts
<1>4. lines' \in Seq(Lines) /\ \A k \in 1 .. Len(lines') : LineOK(lines'[k], declared')
  <2>1. lines \in Seq(Lines) /\ \A k \in 1 .. Len(lines) : LineOK(lines[k], declared')
    BY <1>2, LineKept DEF PipesOK
  <2>. QED
    BY <1>1, <1>3, <2>1, LinesAppended
<1>5. \A k \in 1 .. Len(pending') : LineOK(pending'[k], declared')
  BY <1>1, <1>2, LineKept DEF PipesOK
<1>6. PipesOK'
  BY <1>1, <1>2, <1>3, <1>4, <1>5 DEF PipesOK, client, Taken
<1>. QED
  BY <1>1, <1>6, ClientKept

LEMMA AnswerStep == ASSUME AppInv, Answer PROVE AppInv'
<1>1. /\ agent.owes # Nothing /\ agent' = [agent EXCEPT !.owes = Nothing]
      /\ UNCHANGED <<client, requests, declared, world>>
  BY DEF Answer
<1>2. PICK status \in {"result", "empty", "error"} :
        Write(Line(agent.owes, Nothing, agent.begun, status))
  BY DEF Answer
<1>3. ~Over
  BY <1>2 DEF Write
<1>4. PipesOK /\ Taken \in Nat /\ agent.owes = Taken /\ agent.begun = TurnOf(Taken)
      /\ agent.begun \in Nat
  BY <1>1, <1>3, PipesFacts DEF PipesOK
<1>5. PICK line : line = Line(agent.owes, Nothing, agent.begun, status)
  OBVIOUS
<1>6. line \in Lines
  BY <1>4, <1>5 DEF Line, Lines, Methods
<1>7. LineOK(line, declared')
  BY <1>4, <1>5, AppServerAssumption DEF LineOK, Line
<1>8. agent' \in [owes : {agent.owes, Nothing}, begun : {agent.begun}, extras : Nat]
  BY <1>1, <1>4 DEF PipesOK
<1>9. DeclarationsKept /\ declared' \in [1 .. MaxTurns -> Statuses \cup {Nothing}]
  BY <1>1 DEF DeclarationsKept, AppInv, ClientOK
<1>. QED
  BY <1>1, <1>2, <1>5, <1>6, <1>7, <1>8, <1>9, WriteStep

LEMMA BegunIsTurn ==
  ASSUME AppInv, ~Over
  PROVE  /\ agent.begun \in 0 .. turns + 1 /\ agent.begun <= MaxTurns
         /\ turns \in Nat /\ PipesOK
         /\ agent \in [owes : Nat \cup {Nothing}, begun : Nat, extras : Nat]
<1>1. /\ PipesOK /\ ClientOK /\ Taken \in Nat /\ Taken <= identifier /\ identifier \in Nat
      /\ turns \in Nat
  BY PipesFacts DEF ClientOK
<1>2. agent.begun = TurnOf(Taken) /\ agent \in [owes : Nat \cup {Nothing}, begun : Nat, extras : Nat]
  BY <1>1 DEF PipesOK
<1>3. TurnOf(Taken) \in Nat /\ TurnOf(Taken) <= TurnOf(identifier)
  BY <1>1 DEF TurnOf
<1>4. TurnOf(identifier) <= turns + 1 /\ TurnOf(identifier) <= MaxTurns
  BY <1>1, BeginsAtMostOneMore
<1>5. TurnOf(identifier) \in Nat
  BY <1>1 DEF TurnOf
<1>. QED
  BY <1>1, <1>2, <1>3, <1>4, <1>5, AppServerAssumption

LEMMA DeclareTurnStep == ASSUME AppInv, DeclareTurn PROVE AppInv'
<1>1. PICK t \in 1 .. agent.begun, s \in Statuses :
        /\ declared[t] = Nothing
        /\ Write(Notification("turn/completed", t, s))
        /\ declared' = [declared EXCEPT ![t] = s]
  BY DEF DeclareTurn
<1>2. UNCHANGED <<client, requests, agent, world>> /\ ~Over
  BY <1>1 DEF DeclareTurn, Write
<1>3. t \in 1 .. MaxTurns /\ t \in Nat /\ agent \in [owes : Nat \cup {Nothing}, begun : Nat, extras : Nat]
  BY <1>2, BegunIsTurn, AppServerAssumption
<1>4. declared \in [1 .. MaxTurns -> Statuses \cup {Nothing}]
  BY DEF AppInv, ClientOK
<1>5. /\ declared' \in [1 .. MaxTurns -> Statuses \cup {Nothing}] /\ DeclarationsKept
      /\ declared'[t] = s
  BY <1>1, <1>3, <1>4 DEF DeclarationsKept
<1>6. PICK line : line = Notification("turn/completed", t, s)
  OBVIOUS
<1>7. line \in Lines /\ line.turn = t /\ line.status = s /\ line.method = "turn/completed"
  BY <1>3, <1>6 DEF Notification, Line, Lines, Methods
<1>8. LineOK(line, declared')
  BY <1>3, <1>5, <1>7, AppServerAssumption DEF LineOK, Statuses
<1>9. agent' \in [owes : {agent.owes, Nothing}, begun : {agent.begun}, extras : Nat]
  BY <1>2, <1>3
<1>. QED
  BY <1>1, <1>2, <1>5, <1>6, <1>7, <1>8, <1>9, WriteStep

LEMMA ExtraStep == ASSUME AppInv, Extra PROVE AppInv'
<1>1. /\ UNCHANGED <<client, requests, declared, world>> /\ agent.extras < MaxExtras
      /\ agent' = [agent EXCEPT !.extras = @ + 1]
  BY DEF Extra
<1>2. PICK line :
        /\ Write(line)
        /\ \/ \E method \in {"item", "usage", "model/rerouted", "garbage"} :
                line = Notification(method, agent.extras, Nothing)
           \/ line = Line(identifier, "approval", 0, Nothing)
           \/ \E t \in 1 .. agent.begun :
                declared[t] # Nothing /\ line = Notification("turn/completed", t, declared[t])
  BY DEF Extra
<1>3. ~Over
  BY <1>2 DEF Write
<1>4. /\ agent \in [owes : Nat \cup {Nothing}, begun : Nat, extras : Nat] /\ agent.begun <= MaxTurns
      /\ agent.begun \in Nat /\ identifier \in Nat
      /\ declared \in [1 .. MaxTurns -> Statuses \cup {Nothing}]
  BY <1>3, BegunIsTurn, PipesFacts DEF ClientOK
<1>5. line \in Lines /\ LineOK(line, declared')
  <2>1. ASSUME NEW method \in {"item", "usage", "model/rerouted", "garbage"},
               line = Notification(method, agent.extras, Nothing)
        PROVE  line \in Lines /\ LineOK(line, declared')
    BY <1>4, <2>1, AppServerAssumption DEF Notification, Line, Lines, LineOK, Methods
  <2>2. CASE line = Line(identifier, "approval", 0, Nothing)
    BY <1>4, <2>2, AppServerAssumption DEF Line, Lines, LineOK, Methods
  <2>3. ASSUME NEW t \in 1 .. agent.begun, declared[t] # Nothing,
               line = Notification("turn/completed", t, declared[t])
        PROVE  line \in Lines /\ LineOK(line, declared')
    <3>1. t \in 1 .. MaxTurns /\ t \in Nat /\ declared[t] \in Statuses
      BY <1>4, <2>3, AppServerAssumption
    <3>. QED
      BY <1>1, <2>3, <3>1, AppServerAssumption DEF Notification, Line, Lines, LineOK, Methods, Statuses
  <2>. QED
    BY <1>2, <2>1, <2>2, <2>3
<1>6. agent' \in [owes : {agent.owes, Nothing}, begun : {agent.begun}, extras : Nat]
  BY <1>1, <1>4
<1>7. DeclarationsKept /\ declared' \in [1 .. MaxTurns -> Statuses \cup {Nothing}]
  BY <1>1, <1>4 DEF DeclarationsKept
<1>. QED
  BY <1>1, <1>2, <1>5, <1>6, <1>7, WriteStep

-----------------------------------------------------------------------------
(* The client's steps.                                                     *)
LEMMA GiveUpStep == ASSUME AppInv, GiveUp PROVE AppInv'
BY RaisedStep DEF GiveUp, server, Over

LEMMA RaisedPhases ==
  ASSUME AppInv, phase \in {"exit", "interrupt"}
  PROVE  outcome = Raised /\ ~reading
BY DEF AppInv, ClientOK, ReadingOK, Awaits

LEMMA InterruptedStep == ASSUME AppInv, Interrupted PROVE AppInv'
BY RaisedPhases, RaisedStep DEF Interrupted, server, Over

LEMMA OutputEndsStep == ASSUME AppInv, OutputEnds PROVE AppInv'
BY RaisedStep DEF OutputEnds, server, Over

LEMMA ExitedStep == ASSUME AppInv, Exited PROVE AppInv'
BY RaisedPhases, RaisedStep DEF Exited, server, Over

LEMMA CancelStopStep == ASSUME AppInv, CancelStop PROVE AppInv'
<1>1. /\ phase' \in {"interrupt", "stopping", "ended"} /\ outcome' = Raised
      /\ UNCHANGED <<reading, turns, declared>> /\ phase = "stopping"
  BY DEF CancelStop, server
<1>2. ~reading' /\ Over'
  BY <1>1 DEF AppInv, ReadingOK, Awaits, Over
<1>. QED
  BY <1>1, <1>2, RaisedStep

LEMMA CancelTaskStep == ASSUME AppInv, CancelTask PROVE AppInv'
BY GiveUpStep, InterruptedStep, CancelStopStep DEF CancelTask

(* The pipes stay right when the client takes lines and sends nothing, or  *)
(* sends the next request.                                                 *)
LEMMA SilentStep ==
  ASSUME PipesOK, UNCHANGED <<identifier, requests, agent, declared, said>>,
         lines' \in Seq(Lines), \A k \in 1 .. Len(lines') : LineOK(lines'[k], declared),
         pending' \in Seq(Lines), \A k \in 1 .. Len(pending') : LineOK(pending'[k], declared)
  PROVE  PipesOK'
BY DEF PipesOK, Taken

LEMMA SendStep ==
  ASSUME AppInv, ~Over, NEW method \in Asked, Send(method), method = Request(identifier + 1).method,
         UNCHANGED <<pending, agent, declared, said>>,
         lines' \in Seq(Lines), \A k \in 1 .. Len(lines') : LineOK(lines'[k], declared)
  PROVE  PipesOK'
<1>1. /\ PipesOK /\ identifier \in Nat /\ Len(requests) \in Nat /\ Taken \in Nat
      /\ requests \in Seq([id : Nat, method : Asked]) /\ Len(requests) <= identifier
  BY PipesFacts DEF PipesOK
<1>2. PICK request : request = [id |-> identifier + 1, method |-> method]
  OBVIOUS
<1>3. /\ request \in [id : Nat, method : Asked] /\ request = Request(identifier + 1)
      /\ requests' = Append(requests, request) /\ identifier' = identifier + 1
  BY <1>1, <1>2 DEF Send, Request
<1>4. /\ requests' \in Seq([id : Nat, method : Asked])
      /\ Len(requests') = Len(requests) + 1 /\ requests'[Len(requests) + 1] = request
      /\ \A k \in 1 .. Len(requests) : requests'[k] = requests[k]
  BY <1>1, <1>3
<1>5. Taken' = Taken
  BY <1>1, <1>3, <1>4 DEF Taken
<1>6. Len(requests) + Taken = identifier
  BY <1>1 DEF Taken
<1>7. ASSUME NEW k \in 1 .. Len(requests) + 1 PROVE requests'[k] = Request(Taken + k)
  <2>1. CASE k = Len(requests) + 1
    <3>1. Taken + k = identifier + 1
      BY <1>1, <1>6, <2>1
    <3>. QED
      BY <1>3, <1>4, <2>1, <3>1
  <2>2. CASE k \in 1 .. Len(requests)
    BY <1>1, <1>4, <2>2 DEF PipesOK
  <2>. QED
    BY <1>1, <2>1, <2>2
<1>8. \A k \in 1 .. Len(requests') : requests'[k] = Request(Taken' + k)
  BY <1>4, <1>5, <1>7
<1>. QED
  BY <1>1, <1>3, <1>4, <1>5, <1>8, SMTT(30) DEF PipesOK

LEMMA StreamsFacts ==
  ASSUME AppInv, ~Over
  PROVE  /\ lines \in Seq(Lines) /\ \A k \in 1 .. Len(lines) : LineOK(lines[k], declared)
         /\ pending \in Seq(Lines) /\ \A k \in 1 .. Len(pending) : LineOK(pending[k], declared)
BY DEF AppInv, PipesOK

LEMMA StartReadingStep == ASSUME AppInv, StartReading PROVE AppInv'
<1>1. CASE cancelled \/ late
  BY <1>1, GiveUpStep DEF StartReading
<1>2. CASE ~(cancelled \/ late)
  <2>1. UNCHANGED <<phase, identifier, pending, turns, turnId, outcome, requests, lines, agent,
                    declared, said>> /\ phase \in Awaits
    BY <1>2 DEF StartReading, AboutToRead, server
  <2>2. ClientOK' /\ ReadingOK'
    BY <2>1 DEF AppInv, ClientOK, ReadingOK, Awaits
  <2>3. PipesOK'
    BY <2>1, SilentStep, StreamsFacts DEF AppInv, Over, Awaits
  <2>. QED
    BY <2>2, <2>3 DEF AppInv
<1>. QED
  BY <1>1, <1>2

LEMMA DrainedStep == ASSUME AppInv, Drained PROVE AppInv'
<1>1. CASE Finish(Raised)
  BY <1>1, FinishStep DEF Drained, server
<1>2. CASE UNCHANGED <<phase, reading, outcome>>
  <2>1. UNCHANGED <<phase, reading, identifier, pending, turns, turnId, outcome, requests, lines,
                    agent, declared, said>> /\ phase \in Awaits
    BY <1>2 DEF Drained, Sending, server
  <2>2. ClientOK' /\ ReadingOK'
    BY <2>1 DEF AppInv, ClientOK, ReadingOK, Awaits
  <2>3. PipesOK'
    BY <2>1, SilentStep, StreamsFacts DEF AppInv, Over, Awaits
  <2>. QED
    BY <2>2, <2>3 DEF AppInv
<1>. QED
  BY <1>1, <1>2 DEF Drained

LEMMA BeginTurnStep == ASSUME AppInv, BeginTurn PROVE AppInv'
<1>1. CASE cancelled
  BY <1>1, GiveUpStep DEF BeginTurn
<1>2. CASE ~cancelled
  <2>1. /\ phase = "begin" /\ phase' = "turn" /\ Send("turn/start")
        /\ UNCHANGED <<reading, pending, turns, lines, agent, declared, said>>
    BY <1>2 DEF BeginTurn, server
  <2>2. turns \in Nat /\ identifier = turns + 2 /\ turns < MaxTurns /\ identifier' = turns + 3
        /\ ~Over /\ turns \in 0 .. MaxTurns
        /\ declared \in [1 .. MaxTurns -> Statuses \cup {Nothing}]
        /\ ~reading
    BY <2>1 DEF AppInv, ClientOK, ReadingOK, Awaits, Over, Send
  <2>3. ClientOK' /\ ReadingOK'
    BY <2>1, <2>2 DEF ClientOK, ReadingOK, Awaits
  <2>4. PipesOK'
    <3>1. "turn/start" \in Asked /\ "turn/start" = Request(identifier + 1).method
      BY <2>2 DEF Asked, Request
    <3>. QED
      BY <2>1, <2>2, <3>1, SendStep, StreamsFacts
  <2>. QED
    BY <2>3, <2>4 DEF AppInv
<1>. QED
  BY <1>1, <1>2

(* A validated turn ends the run or lets the next one begin.               *)
LEMMA Validated ==
  ASSUME AppInv, Validate, ~Finish(Raised)
  PROVE  /\ UNCHANGED <<reading, turns, declared>>
         /\ \/ phase' = "stopping" /\ Judged'
            \/ phase' = "begin" /\ turns < MaxTurns
<1>1. phase = "judging" /\ UNCHANGED <<reading, turns, declared>>
  BY DEF Validate, server
<1>2. /\ outcome = [status |-> declared[turns], turns |-> turns, first |-> FALSE]
      /\ turns \in 1 .. MaxTurns
  BY <1>1, AppServerAssumption DEF AppInv, ClientOK
<1>3. PICK passed \in BOOLEAN :
        IF passed /\ outcome.status = "completed"
        THEN phase' = "stopping" /\ outcome' = [outcome EXCEPT !.first = turns = 1]
        ELSE IF turns < MaxTurns THEN phase' = "begin" /\ outcome' = Nothing
        ELSE phase' = "stopping" /\ UNCHANGED outcome
  BY Zenon DEF Validate
<1>4. outcome.status = declared[turns]
  BY <1>2
<1>5. CASE passed /\ declared[turns] = "completed"
  <2>1. phase' = "stopping" /\ outcome' = [outcome EXCEPT !.first = turns = 1]
    BY <1>3, <1>4, <1>5
  <2>2. outcome' = [status |-> declared[turns], turns |-> turns, first |-> TRUE /\ turns = 1]
    BY <1>2, <2>1
  <2>3. Judged'
    BY <1>1, <1>5, <2>2 DEF Judged
  <2>. QED
    BY <1>1, <2>1, <2>3
<1>6. CASE ~(passed /\ declared[turns] = "completed") /\ turns < MaxTurns
  BY <1>1, <1>3, <1>4, <1>6
<1>7. CASE ~(passed /\ declared[turns] = "completed") /\ turns = MaxTurns
  <2>1. phase' = "stopping" /\ UNCHANGED outcome
    BY <1>2, <1>3, <1>4, <1>7
  <2>2. outcome' = [status |-> declared[turns], turns |-> turns, first |-> FALSE /\ turns = 1]
    BY <1>2, <2>1
  <2>3. Judged'
    BY <1>1, <1>7, <2>2 DEF Judged
  <2>. QED
    BY <1>1, <2>1, <2>3
<1>. QED
  BY <1>2, <1>5, <1>6, <1>7, AppServerAssumption

LEMMA ValidateStep == ASSUME AppInv, Validate PROVE AppInv'
<1>1. /\ phase = "judging" /\ UNCHANGED <<identifier, pending, turns, requests, lines, agent,
                                          declared, said>>
  BY DEF Validate, server
<1>2. /\ turns \in 0 .. MaxTurns /\ identifier = turns + 2 /\ ~reading /\ ~Over
      /\ declared \in [1 .. MaxTurns -> Statuses \cup {Nothing}]
  BY <1>1 DEF AppInv, ClientOK, ReadingOK, Awaits, Over
<1>3. CASE Finish(Raised)
  BY <1>1, <1>3, FinishStep
<1>4. CASE ~Finish(Raised)
  <2>1. UNCHANGED reading
    BY <1>4, Validated
  <2>2. CASE phase' = "stopping" /\ Judged'
    <3>1. Over'
      BY <2>2 DEF Over
    <3>. QED
      BY <1>1, <1>2, <2>1, <2>2, <3>1, OverKept
  <2>3. CASE phase' = "begin" /\ turns < MaxTurns
    <3>1. ClientOK' /\ ReadingOK'
      BY <1>1, <1>2, <2>1, <2>3 DEF ClientOK, ReadingOK, Awaits
    <3>2. PipesOK'
      BY <1>1, <1>2, SilentStep, StreamsFacts DEF AppInv
    <3>. QED
      BY <3>1, <3>2 DEF AppInv
  <2>. QED
    BY <1>4, <2>2, <2>3, Validated
<1>. QED
  BY <1>3, <1>4

-----------------------------------------------------------------------------
(* An answer: the one of a turn names the turn that its request began.     *)
LEMMA AnsweredStep ==
  ASSUME AppInv, reading, NEW line \in Lines, LineOK(line, declared), line.id = identifier,
         phase # "events", Answered(line), Accepted(line) => reading' = FALSE,
         lines' \in Seq(Lines), \A k \in 1 .. Len(lines') : LineOK(lines'[k], declared),
         UNCHANGED <<agent, declared, said>>
  PROVE  AppInv'
<1>1. phase \in {"initialize", "thread", "turn"} /\ ~Over /\ ClientOK
  BY DEF AppInv, ReadingOK, Awaits, Over
<1>2. UNCHANGED pending
  BY DEF Answered
<1>3. CASE ~Accepted(line)
  <2>1. Finish(Raised) /\ UNCHANGED turns
    BY <1>3 DEF Answered
  <2>. QED
    BY <2>1, FinishStep
<1>4. CASE Accepted(line) /\ phase = "initialize"
  <2>1. /\ phase' = "thread" /\ Send("thread/start") /\ UNCHANGED <<turns, turnId, outcome>>
        /\ reading' = FALSE
    BY <1>4 DEF Answered
  <2>2. identifier = 1 /\ turns = 0 /\ identifier' = 2
    BY <1>1, <1>4, <2>1 DEF ClientOK, Send
  <2>3. ClientOK' /\ ReadingOK'
    BY <1>1, <2>1, <2>2, AppServerAssumption DEF ClientOK, ReadingOK, Awaits
  <2>4. "thread/start" \in Asked /\ "thread/start" = Request(identifier + 1).method
    BY <2>2 DEF Asked, Request
  <2>5. PipesOK'
    BY <1>1, <1>2, <2>1, <2>4, SendStep
  <2>. QED
    BY <2>3, <2>5 DEF AppInv
<1>5. CASE Accepted(line) /\ phase = "thread"
  <2>1. phase' = "begin" /\ UNCHANGED <<identifier, requests, turns, turnId, outcome>>
        /\ reading' = FALSE
    BY <1>5 DEF Answered
  <2>2. ClientOK' /\ ReadingOK'
    BY <1>1, <1>5, <2>1, AppServerAssumption DEF ClientOK, ReadingOK, Awaits
  <2>3. PipesOK'
    BY <1>1, <1>2, <2>1, SilentStep, StreamsFacts DEF AppInv
  <2>. QED
    BY <2>2, <2>3 DEF AppInv
<1>6. CASE Accepted(line) /\ phase = "turn"
  <2>1. /\ phase' = "events" /\ turns' = turns + 1 /\ turnId' = line.turn
        /\ UNCHANGED <<identifier, requests, outcome>> /\ reading' = FALSE
    BY <1>6 DEF Answered
  <2>2. identifier = turns + 3 /\ turns < MaxTurns /\ turns \in Nat
    BY <1>1, <1>6 DEF ClientOK
  <2>3. line.turn = turns + 1
    BY <1>6, <2>2 DEF Accepted, LineOK, TurnOf
  <2>4. ClientOK' /\ ReadingOK'
    BY <1>1, <2>1, <2>2, <2>3, AppServerAssumption DEF ClientOK, ReadingOK, Awaits
  <2>5. PipesOK'
    BY <1>1, <1>2, <2>1, SilentStep, StreamsFacts DEF AppInv
  <2>. QED
    BY <2>4, <2>5 DEF AppInv
<1>. QED
  BY <1>1, <1>3, <1>4, <1>5, <1>6

(* A turn is judged by what the agent declared of it.                      *)
LEMMA HandleStep ==
  ASSUME AppInv, phase = "events", NEW line \in Lines, LineOK(line, declared), Handle(line),
         lines' \in Seq(Lines), \A k \in 1 .. Len(lines') : LineOK(lines'[k], declared),
         pending' \in Seq(Lines), \A k \in 1 .. Len(pending') : LineOK(pending'[k], declared),
         UNCHANGED <<agent, declared, said>>
  PROVE  AppInv'
<1>1. UNCHANGED <<identifier, turns, turnId, requests>>
  BY DEF Handle
<1>2. /\ ClientOK /\ PipesOK /\ identifier = turns + 2 /\ turns >= 1 /\ turnId = turns
      /\ turns \in 0 .. MaxTurns /\ declared \in [1 .. MaxTurns -> Statuses \cup {Nothing}]
  BY DEF AppInv, ClientOK, Over
<1>3. PipesOK'
  BY <1>1, <1>2, SilentStep
<1>4. CASE line.method = "model/rerouted"
  <2>1. ~EndsTurn(line)
    BY <1>4 DEF EndsTurn
  <2>2. Finish(Raised)
    BY <1>4, <2>1, Zenon DEF Handle
  <2>. QED
    BY <1>1, <2>2, FinishStep
<1>5. CASE line.method # "model/rerouted" /\ EndsTurn(line)
  <2>1. /\ phase' = "judging" /\ reading' = FALSE
        /\ outcome' = [status |-> line.status, turns |-> turns, first |-> FALSE]
    BY <1>5 DEF Handle
  <2>2. line.status = declared[turns] /\ declared[turns] # Nothing
    BY <1>2, <1>5 DEF EndsTurn, LineOK
  <2>3. ClientOK' /\ ReadingOK'
    BY <1>1, <1>2, <2>1, <2>2 DEF ClientOK, ReadingOK, Awaits
  <2>. QED
    BY <1>3, <2>3 DEF AppInv
<1>6. CASE line.method # "model/rerouted" /\ ~EndsTurn(line)
  <2>1. reading' = FALSE /\ phase' = phase
    BY <1>6 DEF Handle
  <2>2. ClientOK' /\ ReadingOK'
    BY <1>1, <1>2, <2>1 DEF ClientOK, ReadingOK, Awaits
  <2>. QED
    BY <1>3, <2>2 DEF AppInv
<1>. QED
  BY <1>4, <1>5, <1>6

LEMMA NextPendingStep == ASSUME AppInv, NextPending PROVE AppInv'
<1>1. /\ phase = "events" /\ pending # <<>> /\ Handle(Head(pending)) /\ pending' = Tail(pending)
      /\ UNCHANGED <<lines, agent, declared, said>> /\ ~Over
  BY DEF NextPending, server, Over
<1>2. /\ Head(pending) \in Lines /\ LineOK(Head(pending), declared) /\ pending' \in Seq(Lines)
      /\ \A k \in 1 .. Len(pending') : LineOK(pending'[k], declared)
  BY <1>1, StreamsFacts, LinesTaken
<1>. QED
  BY <1>1, <1>2, StreamsFacts, HandleStep

LEMMA ReadLineStep == ASSUME AppInv, ReadLine PROVE AppInv'
<1>1. /\ reading /\ lines # <<>> /\ lines' = Tail(lines) /\ UNCHANGED <<agent, declared, said>>
      /\ phase \in Awaits /\ ~Over
  BY DEF ReadLine, AppInv, ReadingOK, Awaits, Over
<1>2. PICK line : line = Head(lines)
  OBVIOUS
<1>3. /\ line \in Lines /\ LineOK(line, declared) /\ lines' \in Seq(Lines)
      /\ \A k \in 1 .. Len(lines') : LineOK(lines'[k], declared)
  BY <1>1, <1>2, StreamsFacts, LinesTaken
<1>4. CASE line.method = "garbage"
  <2>1. line.method # Nothing
    BY <1>4, AppServerAssumption
  <2>2. Finish(Raised) /\ UNCHANGED turns
    BY <1>2, <1>4, <2>1, Zenon DEF ReadLine
  <2>. QED
    BY <1>1, <2>2, FinishStep
<1>5. CASE line.method # "garbage" /\ phase # "events" /\ line.id = identifier
  <2>1. Answered(line) /\ (Accepted(line) => reading' = FALSE)
    BY <1>2, <1>5 DEF ReadLine
  <2>. QED
    BY <1>1, <1>3, <1>5, <2>1, AnsweredStep
<1>6. CASE line.method # "garbage" /\ phase # "events" /\ line.id # identifier
  <2>1. /\ reading' = FALSE /\ UNCHANGED <<identifier, turns, turnId, requests, phase, outcome>>
        /\ pending' = IF line.method = Nothing THEN pending ELSE Queue(line)
    BY <1>2, <1>6 DEF ReadLine
  <2>2. pending' \in Seq(Lines) /\ \A k \in 1 .. Len(pending') : LineOK(pending'[k], declared)
    BY <1>1, <1>3, <2>1, StreamsFacts, LinesAppended DEF Queue
  <2>. QED
    BY <1>1, <1>3, <2>1, <2>2, SilentStep DEF AppInv, ClientOK, ReadingOK, Awaits
<1>7. CASE phase = "events" /\ line.method = Nothing
  <2>1. /\ reading' = FALSE
        /\ UNCHANGED <<identifier, turns, turnId, requests, phase, outcome, pending>>
    BY <1>2, <1>7, AppServerAssumption DEF ReadLine
  <2>. QED
    BY <1>1, <1>3, <2>1, StreamsFacts, SilentStep DEF AppInv, ClientOK, ReadingOK, Awaits
<1>8. CASE phase = "events" /\ line.method \notin {Nothing, "garbage"}
  <2>1. Handle(line) /\ UNCHANGED pending
    BY <1>2, <1>8 DEF ReadLine
  <2>. QED
    BY <1>1, <1>3, <1>8, <2>1, StreamsFacts, HandleStep
<1>. QED
  BY <1>4, <1>5, <1>6, <1>7, <1>8

(* The world's steps, and those of a run that is over.                     *)
LEMMA WorldStep ==
  ASSUME AppInv, UNCHANGED <<client, requests, server>>
  PROVE  AppInv'
BY DEF AppInv, ClientOK, Judged, ReadingOK, PipesOK, LineOK, Taken, Over, client, server

LEMMA LeaveStep == ASSUME AppInv, Leave PROVE AppInv'
<1>1. phase' = "ended" /\ ~reading /\ UNCHANGED <<reading, turns, declared>>
  BY DEF Leave, server, AppInv, ReadingOK, Awaits
<1>2. Over'
  BY <1>1 DEF Over
<1>. QED
  BY <1>1, <1>2, OverKept

LEMMA NextApp == ASSUME AppInv, [Next]_vars PROVE AppInv'
<1>1. ASSUME Run PROVE AppInv'
  <2>1. ASSUME TimeOut PROVE AppInv'
    BY <2>1, GiveUpStep DEF TimeOut
  <2>2. ASSUME EndOfFile PROVE AppInv'
    BY <2>2, OutputEndsStep DEF EndOfFile
  <2>3. ASSUME Terminate \/ Kill PROVE AppInv'
    BY <2>3, WorldStep DEF Terminate, Kill, Stopping
  <2>. QED
    BY <1>1, <2>1, <2>2, <2>3, ExitedStep, LeaveStep, StartReadingStep, ReadLineStep,
       NextPendingStep, BeginTurnStep, ValidateStep DEF Run
<1>2. ASSUME Exit \/ ChildEnds \/ Deadline \/ Cancel \/ Done \/ UNCHANGED vars PROVE AppInv'
  BY <1>2, WorldStep DEF Exit, ChildEnds, Deadline, Cancel, Done, vars
<1>3. ASSUME ClosesOutput PROVE AppInv'
  BY <1>3, OutputEndsStep DEF ClosesOutput
<1>. QED
  BY <1>1, <1>2, <1>3, DrainedStep, InterruptedStep, CancelTaskStep, TakeRequestStep, AnswerStep,
     DeclareTurnStep, ExtraStep DEF Next, Agent

(* The inductive invariant: an answer with a result names the turn that    *)
(* its request began, in the pipe as in the queue, and the client is never *)
(* more than one turn behind the agent.                                    *)
THEOREM AppInvariant == Spec => []AppInv
BY InitApp, NextApp, PTL DEF Spec

-----------------------------------------------------------------------------
(* The refinement: the stage and the result that the caller sees.          *)
Stage == CASE Settled -> "ended"
           [] ~Settled /\ phase \in {"initialize", "thread"} -> "opening"
           [] ~Settled /\ phase = "events" -> "turn"
           [] ~Settled /\ phase \in {"judging", "stopping"} -> "judging"
           [] ~Settled /\ phase \in {"begin", "turn"} ->
                IF turns = 0 THEN "opening" ELSE "judging"

Result == IF Settled THEN outcome ELSE Nothing

LEMMA Seen ==
  /\ phase \in {"initialize", "thread"} => Stage = "opening"
  /\ phase = "events" => Stage = "turn"
  /\ phase = "judging" \/ (phase = "stopping" /\ outcome # Raised) => Stage = "judging"
  /\ phase \in {"begin", "turn"} => Stage = IF turns = 0 THEN "opening" ELSE "judging"
  /\ Settled => Stage = "ended" /\ Result = outcome
  /\ ~Settled => Result = Nothing
  /\ ~Over => ~Settled
  /\ phase = "stopping" /\ outcome # Raised => ~Settled
<1>1. ~Over => ~Settled
  BY DEF Settled, Over
<1>2. phase = "stopping" /\ outcome # Raised => ~Settled
  BY DEF Settled
<1>. QED
  BY <1>1, <1>2 DEF Stage, Result, Over

LEMMA SeenNext ==
  /\ phase' \in {"initialize", "thread"} => Stage' = "opening"
  /\ phase' = "events" => Stage' = "turn"
  /\ phase' = "judging" \/ (phase' = "stopping" /\ outcome' # Raised) => Stage' = "judging"
  /\ phase' \in {"begin", "turn"} => Stage' = IF turns' = 0 THEN "opening" ELSE "judging"
  /\ Settled' => Stage' = "ended" /\ Result' = outcome'
  /\ ~Settled' => Result' = Nothing
  /\ ~Over' => ~Settled'
  /\ phase' = "stopping" /\ outcome' # Raised => ~Settled'
<1>1. Raised' = Raised
  BY DEF Raised
<1>2. ~Over' => ~Settled'
  BY DEF Settled, Over
<1>3. phase' = "stopping" /\ outcome' # Raised => ~Settled'
  BY <1>1 DEF Settled
<1>. QED
  BY <1>2, <1>3 DEF Stage, Result, Over

(* What each step of AgentRun is in these terms.                           *)
LEMMA PromiseDeclare ==
  ASSUME NEW t \in 1 .. MaxTurns, NEW s \in Statuses, t <= turns + 1, declared[t] = Nothing,
         declared' = [declared EXCEPT ![t] = s], UNCHANGED <<Stage, turns, Result>>
  PROVE  Promise!AgentNext
BY DEF Promise!AgentNext, Promise!Declare, Stage, Result

LEMMA PromiseBegin ==
  ASSUME Stage \in {"opening", "judging"}, turns < MaxTurns, Stage' = "turn", turns' = turns + 1,
         UNCHANGED <<declared, Result>>
  PROVE  Promise!AgentNext
BY DEF Promise!AgentNext, Promise!Begin, Stage, Result

LEMMA PromiseJudge ==
  ASSUME Stage = "turn", declared[turns] # Nothing, Stage' = "judging",
         UNCHANGED <<turns, declared, Result>>
  PROVE  Promise!AgentNext
BY DEF Promise!AgentNext, Promise!Judge, Stage, Result

LEMMA PromiseReturn ==
  ASSUME Stage = "judging", NEW passed \in BOOLEAN, NEW done,
         done = (passed /\ declared[turns] = "completed"), done \/ turns = MaxTurns,
         Result' = [status |-> declared[turns], turns |-> turns, first |-> done /\ turns = 1],
         Stage' = "ended", UNCHANGED <<turns, declared>>
  PROVE  Promise!AgentNext
BY DEF Promise!AgentNext, Promise!Return, Stage, Result

LEMMA PromiseRaise ==
  ASSUME Stage # "ended", Stage' = "ended", Result' = Raised, UNCHANGED <<turns, declared>>
  PROVE  Promise!AgentNext
BY DEF Promise!AgentNext, Promise!Raise, Stage, Result, Raised

LEMMA PromiseStutter ==
  ASSUME UNCHANGED <<Stage, turns, declared, Result>>
  PROVE  UNCHANGED Promise!agentVars
BY DEF Promise!agentVars, Stage, Result

Kept == [Promise!AgentNext]_(Promise!agentVars)

LEMMA KeptClient ==
  ASSUME AppInv, UNCHANGED <<phase, turns, outcome, declared>>
  PROVE  Kept
<1>. Stage' = Stage /\ Result' = Result
  <2>1. Settled' = Settled
    BY DEF Settled, Over, Raised
  <2>. QED
    BY <2>1 DEF Stage, Result
<1>. QED
  BY PromiseStutter DEF Kept

(* The run is given up: the one step that a caller sees, whatever is left  *)
(* to be done.                                                             *)
LEMMA KeptRaised ==
  ASSUME AppInv, ~Settled \/ outcome = Raised, Over', outcome' = Raised,
         UNCHANGED <<turns, declared>>
  PROVE  Kept
<1>1. Settled' /\ Stage' = "ended" /\ Result' = Raised
  <2>1. Settled'
    BY DEF Settled, Raised
  <2>. QED
    BY <2>1, SeenNext
<1>2. CASE Settled
  <2>1. Stage' = Stage /\ Result' = Result
    BY <1>1, <1>2, Seen
  <2>. QED
    BY <2>1, PromiseStutter DEF Kept
<1>3. CASE ~Settled
  <2>1. /\ phase \in {"initialize", "thread", "turn", "events", "begin", "judging", "exit",
                     "interrupt", "stopping", "ended"}
        /\ phase \in {"exit", "interrupt"} => outcome = Raised
    BY DEF AppInv, ClientOK, Awaits
  <2>2. /\ phase # "ended" /\ phase \notin {"exit", "interrupt"}
        /\ phase = "stopping" => outcome # Raised
    BY <1>3, <2>1 DEF Settled, Over
  <2>3. Stage # "ended"
    BY <2>1, <2>2, Seen
  <2>. QED
    BY <1>1, <2>3, PromiseRaise DEF Kept
<1>. QED
  BY <1>2, <1>3

LEMMA KeptFinish ==
  ASSUME AppInv, ~Over, Finish(Raised), UNCHANGED <<turns, declared>>
  PROVE  Kept
BY Seen, KeptRaised DEF Finish, Over

LEMMA KeptGiveUp == ASSUME AppInv, ~Over \/ phase = "exit", GiveUp PROVE Kept
<1>1. ~Settled \/ outcome = Raised
  BY Seen, RaisedPhases
<1>. QED
  BY <1>1, KeptRaised DEF GiveUp, server, Over

LEMMA KeptInterrupted == ASSUME AppInv, Interrupted \/ Exited PROVE Kept
BY RaisedPhases, KeptRaised DEF Interrupted, Exited, server, Over

LEMMA KeptOutputEnds == ASSUME AppInv, OutputEnds PROVE Kept
<1>1. ~Settled
  BY Seen DEF OutputEnds, AppInv, ReadingOK, Awaits, Over
<1>. QED
  BY <1>1, KeptRaised DEF OutputEnds, server, Over

LEMMA KeptDrained == ASSUME AppInv, Drained PROVE Kept
<1>1. CASE Finish(Raised)
  BY <1>1, KeptFinish DEF Drained, Sending, server, Awaits, Over
<1>2. CASE UNCHANGED <<phase, reading, outcome>>
  BY <1>2, KeptClient DEF Drained, server
<1>. QED
  BY <1>1, <1>2 DEF Drained

LEMMA KeptCancelStop == ASSUME AppInv, CancelStop PROVE Kept
<1>1. /\ phase = "stopping" /\ phase' \in {"interrupt", "stopping", "ended"}
      /\ outcome' = Raised /\ UNCHANGED <<turns, declared>>
  BY DEF CancelStop, server
<1>2. ~Settled \/ outcome = Raised
  BY <1>1 DEF Settled
<1>. QED
  BY <1>1, <1>2, KeptRaised DEF Over

LEMMA KeptCancelTask == ASSUME AppInv, CancelTask PROVE Kept
<1>1. ASSUME reading \/ Sending \/ phase = "exit", GiveUp PROVE Kept
  BY <1>1, KeptGiveUp DEF AppInv, ReadingOK, Sending, Awaits, Over
<1>. QED
  BY <1>1, KeptInterrupted, KeptCancelStop DEF CancelTask

(* The run is returned once its process is stopped.                        *)
LEMMA KeptLeave == ASSUME AppInv, Leave PROVE Kept
<1>1. /\ phase = "stopping" /\ phase' = "ended" /\ UNCHANGED <<turns, outcome, declared>>
  BY DEF Leave, server
<1>2. CASE outcome = Raised
  BY <1>1, <1>2, KeptRaised DEF Over
<1>3. CASE outcome # Raised
  <2>1. Judged
    BY <1>1, <1>3 DEF AppInv, ClientOK
  <2>2. PICK passed \in BOOLEAN :
          LET done == passed /\ declared[turns] = "completed" IN
          /\ done \/ turns = MaxTurns
          /\ outcome = [status |-> declared[turns], turns |-> turns, first |-> done /\ turns = 1]
    BY <2>1 DEF Judged
  <2>3. Stage = "judging"
    BY <1>1, <1>3, Seen
  <2>4. Stage' = "ended" /\ Result' = outcome
    <3>1. Settled'
      BY <1>1 DEF Settled
    <3>. QED
      BY <1>1, <3>1, SeenNext
  <2>. QED
    BY <1>1, <2>2, <2>3, <2>4, PromiseReturn DEF Kept
<1>. QED
  BY <1>2, <1>3

LEMMA KeptAnswered ==
  ASSUME AppInv, reading, NEW line \in Lines, LineOK(line, declared), line.id = identifier,
         phase # "events", Answered(line), UNCHANGED declared
  PROVE  Kept
<1>1. phase \in {"initialize", "thread", "turn"} /\ ~Over /\ ClientOK
  BY DEF AppInv, ReadingOK, Awaits, Over
<1>2. CASE ~Accepted(line)
  <2>1. Finish(Raised) /\ UNCHANGED turns
    BY <1>2 DEF Answered
  <2>. QED
    BY <1>1, <2>1, KeptFinish
<1>3. CASE Accepted(line) /\ phase = "initialize"
  <2>1. phase' = "thread" /\ UNCHANGED turns
    BY <1>3 DEF Answered
  <2>2. Stage' = Stage /\ Result' = Result
    BY <1>1, <1>3, <2>1, Seen, SeenNext
  <2>. QED
    BY <2>1, <2>2, PromiseStutter DEF Kept
<1>4. CASE Accepted(line) /\ phase = "thread"
  <2>1. phase' = "begin" /\ UNCHANGED turns /\ turns = 0
    BY <1>1, <1>4 DEF Answered, ClientOK
  <2>2. Stage' = Stage /\ Result' = Result
    BY <1>1, <1>4, <2>1, Seen, SeenNext
  <2>. QED
    BY <2>1, <2>2, PromiseStutter DEF Kept
<1>5. CASE Accepted(line) /\ phase = "turn"
  <2>1. phase' = "events" /\ turns' = turns + 1 /\ turns < MaxTurns
    BY <1>1, <1>5 DEF Answered, ClientOK
  <2>2. Stage \in {"opening", "judging"} /\ Stage' = "turn" /\ Result' = Result
    BY <1>1, <1>5, <2>1, Seen, SeenNext
  <2>. QED
    BY <2>1, <2>2, PromiseBegin DEF Kept
<1>. QED
  BY <1>1, <1>2, <1>3, <1>4, <1>5

LEMMA KeptHandle ==
  ASSUME AppInv, phase = "events", NEW line \in Lines, LineOK(line, declared), Handle(line),
         UNCHANGED declared
  PROVE  Kept
<1>1. UNCHANGED turns /\ ~Over /\ turnId = turns
  BY DEF Handle, AppInv, ClientOK, Over
<1>2. CASE line.method = "model/rerouted"
  <2>1. ~EndsTurn(line)
    BY <1>2 DEF EndsTurn
  <2>2. Finish(Raised)
    BY <1>2, <2>1, Zenon DEF Handle
  <2>. QED
    BY <1>1, <2>2, KeptFinish
<1>3. CASE line.method # "model/rerouted" /\ EndsTurn(line)
  <2>1. phase' = "judging"
    BY <1>3 DEF Handle
  <2>2. declared[turns] # Nothing
    BY <1>1, <1>3 DEF EndsTurn, LineOK
  <2>3. Stage = "turn" /\ Stage' = "judging" /\ Result' = Result
    BY <1>1, <2>1, Seen, SeenNext
  <2>. QED
    BY <1>1, <2>2, <2>3, PromiseJudge DEF Kept
<1>4. CASE line.method # "model/rerouted" /\ ~EndsTurn(line)
  <2>1. UNCHANGED <<phase, outcome>>
    BY <1>4 DEF Handle
  <2>. QED
    BY <1>1, <2>1, KeptClient
<1>. QED
  BY <1>2, <1>3, <1>4

LEMMA KeptReadLine == ASSUME AppInv, ReadLine PROVE Kept
<1>1. /\ reading /\ lines # <<>> /\ UNCHANGED declared /\ ~Over /\ phase \in Awaits
  BY DEF ReadLine, AppInv, ReadingOK, Awaits, Over
<1>2. PICK line : line = Head(lines)
  OBVIOUS
<1>3. line \in Lines /\ LineOK(line, declared)
  BY <1>1, <1>2, StreamsFacts, LinesTaken
<1>4. CASE line.method = "garbage"
  <2>1. line.method # Nothing
    BY <1>4, AppServerAssumption
  <2>2. Finish(Raised) /\ UNCHANGED turns
    BY <1>2, <1>4, <2>1, Zenon DEF ReadLine
  <2>. QED
    BY <1>1, <2>2, KeptFinish
<1>5. CASE line.method # "garbage" /\ phase # "events" /\ line.id = identifier
  <2>1. Answered(line)
    BY <1>2, <1>5 DEF ReadLine
  <2>. QED
    BY <1>1, <1>3, <1>5, <2>1, KeptAnswered
<1>6. CASE line.method # "garbage" /\ phase # "events" /\ line.id # identifier
  <2>1. UNCHANGED <<turns, phase, outcome>>
    BY <1>2, <1>6 DEF ReadLine
  <2>. QED
    BY <1>1, <2>1, KeptClient
<1>7. CASE phase = "events" /\ line.method = Nothing
  <2>1. UNCHANGED <<turns, phase, outcome>>
    BY <1>2, <1>7, AppServerAssumption DEF ReadLine
  <2>. QED
    BY <1>1, <2>1, KeptClient
<1>8. CASE phase = "events" /\ line.method \notin {Nothing, "garbage"}
  <2>1. Handle(line)
    BY <1>2, <1>8 DEF ReadLine
  <2>. QED
    BY <1>1, <1>3, <1>8, <2>1, KeptHandle
<1>. QED
  BY <1>4, <1>5, <1>6, <1>7, <1>8

LEMMA KeptValidate == ASSUME AppInv, Validate PROVE Kept
<1>1. phase = "judging" /\ UNCHANGED <<turns, declared>> /\ ~Over /\ turns >= 1 /\ turns \in Nat
  BY DEF Validate, server, AppInv, ClientOK, Over
<1>2. CASE Finish(Raised)
  BY <1>1, <1>2, KeptFinish
<1>3. CASE ~Finish(Raised)
  <2>1. Stage = "judging" /\ Result = Nothing
    BY <1>1, Seen
  <2>2. CASE phase' = "stopping" /\ Judged'
    <3>1. outcome'.turns = turns
      BY <1>1, <2>2 DEF Judged
    <3>2. outcome' # Raised
      BY <1>1, <3>1 DEF Raised
    <3>3. Stage' = Stage /\ Result' = Result
      BY <2>1, <2>2, <3>2, SeenNext
    <3>. QED
      BY <1>1, <3>3, PromiseStutter DEF Kept
  <2>3. CASE phase' = "begin"
    <3>1. turns' # 0 /\ ~Over'
      BY <1>1, <2>3 DEF Over
    <3>2. Stage' = Stage /\ Result' = Result
      BY <2>1, <2>3, <3>1, SeenNext
    <3>. QED
      BY <1>1, <3>2, PromiseStutter DEF Kept
  <2>. QED
    BY <1>3, <2>2, <2>3, Validated
<1>. QED
  BY <1>2, <1>3

LEMMA KeptDeclareTurn == ASSUME AppInv, DeclareTurn PROVE Kept
<1>1. PICK t \in 1 .. agent.begun, s \in Statuses :
        /\ declared[t] = Nothing
        /\ Write(Notification("turn/completed", t, s))
        /\ declared' = [declared EXCEPT ![t] = s]
  BY DEF DeclareTurn
<1>2. UNCHANGED <<phase, turns, outcome>> /\ ~Over
  BY <1>1 DEF DeclareTurn, Write, client
<1>3. t \in 1 .. MaxTurns /\ t <= turns + 1
  BY <1>2, BegunIsTurn, AppServerAssumption
<1>4. Stage' = Stage /\ Result' = Result
  <2>1. Settled' = Settled
    BY <1>2 DEF Settled, Over, Raised
  <2>. QED
    BY <1>2, <2>1 DEF Stage, Result
<1>. QED
  BY <1>1, <1>2, <1>3, <1>4, PromiseDeclare DEF Kept

LEMMA NextKept == ASSUME AppInv, [Next]_vars PROVE Kept
<1>1. ASSUME Run PROVE Kept
  <2>1. ASSUME StartReading PROVE Kept
    <3>1. phase \in Awaits /\ ~Over
      BY <2>1 DEF StartReading, AboutToRead, Awaits, Over
    <3>2. CASE cancelled \/ late
      BY <2>1, <3>1, <3>2, KeptGiveUp DEF StartReading
    <3>3. CASE ~(cancelled \/ late)
      BY <2>1, <3>3, KeptClient DEF StartReading, server
    <3>. QED
      BY <3>2, <3>3
  <2>2. ASSUME reading, GiveUp PROVE Kept
    BY <2>2, KeptGiveUp DEF AppInv, ReadingOK, Awaits, Over
  <2>3. ASSUME EndOfFile PROVE Kept
    BY <2>3, KeptOutputEnds DEF EndOfFile
  <2>4. ASSUME NextPending PROVE Kept
    <3>1. phase = "events" /\ pending # <<>> /\ Handle(Head(pending)) /\ UNCHANGED declared /\ ~Over
      BY <2>4 DEF NextPending, server, Over
    <3>. QED
      BY <3>1, StreamsFacts, LinesTaken, KeptHandle
  <2>5. ASSUME BeginTurn PROVE Kept
    <3>1. phase = "begin" /\ ~Over
      BY <2>5 DEF BeginTurn, Over
    <3>2. CASE cancelled
      BY <2>5, <3>1, <3>2, KeptGiveUp DEF BeginTurn
    <3>3. CASE ~cancelled
      <4>1. phase' = "turn" /\ UNCHANGED <<turns, declared>>
        BY <2>5, <3>3 DEF BeginTurn, server
      <4>2. Stage' = Stage /\ Result' = Result
        BY <3>1, <4>1, Seen, SeenNext
      <4>. QED
        BY <4>1, <4>2, PromiseStutter DEF Kept
    <3>. QED
      BY <3>2, <3>3
  <2>6. ASSUME Terminate \/ Kill PROVE Kept
    BY <2>6, KeptClient DEF Terminate, Kill, Stopping, client, server
  <2>. QED
    BY <1>1, <2>1, <2>2, <2>3, <2>4, <2>5, <2>6, KeptInterrupted, KeptReadLine, KeptValidate,
       KeptLeave DEF Run, TimeOut
<1>2. ASSUME \/ Exit \/ ChildEnds \/ Deadline \/ Cancel \/ Done
             \/ UNCHANGED vars
      PROVE  Kept
  BY <1>2, KeptClient DEF Exit, ChildEnds, Deadline, Cancel, Done, vars, client, server
<1>3. ASSUME TakeRequest \/ Answer \/ Extra PROVE Kept
  BY <1>3, KeptClient DEF TakeRequest, Answer, Extra, client
<1>4. ASSUME ClosesOutput PROVE Kept
  BY <1>4, KeptOutputEnds DEF ClosesOutput
<1>. QED
  BY <1>1, <1>2, <1>3, <1>4, KeptDrained, KeptInterrupted, KeptCancelTask, KeptDeclareTurn
     DEF Next, Agent

(* The client keeps the promise of AgentRun: whatever is queued, repeated, *)
(* declared early or answered late, turns are begun and judged one at a    *)
(* time, and what is returned is what was declared of the last of them.    *)
THEOREM AppServerImplementsAgentRun == Spec => ImplementsAgentRun
<1>1. Init => Promise!AgentInit
  <2>1. Init => Stage = "opening" /\ Result = Nothing
    BY Seen DEF Init, Over
  <2>. QED
    BY <2>1 DEF Init, Promise!AgentInit, Stage, Result
<1>2. AppInv /\ [Next]_vars => [Promise!AgentNext]_(Promise!agentVars)
  BY NextKept DEF Kept
<1>. QED
  BY <1>1, <1>2, AppInvariant, PTL DEF Spec, ImplementsAgentRun, Promise!AgentSpec

-----------------------------------------------------------------------------
(* No message is lost, repeated or overtaken.                              *)

(* Beside the property: while the loop over events reads the pipe, the     *)
(* queue is empty.                                                         *)
TraceOK ==
  /\ handled \in Seq(Lines)
  /\ HandledInOrder
  /\ reading /\ phase = "events" => pending = <<>>

(* A line is written behind all others.                                    *)
LEMMA ConveysWritten ==
  ASSUME NEW way \in Seq(Lines), said \in Seq(Lines), Conveys(way, said), NEW line \in Lines,
         line.no = 0
  PROVE  Conveys(Append(way, Numbered(line)),
                 IF IsNotice(line) THEN Append(said, Numbered(line)) ELSE said)
<1> DEFINE new == Append(way, Numbered(line))
           notices == {i \in DOMAIN way : IsNotice(way[i])}
<1>1. PICK x : x = Numbered(line)
  OBVIOUS
<1>2. /\ DOMAIN new = 1 .. Len(way) + 1 /\ DOMAIN way = 1 .. Len(way) /\ Len(way) \in Nat
      /\ \A i \in DOMAIN way : new[i] = way[i]
      /\ new[Len(way) + 1] = x
  BY <1>1
<1>3. IsNotice(x) <=> IsNotice(line)
  BY <1>1 DEF Numbered, IsNotice, Lines
<1>4. /\ \A i \in notices : way[i].no \in DOMAIN said /\ said[way[i].no] = way[i]
      /\ \A i, j \in notices : i < j => way[i].no < way[j].no
      /\ \A n \in DOMAIN said : \E i \in notices : way[i].no = n
  BY DEF Conveys
<1>5. CASE ~IsNotice(line)
  <2>1. {i \in DOMAIN new : IsNotice(new[i])} = notices
    BY <1>2, <1>3, <1>5
  <2>2. \A i \in notices : new[i] = way[i]
    BY <1>2
  <2>. QED
    BY <1>4, <1>5, <2>1, <2>2 DEF Conveys
<1>6. CASE IsNotice(line)
  <2>1. x.no = Len(said) + 1 /\ Len(said) \in Nat /\ DOMAIN said = 1 .. Len(said)
    BY <1>1, <1>6 DEF Numbered, Lines
  <2> DEFINE written == Append(said, x)
  <2>2. /\ DOMAIN written = 1 .. Len(said) + 1
        /\ \A n \in DOMAIN said : written[n] = said[n]
        /\ written[Len(said) + 1] = x
    BY <2>1
  <2>3. {i \in DOMAIN new : IsNotice(new[i])} = notices \cup {Len(way) + 1}
    BY <1>2, <1>3, <1>6
  <2>4. ASSUME NEW i \in notices
        PROVE  /\ new[i] = way[i] /\ i \in 1 .. Len(way)
               /\ way[i].no \in 1 .. Len(said) /\ written[way[i].no] = way[i]
    BY <1>2, <1>4, <2>1, <2>2
  <2>. HIDE DEF new, notices, written
  <2>5. ASSUME NEW i \in notices \cup {Len(way) + 1}
        PROVE  new[i].no \in DOMAIN written /\ written[new[i].no] = new[i]
    BY <1>2, <2>1, <2>2, <2>4
  <2>6. ASSUME NEW i \in notices \cup {Len(way) + 1}, NEW j \in notices \cup {Len(way) + 1}, i < j
        PROVE  new[i].no < new[j].no
    BY <1>2, <1>4, <2>1, <2>4, <2>6
  <2>7. ASSUME NEW n \in DOMAIN written PROVE \E i \in notices \cup {Len(way) + 1} : new[i].no = n
    <3>1. CASE n = Len(said) + 1
      BY <1>2, <2>1, <3>1
    <3>2. CASE n # Len(said) + 1
      <4>1. n \in DOMAIN said
        BY <2>1, <2>2, <3>2
      <4>. QED
        BY <1>4, <2>4, <4>1
    <3>. QED
      BY <3>1, <3>2
  <2>8. Conveys(new, written)
    BY <2>3, <2>5, <2>6, <2>7 DEF Conveys
  <2>. QED
    BY <1>1, <1>6, <2>8 DEF new, written
<1>. QED
  BY <1>5, <1>6

(* A line that is no notification may be dropped anywhere.                 *)
LEMMA ConveysDropped ==
  ASSUME NEW a \in Seq(Lines), NEW x \in Lines, NEW b \in Seq(Lines), ~IsNotice(x), NEW written,
         Conveys(a \o <<x>> \o b, written)
  PROVE  Conveys(a \o b, written)
<1> DEFINE old == a \o <<x>> \o b
           new == a \o b
           N(way) == {i \in DOMAIN way : IsNotice(way[i])}
           Before(i) == IF i <= Len(a) THEN i ELSE i + 1
<1>1. /\ Len(a) \in Nat /\ Len(b) \in Nat
      /\ DOMAIN old = 1 .. Len(a) + 1 + Len(b) /\ DOMAIN new = 1 .. Len(a) + Len(b)
      /\ \A i \in 1 .. Len(a) : old[i] = a[i] /\ new[i] = a[i]
      /\ old[Len(a) + 1] = x
      /\ \A i \in 1 .. Len(b) : old[Len(a) + 1 + i] = b[i] /\ new[Len(a) + i] = b[i]
  OBVIOUS
<1>2. ASSUME NEW i \in DOMAIN new PROVE Before(i) \in DOMAIN old /\ new[i] = old[Before(i)]
  <2>1. CASE i <= Len(a)
    BY <1>1, <2>1
  <2>2. CASE i > Len(a)
    <3>1. PICK d \in 1 .. Len(b) : i = Len(a) + d /\ Len(a) + 1 + d = i + 1
      <4>1. i - Len(a) \in 1 .. Len(b)
        BY <1>1, <2>2
      <4>. QED
        BY <1>1, <4>1
    <3>2. Before(i) = i + 1 /\ i + 1 \in 1 .. Len(a) + 1 + Len(b)
      BY <1>1, <2>2
    <3>. HIDE DEF old, new, Before
    <3>3. old[i + 1] = b[d] /\ new[i] = b[d]
      BY <1>1, <3>1
    <3>. QED
      BY <1>1, <3>2, <3>3
  <2>. QED
    BY <1>1, <2>1, <2>2
<1>3. ASSUME NEW k \in N(old) PROVE \E i \in DOMAIN new : Before(i) = k
  <2>1. k # Len(a) + 1 /\ k \in 1 .. Len(a) + 1 + Len(b)
    BY <1>1
  <2>2. CASE k <= Len(a)
    BY <1>1, <2>1, <2>2
  <2>3. CASE k > Len(a)
    <3>1. k - 1 \in DOMAIN new /\ Before(k - 1) = k
      BY <1>1, <2>1, <2>3
    <3>. QED
      BY <3>1
  <2>. QED
    BY <1>1, <2>1, <2>2, <2>3
<1>4. ASSUME NEW i \in DOMAIN new, NEW j \in DOMAIN new, i < j PROVE Before(i) < Before(j)
  BY <1>1, <1>4
<1>. HIDE DEF old, new, Before
<1>5. \A i \in N(new) : Before(i) \in N(old) /\ new[i] = old[Before(i)]
  BY <1>2
<1>6. /\ \A i \in N(old) : old[i].no \in DOMAIN written /\ written[old[i].no] = old[i]
      /\ \A i, j \in N(old) : i < j => old[i].no < old[j].no
      /\ \A n \in DOMAIN written : \E i \in N(old) : old[i].no = n
  BY DEF Conveys, old
<1>7. ASSUME NEW n \in DOMAIN written PROVE \E i \in N(new) : new[i].no = n
  <2>1. PICK k \in N(old) : old[k].no = n
    BY <1>6
  <2>2. PICK i \in DOMAIN new : Before(i) = k
    BY <1>3
  <2>. QED
    BY <1>2, <2>1, <2>2
<1>8. \A i, j \in N(new) : i < j => new[i].no < new[j].no
  BY <1>4, <1>5, <1>6
<1>9. Conveys(new, written)
  BY <1>5, <1>6, <1>7, <1>8 DEF Conveys
<1>. QED
  BY <1>9 DEF new

(* A line on its way through the pipe and the queue to the loop.           *)
LEMMA Written ==
  ASSUME NEW h \in Seq(Lines), NEW p \in Seq(Lines), NEW l \in Seq(Lines), NEW x \in Lines
  PROVE  h \o p \o Append(l, x) = Append(h \o p \o l, x)
<1>1. h \o p \in Seq(Lines) /\ h \o p \o l \in Seq(Lines) /\ <<x>> \in Seq(Lines)
  OBVIOUS
<1>2. Append(l, x) = l \o <<x>> /\ Append(h \o p \o l, x) = (h \o p \o l) \o <<x>>
  BY <1>1, AppendIsConcat
<1>. QED
  BY <1>1, <1>2, ConcatAssociative, SMTT(30)

LEMMA First ==
  ASSUME NEW h \in Seq(Lines), NEW p \in Seq(Lines), NEW l \in Seq(Lines), NEW x \in Lines
  PROVE  h \o p \o (<<x>> \o l) = h \o p \o <<x>> \o l
<1>1. h \o p \in Seq(Lines) /\ <<x>> \in Seq(Lines)
  OBVIOUS
<1>. QED
  BY <1>1, ConcatAssociative, SMTT(30)

LEMMA Queued ==
  ASSUME NEW h \in Seq(Lines), NEW p \in Seq(Lines), NEW l \in Seq(Lines), NEW x \in Lines
  PROVE  h \o Append(p, x) \o l = h \o p \o <<x>> \o l
<1>1. <<x>> \in Seq(Lines) /\ Append(p, x) = p \o <<x>>
  BY AppendIsConcat
<1>. QED
  BY <1>1, ConcatAssociative, SMTT(30)

LEMMA Looked ==
  ASSUME NEW h \in Seq(Lines), NEW p \in Seq(Lines), NEW l \in Seq(Lines), NEW x \in Lines
  PROVE  Append(h, x) \o p \o l = h \o (<<x>> \o p) \o l
<1>1. <<x>> \in Seq(Lines) /\ Append(h, x) = h \o <<x>>
  BY AppendIsConcat
<1>. QED
  BY <1>1, ConcatAssociative, SMTT(30)

LEMMA HeadAndTail ==
  ASSUME NEW s \in Seq(Lines), s # <<>>
  PROVE  \E x \in Lines, r \in Seq(Lines) : Head(s) = x /\ Tail(s) = r /\ s = <<x>> \o r
<1>1. Head(s) \in Lines /\ Tail(s) \in Seq(Lines) /\ s = <<Head(s)>> \o Tail(s)
  OBVIOUS
<1>. QED
  BY <1>1

LEMMA TraceInit == ASSUME Init PROVE TraceOK
<1>1. handled \o pending \o lines = <<>> /\ handled = <<>> /\ said = <<>> /\ usage = Nothing
      /\ events = <<>> /\ ~reading /\ Len(<<>>) = 0
  BY DEF Init
<1>2. Conveys(handled \o pending \o lines, said)
  BY <1>1 DEF Conveys
<1>3. Updates = {} /\ handled \in Seq(Lines)
  BY <1>1 DEF Updates
<1>4. events = SubSeq(handled, 1, IF Len(handled) < MaxEvents THEN Len(handled) ELSE MaxEvents)
  <2>1. (IF Len(handled) < MaxEvents THEN Len(handled) ELSE MaxEvents) = 0
    BY <1>1, AppServerAssumption
  <2>. QED
    BY <1>1, <2>1
<1>5. HandledInOrder
  BY <1>1, <1>2, <1>3, <1>4 DEF HandledInOrder
<1>. QED
  BY <1>1, <1>3, <1>5 DEF TraceOK

(* What the loop over events is told of one more message.                  *)
LEMMA OneMoreHandled ==
  ASSUME TraceOK, NEW line \in Lines, Handle(line),
         Conveys(handled' \o pending' \o lines', said'), ~(reading' /\ phase' = "events")
  PROVE  TraceOK'
<1>1. /\ handled' = Append(handled, line) /\ handled \in Seq(Lines)
      /\ events' = IF Len(events) < MaxEvents THEN Append(events, line) ELSE events
      /\ usage' = IF line.method = "usage" THEN line.turn ELSE usage
  BY DEF Handle, TraceOK
<1>2. /\ handled' \in Seq(Lines) /\ Len(handled') = Len(handled) + 1 /\ Len(handled) \in Nat
      /\ DOMAIN handled = 1 .. Len(handled) /\ DOMAIN handled' = 1 .. Len(handled) + 1
      /\ \A i \in 1 .. Len(handled) : handled'[i] = handled[i]
      /\ handled'[Len(handled) + 1] = line
  BY <1>1
<1>3. events' = SubSeq(handled', 1, IF Len(handled') < MaxEvents THEN Len(handled') ELSE MaxEvents)
  <2>1. MaxEvents \in Nat
    BY AppServerAssumption
  <2>2. CASE Len(handled) < MaxEvents
    <3>1. events = SubSeq(handled, 1, Len(handled)) /\ events = handled
      BY <1>2, <2>2 DEF TraceOK, HandledInOrder
    <3>2. events' = handled'
      BY <1>1, <2>2, <3>1
    <3>3. (IF Len(handled') < MaxEvents THEN Len(handled') ELSE MaxEvents) = Len(handled')
      BY <1>2, <2>1, <2>2
    <3>. QED
      BY <1>2, <3>2, <3>3
  <2>3. CASE ~(Len(handled) < MaxEvents)
    <3>1. events = SubSeq(handled, 1, MaxEvents) /\ Len(events) = MaxEvents
      BY <1>2, <2>1, <2>3 DEF TraceOK, HandledInOrder
    <3>2. ~(Len(handled') < MaxEvents) /\ events' = events
      BY <1>1, <1>2, <2>1, <2>3, <3>1
    <3>3. SubSeq(handled', 1, MaxEvents) = SubSeq(handled, 1, MaxEvents)
      BY <1>1, <1>2, <2>1, <2>3
    <3>. QED
      BY <3>1, <3>2, <3>3
  <2>. QED
    BY <2>2, <2>3
<1>4. IF Updates' = {} THEN usage' = Nothing
      ELSE \E i \in Updates' : usage' = handled'[i].turn /\ \A j \in Updates' : j <= i
  <2>1. Updates \subseteq 1 .. Len(handled)
    BY <1>2 DEF Updates
  <2>2. IF Updates = {} THEN usage = Nothing
        ELSE \E i \in Updates : usage = handled[i].turn /\ \A j \in Updates : j <= i
    BY DEF TraceOK, HandledInOrder
  <2>3. CASE line.method = "usage"
    <3>1. Updates' = Updates \cup {Len(handled) + 1}
      BY <1>2, <2>3 DEF Updates
    <3>2. usage' = handled'[Len(handled) + 1].turn /\ \A j \in Updates' : j <= Len(handled) + 1
      BY <1>1, <1>2, <2>1, <2>3, <3>1
    <3>. QED
      BY <3>1, <3>2
  <2>4. CASE line.method # "usage"
    <3>1. Updates' = Updates /\ usage' = usage
      BY <1>1, <1>2, <2>4 DEF Updates
    <3>. QED
      BY <1>2, <2>1, <2>2, <3>1
  <2>. QED
    BY <2>3, <2>4
<1>. QED
  BY <1>2, <1>3, <1>4 DEF TraceOK, HandledInOrder

(* Nothing is handled: a line that is no notification is dropped, one is   *)
(* written, or one is queued.                                              *)
LEMMA SameHandled ==
  ASSUME TraceOK, UNCHANGED <<handled, events, usage>>,
         Conveys(handled' \o pending' \o lines', said'),
         reading' /\ phase' = "events" => pending' = <<>>
  PROVE  TraceOK'
BY DEF TraceOK, HandledInOrder, Updates

LEMMA NothingRead ==
  ASSUME TraceOK, UNCHANGED <<handled, events, usage, pending, lines, said>>,
         reading' /\ phase' = "events" => pending' = <<>>
  PROVE  TraceOK'
BY SameHandled DEF TraceOK, HandledInOrder

LEMMA AgentWrites ==
  ASSUME AppInv, Answer \/ DeclareTurn \/ Extra
  PROVE  \E line \in Lines : line.no = 0 /\ Write(line) /\ UNCHANGED client
<1>1. CASE Answer
  <2>1. PICK status \in {"result", "empty", "error"} :
          Write(Line(agent.owes, Nothing, agent.begun, status))
    BY <1>1 DEF Answer
  <2>2. agent \in [owes : Nat \cup {Nothing}, begun : Nat, extras : Nat] /\ UNCHANGED client
    BY <1>1, <2>1, PipesFacts DEF Write, PipesOK, Answer
  <2>3. PICK line : line = Line(agent.owes, Nothing, agent.begun, status)
    OBVIOUS
  <2>4. line \in Lines /\ line.no = 0
    BY <2>2, <2>3 DEF Line, Lines, Methods
  <2>. QED
    BY <2>1, <2>2, <2>3, <2>4
<1>2. CASE DeclareTurn
  <2>1. PICK t \in 1 .. agent.begun, s \in Statuses : Write(Notification("turn/completed", t, s))
    BY <1>2 DEF DeclareTurn
  <2>2. UNCHANGED client /\ t \in Nat
    BY <1>2, <2>1, PipesFacts DEF Write, PipesOK, DeclareTurn
  <2>3. PICK line : line = Notification("turn/completed", t, s)
    OBVIOUS
  <2>4. line \in Lines /\ line.no = 0
    BY <2>2, <2>3 DEF Notification, Line, Lines, Methods
  <2>. QED
    BY <2>1, <2>2, <2>3, <2>4
<1>3. CASE Extra
  <2>1. PICK line :
          /\ Write(line)
          /\ \/ \E method \in {"item", "usage", "model/rerouted", "garbage"} :
                  line = Notification(method, agent.extras, Nothing)
             \/ line = Line(identifier, "approval", 0, Nothing)
             \/ \E t \in 1 .. agent.begun :
                  declared[t] # Nothing /\ line = Notification("turn/completed", t, declared[t])
    BY <1>3 DEF Extra
  <2>2. /\ ~Over /\ UNCHANGED client
        /\ agent \in [owes : Nat \cup {Nothing}, begun : Nat, extras : Nat] /\ identifier \in Nat
        /\ agent.begun <= MaxTurns
        /\ declared \in [1 .. MaxTurns -> Statuses \cup {Nothing}]
    BY <1>3, <2>1, BegunIsTurn, PipesFacts DEF Write, Extra, ClientOK
  <2>3. CASE \E method \in {"item", "usage", "model/rerouted", "garbage"} :
               line = Notification(method, agent.extras, Nothing)
    <3>1. line \in Lines /\ line.no = 0
      BY <2>2, <2>3 DEF Notification, Line, Lines, Methods
    <3>. QED
      BY <2>1, <2>2, <3>1
  <2>4. CASE line = Line(identifier, "approval", 0, Nothing)
    <3>1. line \in Lines /\ line.no = 0
      BY <2>2, <2>4 DEF Line, Lines, Methods
    <3>. QED
      BY <2>1, <2>2, <3>1
  <2>5. CASE \E t \in 1 .. agent.begun :
               declared[t] # Nothing /\ line = Notification("turn/completed", t, declared[t])
    <3>1. PICK t \in 1 .. agent.begun :
            declared[t] # Nothing /\ line = Notification("turn/completed", t, declared[t])
      BY <2>5
    <3>2. t \in 1 .. MaxTurns /\ t \in Nat /\ declared[t] \in Statuses \cup {Nothing}
      BY <2>2, AppServerAssumption
    <3>3. line \in Lines /\ line.no = 0
      BY <3>1, <3>2 DEF Notification, Line, Lines, Methods
    <3>. QED
      BY <2>1, <2>2, <3>3
  <2>. QED
    BY <2>1, <2>3, <2>4, <2>5
<1>. QED
  BY <1>1, <1>2, <1>3

LEMMA TraceWritten == ASSUME AppInv, TraceOK, Answer \/ DeclareTurn \/ Extra PROVE TraceOK'
<1>1. PICK line \in Lines : line.no = 0 /\ Write(line) /\ UNCHANGED client
  BY AgentWrites
<1>2. /\ handled \in Seq(Lines) /\ pending \in Seq(Lines) /\ lines \in Seq(Lines)
      /\ said \in Seq(Lines)
  BY <1>1, PipesFacts DEF Write, TraceOK, PipesOK
<1>3. Conveys(handled \o pending \o lines, said) /\ handled \o pending \o lines \in Seq(Lines)
  BY <1>2 DEF TraceOK, HandledInOrder
<1>4. Conveys(Append(handled \o pending \o lines, Numbered(line)), said')
  BY <1>1, <1>2, <1>3, ConveysWritten DEF Write
<1>5. handled \o pending \o Append(lines, Numbered(line))
        = Append(handled \o pending \o lines, Numbered(line))
  <2>1. Numbered(line) \in Lines
    BY <1>2, NumberedLine
  <2>. QED
    BY <1>2, <2>1, Written, SMTT(30)
<1>6. /\ UNCHANGED <<handled, events, usage, pending, reading, phase>>
      /\ lines' = Append(lines, Numbered(line))
  BY <1>1 DEF client, Write
<1>. QED
  BY <1>4, <1>5, <1>6, SameHandled DEF TraceOK

(* What ReadLine does to the way of a line, in each of its cases.          *)
LEMMA TraceReadLine == ASSUME AppInv, TraceOK, ReadLine PROVE TraceOK'
<1>1. /\ reading /\ phase \in Awaits /\ ~Over /\ lines # <<>> /\ lines' = Tail(lines)
      /\ said' = said
  BY DEF ReadLine, AppInv, ReadingOK, Awaits, Over
<1>2. handled \in Seq(Lines) /\ pending \in Seq(Lines) /\ lines \in Seq(Lines)
  BY <1>1, PipesFacts DEF TraceOK, PipesOK
<1>3. PICK line \in Lines, rest \in Seq(Lines) :
        Head(lines) = line /\ lines' = rest /\ lines = <<line>> \o rest
  BY <1>1, <1>2, HeadAndTail
<1>4. Conveys(handled \o pending \o <<line>> \o rest, said)
  <2>1. Conveys(handled \o pending \o (<<line>> \o rest), said)
    BY <1>3 DEF TraceOK, HandledInOrder
  <2>2. handled \o pending \o (<<line>> \o rest) = handled \o pending \o <<line>> \o rest
    BY <1>2, First, SMTT(30)
  <2>. QED
    BY <2>1, <2>2
<1>5. ASSUME ~IsNotice(line), UNCHANGED <<handled, events, usage, pending>>,
             ~(reading' /\ phase' = "events")
      PROVE  TraceOK'
  <2>1. handled \o pending \in Seq(Lines)
    BY <1>2
  <2>2. Conveys(handled \o pending \o lines', said)
    BY <1>3, <1>4, <1>5, <2>1, ConveysDropped
  <2>. QED
    BY <1>1, <1>5, <2>2, SameHandled
<1>6. CASE line.method = "garbage"
  <2>1. UNCHANGED <<handled, events, usage, pending>> /\ ~reading'
    BY <1>3, <1>6 DEF ReadLine, Finish
  <2>. QED
    BY <1>5, <1>6, <2>1 DEF IsNotice
<1>7. CASE line.method # "garbage" /\ phase # "events" /\ line.id = identifier
  <2>1. Answered(line) /\ (Accepted(line) => reading' = FALSE)
    BY <1>3, <1>7 DEF ReadLine
  <2>2. UNCHANGED <<handled, events, usage, pending>>
    BY <2>1 DEF Answered
  <2>3. ~reading'
    BY <2>1 DEF Answered, Finish
  <2>4. ~IsNotice(line)
    BY <1>1, <1>7, PipesFacts, AppServerAssumption DEF IsNotice
  <2>. QED
    BY <1>5, <2>2, <2>3, <2>4
<1>8. CASE line.method # "garbage" /\ phase # "events" /\ line.id # identifier
  <2>1. /\ ~reading' /\ UNCHANGED <<handled, events, usage>>
        /\ pending' = IF line.method = Nothing THEN pending ELSE Append(pending, line)
    BY <1>3, <1>8 DEF ReadLine, Queue
  <2>2. CASE line.method = Nothing
    BY <1>5, <2>1, <2>2 DEF IsNotice
  <2>3. CASE line.method # Nothing
    <3>1. handled \o Append(pending, line) \o rest = handled \o pending \o <<line>> \o rest
      BY <1>2, Queued, ZenonT(30)
    <3>. QED
      BY <1>1, <1>3, <1>4, <2>1, <2>3, <3>1, SameHandled
  <2>. QED
    BY <2>2, <2>3
<1>9. CASE phase = "events" /\ line.method = Nothing
  <2>1. ~reading' /\ UNCHANGED <<handled, events, usage, pending>>
    BY <1>3, <1>9, AppServerAssumption DEF ReadLine
  <2>. QED
    BY <1>5, <1>9, <2>1 DEF IsNotice
<1>10. CASE phase = "events" /\ line.method \notin {Nothing, "garbage"}
  <2>1. Handle(line) /\ pending' = pending
    BY <1>3, <1>10 DEF ReadLine
  <2>2. pending = <<>> /\ handled' = Append(handled, line)
    BY <1>1, <1>10, <2>1 DEF TraceOK, Handle
  <2>3. ~(reading' /\ phase' = "events")
    BY <2>1 DEF Handle, Finish
  <2>4. handled' \o pending' = handled \o pending \o <<line>>
    <3>1. handled' \o <<>> = Append(handled, line) /\ handled \o <<>> = handled
      BY <1>2, <2>2
    <3>. QED
      BY <1>2, <2>1, <2>2, <3>1, AppendIsConcat
  <2>. QED
    BY <1>1, <1>3, <1>4, <2>1, <2>3, <2>4, OneMoreHandled
<1>. QED
  BY <1>6, <1>7, <1>8, <1>9, <1>10

LEMMA TraceNextPending == ASSUME AppInv, TraceOK, NextPending PROVE TraceOK'
<1>1. /\ phase = "events" /\ ~Over /\ pending # <<>> /\ Handle(Head(pending))
      /\ pending' = Tail(pending) /\ UNCHANGED <<lines, said>>
  BY DEF NextPending, Over, server
<1>2. handled \in Seq(Lines) /\ pending \in Seq(Lines) /\ lines \in Seq(Lines)
  BY <1>1, PipesFacts DEF TraceOK, PipesOK
<1>3. PICK line \in Lines, rest \in Seq(Lines) :
        Head(pending) = line /\ pending' = rest /\ pending = <<line>> \o rest
  BY <1>1, <1>2, HeadAndTail
<1>4. handled' = Append(handled, line) /\ ~(reading' /\ phase' = "events")
  BY <1>1, <1>3 DEF Handle, Finish
<1>5. handled' \o pending' \o lines = handled \o pending \o lines
  <2>1. Append(handled, line) \o rest \o lines = handled \o (<<line>> \o rest) \o lines
    BY <1>2, Looked, SMTT(30)
  <2>. QED
    BY <1>3, <1>4, <2>1
<1>6. Conveys(handled' \o pending' \o lines', said')
  BY <1>1, <1>5 DEF TraceOK, HandledInOrder
<1>. QED
  BY <1>1, <1>3, <1>4, <1>6, OneMoreHandled

LEMMA TraceStep == ASSUME AppInv, TraceOK, [Next]_vars PROVE TraceOK'
<1>1. ASSUME GiveUp PROVE TraceOK'
  BY <1>1, NothingRead DEF GiveUp, Finish, server
<1>2. ASSUME StartReading PROVE TraceOK'
  <2>1. CASE cancelled \/ late
    BY <1>1, <1>2, <2>1 DEF StartReading
  <2>2. CASE ~(cancelled \/ late)
    BY <1>2, <2>2, NothingRead DEF StartReading, AboutToRead, server
  <2>. QED
    BY <2>1, <2>2
<1>3. ASSUME BeginTurn PROVE TraceOK'
  <2>1. CASE cancelled
    BY <1>1, <1>3, <2>1 DEF BeginTurn
  <2>2. CASE ~cancelled
    BY <1>3, <2>2, NothingRead DEF BeginTurn, server
  <2>. QED
    BY <2>1, <2>2
<1>4. ASSUME OutputEnds \/ Exited \/ Interrupted \/ Leave \/ CancelStop PROVE TraceOK'
  <2>1. UNCHANGED <<handled, events, usage, pending, lines, said>> /\ phase' # "events"
    BY <1>4 DEF OutputEnds, Exited, Interrupted, Leave, CancelStop, server
  <2>. QED
    BY <2>1, NothingRead
<1>6. ASSUME Validate \/ Drained PROVE TraceOK'
  <2>1. UNCHANGED <<handled, events, usage, pending, lines, said>>
    BY <1>6 DEF Validate, Drained, server
  <2>2. ~reading' \/ UNCHANGED <<reading, phase, pending>>
    <3>1. CASE Finish(Raised)
      BY <3>1 DEF Finish
    <3>2. CASE Validate /\ ~Finish(Raised)
      <4>1. UNCHANGED reading /\ phase = "judging"
        BY <3>2 DEF Validate
      <4>. QED
        BY <4>1 DEF AppInv, ReadingOK, Awaits
    <3>3. CASE Drained /\ ~Finish(Raised)
      BY <2>1, <3>3 DEF Drained
    <3>. QED
      BY <1>6, <3>1, <3>2, <3>3
  <2>. QED
    BY <2>1, <2>2, NothingRead DEF TraceOK
<1>5. ASSUME \/ Terminate \/ Kill \/ Exit \/ ChildEnds \/ Deadline \/ Cancel \/ Done
             \/ TakeRequest \/ UNCHANGED vars
      PROVE  TraceOK'
  <2>1. UNCHANGED client /\ UNCHANGED <<lines, said>>
    BY <1>5 DEF Terminate, Kill, Stopping, Exit, ChildEnds, Deadline, Cancel, Done, TakeRequest,
                vars, server
  <2>. QED
    BY <2>1, NothingRead DEF client, TraceOK
<1>. QED
  BY <1>1, <1>2, <1>3, <1>4, <1>5, <1>6, TraceWritten, TraceReadLine, TraceNextPending
     DEF Next, Run, Agent, TimeOut, EndOfFile, ClosesOutput, CancelTask

(* Every notification reaches the loop over events once and in order,      *)
(* whatever the client was waiting for when it came; the events kept are   *)
(* the first, and the usage is the last one reported.                      *)
THEOREM HandlesInOrder == Spec => []HandledInOrder
<1>1. Init => TraceOK
  BY TraceInit
<1>2. AppInv /\ TraceOK /\ [Next]_vars => TraceOK'
  BY TraceStep
<1>3. TraceOK => HandledInOrder
  BY DEF TraceOK
<1>. QED
  BY <1>1, <1>2, <1>3, AppInvariant, PTL DEF Spec

=============================================================================
