------------------------------- MODULE AgentRun -------------------------------
(***************************************************************************)
(* What a caller of CodexAppServer.run may rely on, whatever happens       *)
(* between the client and its agent: turns are begun one at a time, the    *)
(* next one only after the agent declared the end of the one before, and   *)
(* what is returned is what the agent declared of the last turn.           *)
(***************************************************************************)
EXTENDS Naturals

CONSTANTS MaxTurns,   \* max_turns
          Statuses,   \* how an agent may declare the end of a turn
          Nothing     \* an absent value

VARIABLES stage,      \* "opening", "turn", "judging" or "ended"
          turn,       \* number of turns begun
          declared,   \* what the agent has declared of each turn
          result      \* Nothing, or what run returned or that it raised

agentVars == <<stage, turn, declared, result>>

AgentInit ==
  /\ stage = "opening"
  /\ turn = 0
  /\ declared = [t \in 1 .. MaxTurns |-> Nothing]
  /\ result = Nothing

(* The agent declares a turn, which may be one the client has asked for    *)
(* and not heard of yet.                                                   *)
Declare ==
  /\ \E t \in 1 .. MaxTurns, s \in Statuses :
       /\ t <= turn + 1
       /\ declared[t] = Nothing
       /\ declared' = [declared EXCEPT ![t] = s]
  /\ UNCHANGED <<stage, turn, result>>

Begin ==
  /\ stage \in {"opening", "judging"}
  /\ turn < MaxTurns
  /\ stage' = "turn"
  /\ turn' = turn + 1
  /\ UNCHANGED <<declared, result>>

Judge ==
  /\ stage = "turn"
  /\ declared[turn] # Nothing
  /\ stage' = "judging"
  /\ UNCHANGED <<turn, declared, result>>

(* A turn that was completed and passes validation is the last one.        *)
Return ==
  /\ stage = "judging"
  /\ \E passed \in BOOLEAN :
       LET done == passed /\ declared[turn] = "completed" IN
       /\ done \/ turn = MaxTurns
       /\ result' = [status |-> declared[turn], turns |-> turn, first |-> done /\ turn = 1]
  /\ stage' = "ended"
  /\ UNCHANGED <<turn, declared>>

Raise ==
  /\ stage # "ended"
  /\ stage' = "ended"
  /\ result' = [status |-> "raised", turns |-> 0, first |-> FALSE]
  /\ UNCHANGED <<turn, declared>>

AgentNext == Declare \/ Begin \/ Judge \/ Return \/ Raise

AgentSpec == AgentInit /\ [][AgentNext]_agentVars
=============================================================================
