------------------------- MODULE CodexEvaluationProofs -------------------------
(***************************************************************************)
(* Proofs about CodexEvaluation, for any number of tasks, repetitions,     *)
(* validation commands and turns, and whatever the agents do.              *)
(***************************************************************************)
EXTENDS CodexEvaluation, FiniteSetTheorems, SequenceTheorems, TLAPS

Total == Cardinality(Entries)

Places == Over \cup {"start", "seeds", "next", "check", "begin", "run", "revalidate", "measure",
                     "report", "clean", "raise"}

Underway == {"check", "begin", "run", "revalidate", "measure"}

(* The types.                                                              *)
Typed ==
  /\ backend \in {"sdk", "app-server"}
  /\ where \in Places
  /\ root \in {"none", "there", "kept", "refused", "stuck"}
  /\ tree \in [Entries -> Tree \cup {Nothing}]
  /\ registered \subseteq Entries
  /\ session \in [Entries -> Session]
  /\ active \in Entries \cup {Nothing}
  /\ gaveUp \in BOOLEAN
  /\ validations \in Seq(BOOLEAN)
  /\ results \in [Entries -> Results \cup {Nothing}]

(* Every entry has one place in the order.                                 *)
OrderOK ==
  /\ Total \in Nat
  /\ order \in [1 .. Total -> Entries]
  /\ \A e \in Entries : \E i \in 1 .. Total : order[i] = e
  /\ \A i, j \in 1 .. Total : order[i] = order[j] => i = j

(* The entries before the position are those that have a result.           *)
PlaceOK ==
  /\ position \in 1 .. Total + 1
  /\ where \in Underway => position \in 1 .. Total
  /\ \A i \in 1 .. Total : results[order[i]] # Nothing <=> i < position

(* An agent at work belongs to a run that is not measured, or that the SDK *)
(* was told to give up, or whose client was cancelled too late to kill it. *)
Waived(e) ==
  /\ results[e] # Nothing /\ results[e].gaveUp
  /\ backend = "sdk" \/ (session[e].at = "raised" /\ session[e].abandoned)

SessionOK(s) ==
  /\ s.open => s.at \notin {"none", "ending", "ended"}
  /\ s.at = "raised" /\ s.open => s.abandoned
  /\ s.abandoned => s.at = "raised"
  /\ s.at = "opening" => s.turns = 0
  /\ s.at = "sending" => s.turns < MaxTurns

StoppedOK ==
  /\ \A e \in Entries :
       /\ SessionOK(session[e])
       /\ results[e] # Nothing => Waived(e) \/ session[e].at = "none"
  /\ where \in {"run", "revalidate", "measure"} => (session[Entry].abandoned => gaveUp)
  /\ where \in {"revalidate", "measure"} =>
       (gaveUp /\ backend = "sdk") \/ session[Entry].at \in {"ended", "raised"}

(* A run that has come to its end, though its agent may not be stopped.    *)
Winding(s) == s.at = "ended" \/ (s.at \in {"stopping", "ending"} /\ s.to = "ended")

(* What is known of a run that was not given up, from its session s, its   *)
(* worktree t and its validations v.                                       *)
Good(s, t, v) ==
  /\ s.at # "interrupt"
  /\ s.at \in {"sending", "turn", "validate"} => s.open
  /\ s.working => s.at # "validate" /\ ~Winding(s)
  /\ (s.at = "validate" \/ Winding(s)) /\ s.status = "completed" => s.completed = s.turns
  /\ Winding(s) /\ ~Passes(t) => v # <<>> /\ v[Len(v)] = FALSE
  /\ s.first => Winding(s) /\ s.turns = 1 /\ s.completed = s.turns /\ Passes(t)

RunOK ==
  /\ where \in Underway => tree[Entry] \in Tree
  /\ where \in {"run", "revalidate", "measure"} =>
       /\ session[Entry].at # "none"
       /\ ~gaveUp => Good(session[Entry], tree[Entry], validations)
  /\ where = "measure" => validations # <<>>

ReportOK ==
  /\ report # Nothing => where \in {"clean", "returned", "failed"}
  /\ where = "report" => \E e \in Entries : results[e] # Nothing /\ ~results[e].quality
  /\ PassedIsFair
  /\ ResultsAreReal

EvalInv == Typed /\ OrderOK /\ PlaceOK /\ StoppedOK /\ RunOK /\ ReportOK

-----------------------------------------------------------------------------
LEMMA EntriesAreFinite == IsFiniteSet(Entries) /\ Total \in Nat
<1> DEFINE S == (Tasks \X (1 .. Repetitions)) \X Modes
           f == [x \in S |-> [task |-> x[1][1], repetition |-> x[1][2], mode |-> x[2]]]
<1>1. IsFiniteSet(1 .. Repetitions) /\ IsFiniteSet(Modes)
  <2>1. IsFiniteSet({"baseline"})
    BY FS_Singleton
  <2>2. Modes = {"baseline"} \cup {"optimized"}
    BY DEF Modes
  <2>3. IsFiniteSet(Modes)
    BY <2>1, <2>2, FS_AddElement
  <2>. QED
    BY <2>3, FS_Interval, EvaluationAssumption
<1>2. IsFiniteSet(S)
  BY <1>1, FS_Product, EvaluationAssumption
<1>3. f \in Surjection(S, Entries)
  <2>1. f \in [S -> Entries]
    BY DEF Entries
  <2>2. ASSUME NEW e \in Entries PROVE \E x \in S : f[x] = e
    <3>1. PICK x : x = <<<<e.task, e.repetition>>, e.mode>>
      OBVIOUS
    <3>2. x \in S /\ f[x] = e
      BY <2>2, <3>1 DEF Entries
    <3>. QED
      BY <3>2
  <2>. QED
    BY <2>1, <2>2 DEF Surjection
<1>4. IsFiniteSet(Entries)
  BY <1>2, <1>3, FS_Surjection
<1>. QED
  BY <1>4, FS_CardinalityType DEF Total

LEMMA InitOrder == ASSUME Init PROVE OrderOK
<1>1. /\ order \in [1 .. Total -> Entries]
      /\ \A e \in Entries : \E i \in 1 .. Total : order[i] = e
  BY DEF Init, IsOrder, Total
<1>2. order \in Surjection(1 .. Total, Entries)
  BY <1>1 DEF Surjection
<1>3. IsFiniteSet(1 .. Total) /\ Cardinality(1 .. Total) = Cardinality(Entries)
  BY EntriesAreFinite, FS_Interval DEF Total
<1>4. order \in Injection(1 .. Total, Entries)
  BY <1>2, <1>3, FS_SurjSameCardinalityImpliesInj
<1>. QED
  BY <1>1, <1>4, EntriesAreFinite DEF OrderOK, Injection, IsInjective

LEMMA InitEval == ASSUME Init PROVE EvalInv
<1>1. OrderOK
  BY InitOrder
<1>2. Typed
  <2>1. NoSession \in Session
    BY EvaluationAssumption DEF NoSession, Session
  <2>2. session \in [Entries -> Session] /\ validations \in Seq(BOOLEAN)
    BY <2>1 DEF Init
  <2>3. /\ backend \in {"sdk", "app-server"} /\ where = "start" /\ root = "none"
        /\ tree = [e \in Entries |-> Nothing] /\ registered = {} /\ active = Nothing
        /\ gaveUp = FALSE /\ results = [e \in Entries |-> Nothing]
    BY DEF Init
  <2>. QED
    BY <2>2, <2>3 DEF Typed, Places
<1>3. PlaceOK
  <2>1. position = 1 /\ where = "start" /\ \A e \in Entries : results[e] = Nothing
    BY DEF Init
  <2>2. \A i \in 1 .. Total : order[i] \in Entries /\ ~(i < 1)
    BY <1>1 DEF OrderOK
  <2>. QED
    BY <1>1, <2>1, <2>2 DEF PlaceOK, OrderOK, Underway
<1>4. StoppedOK /\ RunOK /\ ReportOK
  BY DEF Init, StoppedOK, SessionOK, RunOK, ReportOK, Underway, NoSession, PassedIsFair, ResultsAreReal
<1>. QED
  BY <1>1, <1>2, <1>3, <1>4 DEF EvalInv

-----------------------------------------------------------------------------
(* The entry of a run.                                                     *)
LEMMA EntryFacts ==
  ASSUME EvalInv, where \in Underway
  PROVE  /\ Entry \in Entries /\ Entry = order[position] /\ position \in 1 .. Total
         /\ results[Entry] = Nothing
         /\ \A e \in Entries : results[e] # Nothing => e # Entry
<1>1. position \in 1 .. Total /\ order \in [1 .. Total -> Entries] /\ Total \in Nat
  BY DEF EvalInv, PlaceOK, OrderOK
<1>2. Entry = order[position] /\ Entry \in Entries
  BY <1>1 DEF Entry
<1>3. results[order[position]] = Nothing
  BY <1>1 DEF EvalInv, PlaceOK
<1>. QED
  BY <1>1, <1>2, <1>3

(* A session that goes on, of whatever run.                                *)
LEMMA DriveStep ==
  ASSUME EvalInv, NEW e \in Entries, NEW s \in Session, Goes(e, s),
         session[e].at # "none", s.at # "none", SessionOK(s),
         s.abandoned = session[e].abandoned,
         session[e].at \in {"ended", "raised"} => s.at = session[e].at,
         UNCHANGED <<config, loop>>, active' \in Entries \cup {Nothing},
         tree' \in [Entries -> Tree \cup {Nothing}], \A d \in Entries \ {e} : tree'[d] = tree[d],
         tree[e] \in Tree => tree'[e] \in Tree,
         validations' \in Seq(BOOLEAN), validations # <<>> => validations' # <<>>,
         e # Entry => validations' = validations,
         e = Entry /\ where \in {"run", "revalidate", "measure"} /\ ~gaveUp
           => Good(s, tree'[e], validations')
  PROVE  EvalInv'
<1>1. /\ UNCHANGED <<backend, order, where, position, root, registered, gaveUp, results, report>>
      /\ Entry' = Entry
  BY DEF config, loop, Entry
<1>2. PICK left : left = Left(s, results[e] # Nothing)
  OBVIOUS
<1>3. /\ left \in Session /\ SessionOK(left)
      /\ results[e] = Nothing => left = s
      /\ left = s \/ left.at = "none"
  <2>1. NoSession \in Session /\ SessionOK(NoSession) /\ NoSession.at = "none"
    BY EvaluationAssumption DEF NoSession, Session, SessionOK
  <2>2. left = s \/ (left = NoSession /\ results[e] # Nothing)
    BY <1>2 DEF Left
  <2>. QED
    BY <2>1, <2>2
<1>4. /\ session' \in [Entries -> Session] /\ session'[e] = left
      /\ \A d \in Entries \ {e} : session'[d] = session[d]
  <2>1. session' = [session EXCEPT ![e] = left] /\ session \in [Entries -> Session]
    BY <1>2 DEF Goes, EvalInv, Typed
  <2>. QED
    BY <1>3, <2>1
<1>5. Typed' /\ OrderOK' /\ PlaceOK'
  BY <1>1, <1>4 DEF EvalInv, Typed, OrderOK, PlaceOK
<1>6. StoppedOK'
  <2>1. results[e] # Nothing => Waived(e)' \/ session'[e].at = "none"
    <3>1. SUFFICES ASSUME results[e] # Nothing, left = s PROVE Waived(e)'
      BY <1>3, <1>4
    <3>2. Waived(e)
      BY <3>1 DEF EvalInv, StoppedOK
    <3>. QED
      BY <1>1, <1>4, <3>1, <3>2 DEF Waived
  <2>2. \A d \in Entries \ {e} : Waived(d)' = Waived(d)
    BY <1>1, <1>4 DEF Waived
  <2>3. \A d \in Entries : SessionOK(session'[d])
    BY <1>3, <1>4 DEF EvalInv, StoppedOK
  <2>4. ASSUME where \in {"run", "revalidate", "measure"}
        PROVE  /\ session'[Entry].abandoned => gaveUp
               /\ session[Entry].at \in {"ended", "raised"} =>
                    session'[Entry].at \in {"ended", "raised"}
    <3>1. Entry \in Entries /\ results[Entry] = Nothing /\ (session[Entry].abandoned => gaveUp)
      BY <2>4, EntryFacts DEF Underway, EvalInv, StoppedOK
    <3>2. CASE Entry = e
      BY <1>3, <1>4, <3>1, <3>2
    <3>3. CASE Entry # e
      BY <1>4, <3>1, <3>3
    <3>. QED
      BY <3>2, <3>3
  <2>5. \A d \in Entries : results[d] # Nothing => Waived(d)' \/ session'[d].at = "none"
    <3>1. ASSUME NEW d \in Entries \ {e}, results[d] # Nothing
          PROVE  Waived(d)' \/ session'[d].at = "none"
      BY <1>4, <2>2, <3>1 DEF EvalInv, StoppedOK
    <3>. QED
      BY <2>1, <3>1
  <2>6. where \in {"revalidate", "measure"} =>
          (gaveUp /\ backend = "sdk") \/ session'[Entry].at \in {"ended", "raised"}
    BY <2>4 DEF EvalInv, StoppedOK
  <2>. QED
    BY <1>1, <2>3, <2>4, <2>5, <2>6 DEF StoppedOK, SessionOK
<1>7. RunOK'
  <2>1. ASSUME where \in Underway PROVE tree'[Entry] \in Tree
    <3>1. Entry \in Entries /\ tree[Entry] \in Tree
      BY <2>1, EntryFacts DEF EvalInv, RunOK
    <3>. QED
      BY <3>1
  <2>2. ASSUME where \in {"run", "revalidate", "measure"}
        PROVE  /\ session'[Entry].at # "none"
               /\ ~gaveUp => Good(session'[Entry], tree'[Entry], validations')
    <3>1. Entry \in Entries /\ results[Entry] = Nothing
      BY <2>2, EntryFacts DEF Underway
    <3>2. session[Entry].at # "none"
          /\ (~gaveUp => Good(session[Entry], tree[Entry], validations))
      BY <2>2 DEF EvalInv, RunOK
    <3>3. CASE e = Entry
      BY <1>3, <1>4, <2>2, <3>1, <3>3
    <3>4. CASE e # Entry
      <4>1. session'[Entry] = session[Entry] /\ tree'[Entry] = tree[Entry]
            /\ validations' = validations
        BY <1>4, <3>1, <3>4
      <4>. QED
        BY <3>2, <4>1
    <3>. QED
      BY <3>3, <3>4
  <2>. QED
    BY <1>1, <2>1, <2>2 DEF EvalInv, RunOK
<1>8. ReportOK'
  BY <1>1 DEF EvalInv, ReportOK, PassedIsFair, ResultsAreReal
<1>. QED
  BY <1>5, <1>6, <1>7, <1>8 DEF EvalInv

(* A step that leaves the worktrees and the validations as they are.       *)
LEMMA TalkStep ==
  ASSUME EvalInv, NEW e \in Entries, NEW s \in Session, Goes(e, s),
         session[e].at # "none", s.at # "none", SessionOK(s),
         s.abandoned = session[e].abandoned,
         session[e].at \in {"ended", "raised"} => s.at = session[e].at,
         UNCHANGED <<config, loop, validations, tree>>, active' \in Entries \cup {Nothing},
         Good(session[e], tree[e], validations) => Good(s, tree[e], validations)
  PROVE  EvalInv'
<1>1. UNCHANGED <<config, loop>> /\ UNCHANGED <<validations, tree>>
  OBVIOUS
<1>2. tree \in [Entries -> Tree \cup {Nothing}] /\ validations \in Seq(BOOLEAN)
  BY DEF EvalInv, Typed
<1>3. e = Entry /\ where \in {"run", "revalidate", "measure"} /\ ~gaveUp
        => Good(session[e], tree[e], validations)
  BY DEF EvalInv, RunOK
<1>. QED
  BY <1>1, <1>2, <1>3, DriveStep

LEMMA SessionFacts ==
  ASSUME EvalInv, NEW e \in Entries
  PROVE  /\ session[e] \in Session /\ SessionOK(session[e]) /\ active \in Entries \cup {Nothing}
         /\ session[e].at # "raised" => ~session[e].abandoned
BY DEF EvalInv, Typed, StoppedOK, SessionOK

LEMMA ClosingKept ==
  ASSUME EvalInv, NEW e, Closing(e)
  PROVE  active' \in Entries \cup {Nothing}
BY DEF EvalInv, Typed, Closing

(* What a backend does when the run is over.                               *)
LEMMA EndsFacts ==
  ASSUME NEW s \in Session, NEW to \in {"ended", "raised"}, ~s.abandoned, NEW z, z = Ends(s, to)
  PROVE  /\ z \in Session /\ SessionOK(z) /\ z.at \notin {"none", "sending", "turn", "validate", "interrupt"}
         /\ Winding(z) <=> to = "ended"
         /\ z.working => s.working
         /\ z.turns = s.turns /\ z.status = s.status /\ z.first = s.first
         /\ z.completed = s.completed /\ z.abandoned = s.abandoned
<1>1. CASE backend = "sdk"
  <2>1. z = [s EXCEPT !.at = to, !.open = FALSE, !.working = FALSE]
    BY <1>1 DEF Ends
  <2>. QED
    BY <2>1 DEF Session, SessionOK, Winding
<1>2. CASE backend # "sdk"
  <2>1. PICK at \in {"stopping", "ending"} : at = IF s.open THEN "stopping" ELSE "ending"
    OBVIOUS
  <2>2. z = [s EXCEPT !.at = at, !.to = to]
    BY <1>2, <2>1 DEF Ends
  <2>3. /\ z \in Session /\ z.at = at /\ z.to = to /\ z.open = s.open /\ z.working = s.working
        /\ z.turns = s.turns /\ z.status = s.status /\ z.first = s.first
        /\ z.completed = s.completed /\ z.abandoned = s.abandoned
    BY <2>1, <2>2 DEF Session
  <2>. QED
    BY <2>1, <2>3 DEF SessionOK, Winding
<1>. QED
  BY <1>1, <1>2

(* A run that raises.                                                      *)
LEMMA RaiseStep ==
  ASSUME EvalInv, NEW e \in Entries,
         session[e].at \in {"opening", "sending", "turn", "eof", "validate"},
         NEW s \in Session, s.first = session[e].first, s.abandoned = session[e].abandoned,
         Goes(e, Ends(s, "raised")),
         UNCHANGED <<config, loop, validations, tree>>, active' \in Entries \cup {Nothing}
  PROVE  EvalInv'
<1>1. PICK z : z = Ends(s, "raised")
  OBVIOUS
<1>2. ~s.abandoned
  BY SessionFacts
<1>3. /\ z \in Session /\ SessionOK(z) /\ z.at \notin {"none", "sending", "turn", "validate", "interrupt"}
      /\ ~Winding(z) /\ z.first = s.first /\ z.abandoned = s.abandoned
  BY <1>1, <1>2, EndsFacts
<1>4. Good(session[e], tree[e], validations) => Good(z, tree[e], validations)
  BY <1>3 DEF Good, Winding
<1>. QED
  BY <1>1, <1>2, <1>3, <1>4, TalkStep

LEMMA OpensStep == ASSUME EvalInv, NEW e \in Entries, Opens(e) PROVE EvalInv'
<1>1. PICK s : s = [session[e] EXCEPT !.at = "sending", !.open = TRUE]
  OBVIOUS
<1>2. /\ session[e].at = "opening" /\ Goes(e, s) /\ UNCHANGED <<config, loop, validations, tree>>
      /\ active' = IF backend = "sdk" THEN e ELSE active
  BY <1>1 DEF Opens
<1>3. /\ s \in Session /\ s.at = "sending" /\ s.open /\ s.first = session[e].first
      /\ s.abandoned = session[e].abandoned /\ SessionOK(s)
  <2>1. /\ s \in Session /\ s.at = "sending" /\ s.open /\ s.first = session[e].first
        /\ s.abandoned = session[e].abandoned /\ s.turns = session[e].turns
    BY <1>1, SessionFacts DEF Session
  <2>2. ~session[e].abandoned /\ session[e].turns = 0
    BY <1>2, SessionFacts DEF SessionOK
  <2>. QED
    BY <2>1, <2>2, EvaluationAssumption DEF SessionOK
<1>4. Good(session[e], tree[e], validations) => Good(s, tree[e], validations)
  BY <1>2, <1>3 DEF Good, Winding
<1>5. active' \in Entries \cup {Nothing}
  BY <1>2, SessionFacts
<1>. QED
  BY <1>2, <1>3, <1>4, <1>5, TalkStep

LEMMA SentStep == ASSUME EvalInv, NEW e \in Entries, Sent(e) PROVE EvalInv'
<1>1. PICK next : next = session[e].turns + 1
  OBVIOUS
<1>2. PICK s : s = [session[e] EXCEPT !.at = "turn", !.working = TRUE, !.turns = next]
  OBVIOUS
<1>3. /\ session[e].at = "sending" /\ session[e].open /\ Goes(e, s)
      /\ UNCHANGED <<config, loop, active, validations, tree>>
  BY <1>1, <1>2 DEF Sent
<1>4. next \in 0 .. MaxTurns
  BY <1>1, <1>3, EvaluationAssumption, SessionFacts DEF Session, SessionOK
<1>5. /\ s \in Session /\ s.at = "turn" /\ s.open /\ s.first = session[e].first
      /\ s.abandoned = session[e].abandoned /\ SessionOK(s)
  BY <1>2, <1>3, <1>4, SessionFacts DEF Session, SessionOK
<1>6. Good(session[e], tree[e], validations) => Good(s, tree[e], validations)
  BY <1>3, <1>5 DEF Good, Winding
<1>. QED
  BY <1>3, <1>5, <1>6, TalkStep, SessionFacts

LEMMA WorksStep == ASSUME EvalInv, NEW e \in Entries, Works(e) PROVE EvalInv'
<1>1. PICK t \in Tree \ {tree[e]} : tree' = [tree EXCEPT ![e] = t]
  BY DEF Works
<1>2. /\ session[e].open /\ session[e].working
      /\ UNCHANGED <<config, loop, session, active, validations>>
  BY DEF Works, driving
<1>3. /\ tree' \in [Entries -> Tree \cup {Nothing}] /\ tree'[e] \in Tree
      /\ \A d \in Entries \ {e} : tree'[d] = tree[d]
  BY <1>1 DEF EvalInv, Typed
<1>4. Goes(e, session[e])
  <2>1. Left(session[e], results[e] # Nothing) = session[e]
    BY <1>2 DEF Left
  <2>2. session \in [Entries -> Session]
    BY DEF EvalInv, Typed
  <2>. QED
    BY <1>2, <2>1, <2>2 DEF Goes
<1>5. Good(session[e], tree[e], validations) => Good(session[e], tree'[e], validations)
  BY <1>2 DEF Good
<1>6. e = Entry /\ where \in {"run", "revalidate", "measure"} /\ ~gaveUp
        => Good(session[e], tree'[e], validations')
  BY <1>2, <1>5 DEF EvalInv, RunOK
<1>7. /\ session[e] \in Session /\ active \in Entries \cup {Nothing} /\ validations \in Seq(BOOLEAN)
      /\ SessionOK(session[e]) /\ session[e].at # "none"
  BY <1>2, SessionFacts DEF EvalInv, Typed, SessionOK
<1>. QED
  BY <1>2, <1>3, <1>4, <1>6, <1>7, DriveStep

LEMMA ReroutesStep == ASSUME EvalInv, NEW e \in Entries, Reroutes(e) PROVE EvalInv'
<1>1. session[e].at = "turn" /\ UNCHANGED <<config, loop, active, validations, tree>>
  BY DEF Reroutes
<1>2. CASE backend = "app-server"
  <2>1. Goes(e, Ends(session[e], "raised"))
    BY <1>2 DEF Reroutes
  <2>. QED
    BY <1>1, <2>1, RaiseStep, SessionFacts
<1>3. CASE backend # "app-server"
  <2>1. UNCHANGED session
    BY <1>3 DEF Reroutes
  <2>. QED
    BY <1>1, <2>1 DEF config, loop, EvalInv, Typed, OrderOK, PlaceOK, StoppedOK, SessionOK, Waived, RunOK,
       ReportOK, PassedIsFair, ResultsAreReal, Entry
<1>. QED
  BY <1>2, <1>3

LEMMA CompletesStep == ASSUME EvalInv, NEW e \in Entries, Completes(e) PROVE EvalInv'
<1>1. PICK outcome \in {"failed", "completed"} :
        Goes(e, [session[e] EXCEPT !.at = "validate", !.working = FALSE, !.status = outcome,
                   !.completed = IF outcome = "completed" THEN session[e].turns ELSE @])
  BY DEF Completes
<1>2. PICK done : done = IF outcome = "completed" THEN session[e].turns ELSE session[e].completed
  OBVIOUS
<1>3. PICK s : s = [session[e] EXCEPT !.at = "validate", !.working = FALSE, !.status = outcome,
                      !.completed = done]
  OBVIOUS
<1>4. Goes(e, s)
  BY <1>1, <1>2, <1>3, SessionFacts DEF Session
<1>5. session[e].at = "turn" /\ session[e].open
      /\ UNCHANGED <<config, loop, active, validations, tree>>
  BY DEF Completes
<1>6. /\ s \in Session /\ s.at = "validate" /\ s.open /\ ~s.working /\ s.first = session[e].first
      /\ s.status = "completed" => s.completed = s.turns
      /\ s.abandoned = session[e].abandoned
  <2>1. session[e] \in Session /\ done \in 0 .. MaxTurns /\ ~session[e].abandoned
    BY <1>2, <1>5, SessionFacts DEF Session
  <2>. QED
    BY <1>2, <1>3, <1>5, <2>1 DEF Session
<1>7. Good(session[e], tree[e], validations) => Good(s, tree[e], validations)
  BY <1>5, <1>6 DEF Good, Winding
<1>8. SessionOK(s)
  BY <1>5, <1>6, SessionFacts DEF SessionOK
<1>. QED
  BY <1>4, <1>5, <1>6, <1>7, <1>8, TalkStep, SessionFacts

LEMMA CompletesAnotherStep ==
  ASSUME EvalInv, NEW e \in Entries, CompletesAnother(e)
  PROVE  EvalInv'
<1>1. /\ session[e].at = "turn" /\ Goes(e, AfterStale(e))
      /\ UNCHANGED <<config, loop, validations, tree>>
  BY DEF CompletesAnother
<1>2. active' \in Entries \cup {Nothing}
  BY SessionFacts, ClosingKept DEF CompletesAnother
<1>3. CASE backend = "sdk"
  <2>1. Goes(e, Ends(session[e], "raised"))
    BY <1>1, <1>3 DEF AfterStale
  <2>. QED
    BY <1>1, <1>2, <2>1, RaiseStep, SessionFacts
<1>4. CASE backend # "sdk"
  <2>1. AfterStale(e) = session[e]
    BY <1>4 DEF AfterStale
  <2>. QED
    BY <1>1, <1>2, <2>1, TalkStep, SessionFacts
<1>. QED
  BY <1>3, <1>4

LEMMA BreaksStep == ASSUME EvalInv, NEW e \in Entries, Breaks(e) PROVE EvalInv'
<1>1. PICK alive \in {session[e].open /\ session[e].at # "eof", FALSE} :
        Goes(e, Ends([session[e] EXCEPT !.open = alive, !.working = @ /\ alive], "raised"))
  BY DEF Breaks
<1>2. session[e] \in Session
  BY SessionFacts
<1>3. PICK live \in BOOLEAN : live = alive
  BY <1>2, Zenon DEF Session
<1>4. PICK works \in BOOLEAN : works = (session[e].working /\ live)
  BY Zenon
<1>5. PICK s : s = [session[e] EXCEPT !.open = live, !.working = works]
  OBVIOUS
<1>6. Goes(e, Ends(s, "raised"))
  BY <1>1, <1>3, <1>4, <1>5, Zenon
<1>7. s \in Session /\ s.first = session[e].first /\ s.abandoned = session[e].abandoned
  BY <1>2, <1>5 DEF Session
<1>. QED
  BY <1>6, <1>7, RaiseStep, ClosingKept DEF Breaks

LEMMA ClosesOutputStep == ASSUME EvalInv, NEW e \in Entries, ClosesOutput(e) PROVE EvalInv'
<1>1. PICK s : s = [session[e] EXCEPT !.at = "eof"]
  OBVIOUS
<1>2. /\ session[e].at \in {"opening", "turn"} /\ Goes(e, s)
      /\ UNCHANGED <<config, loop, active, validations, tree>>
  BY <1>1 DEF ClosesOutput
<1>3. /\ s \in Session /\ s.at = "eof" /\ s.first = session[e].first
      /\ s.abandoned = session[e].abandoned /\ SessionOK(s)
  BY <1>1, <1>2, SessionFacts DEF Session, SessionOK
<1>4. Good(session[e], tree[e], validations) => Good(s, tree[e], validations)
  BY <1>2, <1>3 DEF Good, Winding
<1>. QED
  BY <1>2, <1>3, <1>4, TalkStep, SessionFacts

LEMMA StreamEndsStep == ASSUME EvalInv, NEW e \in Entries, StreamEnds(e) PROVE EvalInv'
<1>1. PICK s : s = [session[e] EXCEPT !.at = "validate", !.working = FALSE]
  OBVIOUS
<1>2. /\ session[e].at = "turn" /\ ~session[e].open /\ Goes(e, s)
      /\ UNCHANGED <<config, loop, active, validations, tree>>
  BY <1>1 DEF StreamEnds
<1>3. /\ s \in Session /\ s.at = "validate" /\ s.abandoned = session[e].abandoned
      /\ SessionOK(s)
  BY <1>1, <1>2, SessionFacts DEF Session, SessionOK
<1>4. ~Good(session[e], tree[e], validations)
  BY <1>2 DEF Good
<1>. QED
  BY <1>2, <1>3, <1>4, TalkStep, SessionFacts

-----------------------------------------------------------------------------
(* The App Server client stops its agent.                                  *)
LEMMA InterruptedStep == ASSUME EvalInv, NEW e \in Entries, Interrupted(e) PROVE EvalInv'
<1>1. PICK s : s = [session[e] EXCEPT !.at = "stopping"]
  OBVIOUS
<1>2. /\ session[e].at = "interrupt" /\ Goes(e, s)
      /\ UNCHANGED <<config, loop, active, validations, tree>>
  BY <1>1 DEF Interrupted
<1>3. /\ s \in Session /\ s.at = "stopping" /\ s.abandoned = session[e].abandoned
      /\ SessionOK(s)
  BY <1>1, <1>2, SessionFacts DEF Session, SessionOK
<1>4. ~Good(session[e], tree[e], validations)
  BY <1>2 DEF Good
<1>. QED
  BY <1>2, <1>3, <1>4, TalkStep, SessionFacts

LEMMA GraceEndsStep == ASSUME EvalInv, NEW e \in Entries, GraceEnds(e) PROVE EvalInv'
<1>1. PICK s : s = [session[e] EXCEPT !.at = "ending", !.open = FALSE, !.working = FALSE]
  OBVIOUS
<1>2. /\ session[e].at = "stopping" /\ Goes(e, s)
      /\ UNCHANGED <<config, loop, active, validations, tree>>
  BY <1>1 DEF GraceEnds, Killed
<1>3. /\ s \in Session /\ s.at = "ending" /\ ~s.open /\ ~s.working /\ s.to = session[e].to
      /\ s.first = session[e].first /\ s.turns = session[e].turns
      /\ s.completed = session[e].completed /\ s.status = session[e].status
      /\ s.abandoned = session[e].abandoned /\ SessionOK(s)
  BY <1>1, <1>2, SessionFacts DEF Session, SessionOK
<1>4. Good(session[e], tree[e], validations) => Good(s, tree[e], validations)
  BY <1>2, <1>3 DEF Good, Winding
<1>. QED
  BY <1>2, <1>3, <1>4, TalkStep, SessionFacts

LEMMA ReapedStep == ASSUME EvalInv, NEW e \in Entries, Reaped(e) PROVE EvalInv'
<1>1. PICK s : s = [session[e] EXCEPT !.at = session[e].to]
  OBVIOUS
<1>2. /\ session[e].at = "ending" /\ Goes(e, s)
      /\ UNCHANGED <<config, loop, active, validations, tree>>
  BY <1>1 DEF Reaped
<1>3. /\ s \in Session /\ s.at = session[e].to /\ s.at \in {"ended", "raised"}
      /\ ~s.open /\ s.working = session[e].working
      /\ s.first = session[e].first /\ s.turns = session[e].turns
      /\ s.completed = session[e].completed /\ s.status = session[e].status
      /\ s.abandoned = session[e].abandoned /\ SessionOK(s)
  BY <1>1, <1>2, SessionFacts DEF Session, SessionOK
<1>4. Good(session[e], tree[e], validations) => Good(s, tree[e], validations)
  BY <1>2, <1>3 DEF Good, Winding
<1>. QED
  BY <1>2, <1>3, <1>4, TalkStep, SessionFacts

LEMMA DiesStep == ASSUME EvalInv, NEW e \in Entries, Dies(e) PROVE EvalInv'
<1>1. PICK s : s = [session[e] EXCEPT !.open = FALSE, !.working = FALSE]
  OBVIOUS
<1>2. /\ session[e].at = "raised" /\ session[e].open /\ Goes(e, s)
      /\ UNCHANGED <<config, loop, active, validations, tree>>
  BY <1>1 DEF Dies
<1>3. /\ s \in Session /\ s.at = "raised" /\ ~s.open /\ ~s.working
      /\ s.first = session[e].first /\ s.abandoned = session[e].abandoned /\ SessionOK(s)
  BY <1>1, <1>2, SessionFacts DEF Session, SessionOK
<1>4. Good(session[e], tree[e], validations) => Good(s, tree[e], validations)
  BY <1>2, <1>3 DEF Good, Winding
<1>. QED
  BY <1>2, <1>3, <1>4, TalkStep, SessionFacts

-----------------------------------------------------------------------------
(* Validation.                                                             *)
LEMMA LastOfBoth ==
  ASSUME NEW S, NEW u \in Seq(S), NEW v \in Seq(S), v # <<>>
  PROVE  /\ u \o v \in Seq(S) /\ u \o v # <<>>
         /\ (u \o v)[Len(u \o v)] = v[Len(v)]
<1>1. /\ u \o v \in Seq(S) /\ Len(u \o v) = Len(u) + Len(v)
      /\ \A i \in 1 .. Len(u) + Len(v) : (u \o v)[i] = IF i <= Len(u) THEN u[i] ELSE v[i - Len(u)]
  BY ConcatProperties
<1>2. Len(u) \in Nat /\ Len(v) \in Nat \ {0}
  OBVIOUS
<1>3. /\ Len(u) + Len(v) \in 1 .. Len(u) + Len(v) /\ ~(Len(u) + Len(v) <= Len(u))
      /\ (Len(u) + Len(v)) - Len(u) = Len(v)
  BY <1>2
<1>. QED
  BY <1>1, <1>2, <1>3

(* A validation that does not pass ends with a failure.                    *)
LEMMA OutcomesEnd ==
  ASSUME NEW t \in Tree
  PROVE  /\ Outcomes(t) \in Seq(BOOLEAN) /\ Outcomes(t) # <<>>
         /\ ~Passes(t) => Outcomes(t)[Len(Outcomes(t))] = FALSE
<1>1. t \in Nat /\ Commands \in Nat \ {0} /\ t <= Commands
  BY EvaluationAssumption DEF Tree
<1>2. PICK good : good = [i \in 1 .. t |-> TRUE]
  OBVIOUS
<1>3. good \in Seq(BOOLEAN) /\ Len(good) = t
  BY <1>1, <1>2
<1>4. CASE t = Commands
  <2>1. ~(t < Commands)
    BY <1>1, <1>4
  <2>2. Outcomes(t) = good \o <<>>
    BY <1>2, <2>1, Zenon DEF Outcomes
  <2>3. Outcomes(t) = good
    BY <1>3, <2>2, ConcatEmptySeq
  <2>. QED
    BY <1>1, <1>3, <1>4, <2>3 DEF Passes
<1>5. CASE t < Commands
  <2>1. PICK one : one = <<FALSE>>
    OBVIOUS
  <2>2. one \in Seq(BOOLEAN) /\ one # <<>> /\ one[Len(one)] = FALSE
    BY <2>1
  <2>3. Outcomes(t) = good \o one
    BY <1>2, <1>5, <2>1, Zenon DEF Outcomes
  <2>4. good \in Seq(BOOLEAN)
    BY <1>3
  <2>5. /\ good \o one \in Seq(BOOLEAN) /\ good \o one # <<>>
        /\ (good \o one)[Len(good \o one)] = one[Len(one)]
    BY <2>2, <2>4, LastOfBoth, Zenon
  <2>. QED
    BY <2>2, <2>3, <2>5, Zenon
<1>6. t = Commands \/ t < Commands
  BY <1>1
<1>. QED
  BY <1>4, <1>5, <1>6, Zenon

LEMMA OutcomesFacts ==
  ASSUME NEW v \in Seq(BOOLEAN), NEW t \in Tree, NEW w, w = v \o Outcomes(t)
  PROVE  /\ w \in Seq(BOOLEAN) /\ w # <<>>
         /\ ~Passes(t) => w[Len(w)] = FALSE
BY OutcomesEnd, LastOfBoth, Zenon

LEMMA ValidatesStep == ASSUME EvalInv, NEW e \in Entries, Validates(e) PROVE EvalInv'
<1>1. session[e].at = "validate" /\ UNCHANGED <<config, loop, tree>>
  BY DEF Validates
<1>2. /\ session[e] \in Session /\ tree \in [Entries -> Tree \cup {Nothing}]
      /\ tree[e] \in Tree \cup {Nothing} /\ validations \in Seq(BOOLEAN)
      /\ active \in Entries \cup {Nothing} /\ ~session[e].abandoned
  BY <1>1, SessionFacts DEF EvalInv, Typed
<1>3. active' \in Entries \cup {Nothing}
  BY <1>2, ClosingKept DEF Validates
<1>4. CASE tree[e] = Nothing
  <2>1. Goes(e, Ends(session[e], "raised")) /\ UNCHANGED validations
    BY <1>4 DEF Validates
  <2>. QED
    BY <1>1, <1>2, <1>3, <2>1, RaiseStep
<1>5. CASE tree[e] # Nothing
  <2>1. tree[e] \in Tree
    BY <1>2, <1>5
  <2>2. validations' = IF e = Entry THEN validations \o Outcomes(tree[e]) ELSE validations
    BY <1>5 DEF Validates
  <2>3. /\ validations' \in Seq(BOOLEAN) /\ (validations # <<>> => validations' # <<>>)
        /\ e # Entry => validations' = validations
        /\ e = Entry /\ ~Passes(tree[e]) =>
             validations' # <<>> /\ validations'[Len(validations')] = FALSE
    BY <1>2, <2>1, <2>2, OutcomesFacts
  <2>4. ASSUME NEW s \in Session, Goes(e, s), s.at # "none", SessionOK(s),
               s.abandoned = session[e].abandoned,
               e = Entry /\ Good(session[e], tree[e], validations)
                 => Good(s, tree[e], validations')
        PROVE  EvalInv'
    <3>1. e = Entry /\ where \in {"run", "revalidate", "measure"} /\ ~gaveUp
            => Good(s, tree'[e], validations')
      BY <1>1, <2>4 DEF EvalInv, RunOK
    <3>2. UNCHANGED <<config, loop>> /\ UNCHANGED tree
      BY <1>1
    <3>. QED
      BY <1>1, <1>2, <1>3, <2>3, <2>4, <3>1, <3>2, DriveStep
  <2>5. CASE Done(e) \/ session[e].turns = MaxTurns
    <3>1. PICK first \in BOOLEAN : first = (Done(e) /\ session[e].turns = 1)
      BY Zenon
    <3>2. PICK s : s = [session[e] EXCEPT !.first = first]
      OBVIOUS
    <3>3. PICK z : z = Ends(s, "ended")
      OBVIOUS
    <3>4. Goes(e, z)
      BY <1>5, <2>5, <3>1, <3>2, <3>3 DEF Validates
    <3>5. /\ s \in Session /\ s.first = first /\ s.abandoned = session[e].abandoned
          /\ s.working = session[e].working
          /\ s.status = session[e].status /\ s.completed = session[e].completed
          /\ s.turns = session[e].turns
      BY <1>2, <3>1, <3>2 DEF Session
    <3>6. /\ z \in Session /\ SessionOK(z) /\ Winding(z) /\ (z.working => s.working)
          /\ z.at \notin {"none", "sending", "turn", "validate", "interrupt"}
          /\ z.turns = s.turns /\ z.status = s.status /\ z.first = s.first
          /\ z.completed = s.completed /\ z.abandoned = s.abandoned
      BY <1>2, <3>3, <3>5, EndsFacts
    <3>7. e = Entry /\ Good(session[e], tree[e], validations) => Good(z, tree[e], validations')
      BY <1>1, <2>3, <3>1, <3>5, <3>6 DEF Good, Done
    <3>. QED
      BY <2>4, <3>4, <3>5, <3>6, <3>7
  <2>6. CASE ~(Done(e) \/ session[e].turns = MaxTurns)
    <3>1. PICK s : s = [session[e] EXCEPT !.at = "sending"]
      OBVIOUS
    <3>2. Goes(e, s)
      BY <1>5, <2>6, <3>1 DEF Validates
    <3>3. /\ s \in Session /\ s.at = "sending" /\ s.open = session[e].open
          /\ s.first = session[e].first /\ s.abandoned = session[e].abandoned
          /\ s.turns = session[e].turns
      BY <1>2, <3>1 DEF Session
    <3>4. SessionOK(s)
      BY <1>2, <2>6, <3>3, EvaluationAssumption DEF Session, SessionOK
    <3>5. e = Entry /\ Good(session[e], tree[e], validations) => Good(s, tree[e], validations')
      BY <1>1, <3>3 DEF Good, Winding
    <3>. QED
      BY <2>4, <3>2, <3>3, <3>4, <3>5
  <2>. QED
    BY <2>5, <2>6
<1>. QED
  BY <1>4, <1>5

-----------------------------------------------------------------------------
(* The evaluator.  A step after which no run is under way, and which       *)
(* leaves sessions and results as they are.                                *)
LEMMA AsideStep ==
  ASSUME EvalInv, UNCHANGED <<config, position, registered, gaveUp, results, driving>>,
         where' \in {"next", "raise", "clean", "returned", "failed", "seeds"},
         tree' \in [Entries -> Tree \cup {Nothing}],
         root' \in {"none", "there", "kept", "refused", "stuck"},
         report' # Nothing => where' \in {"clean", "returned", "failed"},
         PassedIsFair'
  PROVE  EvalInv'
<1>1. UNCHANGED <<backend, order, position, registered, gaveUp, results, session, active,
                  validations>>
  BY DEF config, driving
<1>2. Typed' /\ OrderOK' /\ PlaceOK'
  BY <1>1 DEF EvalInv, Typed, OrderOK, PlaceOK, Places, Over, Underway
<1>3. StoppedOK' /\ RunOK'
  BY <1>1 DEF EvalInv, StoppedOK, Waived, RunOK, Underway
<1>4. ReportOK'
  BY <1>1 DEF EvalInv, ReportOK, ResultsAreReal
<1>. QED
  BY <1>2, <1>3, <1>4 DEF EvalInv

(* What a step that reports nothing keeps of the reports.                  *)
LEMMA FairKept ==
  ASSUME EvalInv, UNCHANGED <<report, results>>
  PROVE  PassedIsFair' /\ ResultsAreReal'
BY DEF EvalInv, ReportOK, PassedIsFair, ResultsAreReal

LEMMA BeginStep == ASSUME EvalInv, Begin PROVE EvalInv'
<1>1. /\ UNCHANGED <<config, position, registered, gaveUp, results, report, driving, tree>>
      /\ where = "start" /\ where' \in {"failed", "seeds"} /\ (root' = root \/ root' = "there")
  BY DEF Begin, At
<1>2. report = Nothing /\ tree \in [Entries -> Tree \cup {Nothing}]
      /\ root \in {"none", "there", "kept", "refused", "stuck"}
  BY <1>1 DEF EvalInv, ReportOK, Typed
<1>. QED
  BY <1>1, <1>2, FairKept, AsideStep

LEMMA PrepareSeedsStep == ASSUME EvalInv, PrepareSeeds PROVE EvalInv'
<1>1. /\ UNCHANGED <<config, position, root, registered, gaveUp, results, report, driving, tree>>
      /\ where = "seeds" /\ where' \in {"next", "raise"}
  BY DEF PrepareSeeds, At
<1>2. report = Nothing /\ tree \in [Entries -> Tree \cup {Nothing}]
      /\ root \in {"none", "there", "kept", "refused", "stuck"}
  BY <1>1 DEF EvalInv, ReportOK, Typed
<1>. QED
  BY <1>1, <1>2, FairKept, AsideStep

LEMMA CleanStep == ASSUME EvalInv, Clean PROVE EvalInv'
<1>1. UNCHANGED <<config, position, registered, gaveUp, results, report, driving>>
  BY DEF Clean
<1>2. where' \in {"returned", "failed"} /\ root' \in {"kept", "refused", "none", "stuck"}
  BY DEF Clean, At
<1>3. tree' \in [Entries -> Tree \cup {Nothing}]
  <2>1. tree \in [Entries -> Tree \cup {Nothing}]
    BY DEF EvalInv, Typed
  <2>2. tree' = tree \/ tree' = [e \in Entries |-> Nothing]
    BY DEF Clean
  <2>. QED
    BY <2>1, <2>2
<1>. QED
  BY <1>1, <1>2, <1>3, FairKept, AsideStep

LEMMA RaiseEvaluation ==
  ASSUME EvalInv, where \in Underway \cup {"next"}, where' = "raise",
         UNCHANGED <<config, position, root, registered, gaveUp, results, report, driving, tree>>
  PROVE  EvalInv'
<1>1. report = Nothing /\ tree \in [Entries -> Tree \cup {Nothing}]
      /\ root \in {"none", "there", "kept", "refused", "stuck"}
  BY DEF EvalInv, ReportOK, Typed, Underway
<1>. QED
  BY <1>1, FairKept, AsideStep

LEMMA AddWorktreeStep == ASSUME EvalInv, AddWorktree PROVE EvalInv'
<1>1. /\ UNCHANGED <<config, position, root, registered, gaveUp, results, report, driving>>
      /\ where = "next" /\ position <= Len(order)
  BY DEF AddWorktree
<1>2. CASE where' = "raise" /\ UNCHANGED tree
  BY <1>1, <1>2, RaiseEvaluation
<1>3. CASE where' = "check" /\ tree' = [tree EXCEPT ![Entry] = Fresh]
  <2>1. position \in 1 .. Total
    <3>1. /\ Total \in Nat /\ order \in [1 .. Total -> Entries] /\ position \in 1 .. Total + 1
      BY DEF EvalInv, OrderOK, PlaceOK
    <3>2. Len(order) = Total
      BY <3>1
    <3>. QED
      BY <1>1, <3>1, <3>2
  <2>2. Entry = order[position] /\ Entry \in Entries /\ Entry' = Entry
    BY <1>1, <2>1 DEF Entry, EvalInv, OrderOK, config
  <2>3. tree' \in [Entries -> Tree \cup {Nothing}] /\ tree'[Entry] \in Tree
    <3>1. tree \in [Entries -> Tree \cup {Nothing}] /\ Fresh \in Tree
      BY EvaluationAssumption DEF EvalInv, Typed, Fresh, Tree
    <3>. QED
      BY <1>3, <2>2, <3>1
  <2>4. UNCHANGED <<backend, order, session, active, validations>>
    BY <1>1 DEF config, driving
  <2>5. Typed' /\ OrderOK' /\ PlaceOK'
    BY <1>1, <1>3, <2>1, <2>3, <2>4 DEF EvalInv, Typed, OrderOK, PlaceOK, Places, Over
  <2>6. StoppedOK' /\ RunOK'
    BY <1>1, <1>3, <2>2, <2>3, <2>4 DEF EvalInv, StoppedOK, SessionOK, Waived, RunOK
  <2>7. ReportOK'
    BY <1>1, <1>3, FairKept DEF EvalInv, ReportOK
  <2>. QED
    BY <2>5, <2>6, <2>7 DEF EvalInv
<1>. QED
  BY <1>2, <1>3 DEF AddWorktree, At

LEMMA CheckWorktreeStep == ASSUME EvalInv, CheckWorktree PROVE EvalInv'
<1>1. /\ UNCHANGED <<config, position, root, gaveUp, results, report, driving, tree>>
      /\ where = "check"
  BY DEF CheckWorktree
<1>2. CASE where' = "raise" /\ UNCHANGED registered
  BY <1>1, <1>2, RaiseEvaluation DEF Underway
<1>3. CASE where' = "begin" /\ registered' = Register
  <2>1. UNCHANGED <<backend, order, session, active, validations>>
    BY <1>1 DEF config, driving
  <2>2. Entry \in Entries /\ Entry' = Entry
    BY <1>1, EntryFacts DEF Underway, Entry, config
  <2>3. Typed' /\ OrderOK' /\ PlaceOK'
    BY <1>1, <1>3, <2>1, <2>2 DEF EvalInv, Typed, OrderOK, PlaceOK, Places, Over, Underway, Register
  <2>4. StoppedOK' /\ RunOK'
    BY <1>1, <1>3, <2>1, <2>2 DEF EvalInv, StoppedOK, Waived, RunOK, Underway
  <2>5. ReportOK'
    BY <1>1, <1>3, FairKept DEF EvalInv, ReportOK
  <2>. QED
    BY <2>3, <2>4, <2>5 DEF EvalInv
<1>. QED
  BY <1>2, <1>3 DEF CheckWorktree, At

LEMMA StartRunStep == ASSUME EvalInv, StartRun PROVE EvalInv'
<1>1. /\ where = "begin" /\ gaveUp' = FALSE /\ validations' = <<>>
      /\ UNCHANGED <<backend, order, position, root, registered, results, report, active, tree>>
  BY DEF StartRun, config
<1>2. /\ Entry \in Entries /\ Entry' = Entry /\ results[Entry] = Nothing /\ position \in 1 .. Total
      /\ tree[Entry] \in Tree
  BY <1>1, EntryFacts DEF Underway, Entry, EvalInv, RunOK
<1>. validations' \in Seq(BOOLEAN)
  BY <1>1
<1>3. ReportOK'
  <2>1. where' \in {"raise", "run"}
    BY DEF StartRun, At
  <2>. QED
    BY <1>1, <2>1, FairKept DEF EvalInv, ReportOK
<1>4. CASE where' = "raise" /\ UNCHANGED session
  <2>1. Typed' /\ OrderOK' /\ PlaceOK'
    BY <1>1, <1>4 DEF EvalInv, Typed, OrderOK, PlaceOK, Places, Underway
  <2>2. StoppedOK' /\ RunOK'
    BY <1>1, <1>4 DEF EvalInv, StoppedOK, Waived, RunOK, Underway
  <2>. QED
    BY <1>3, <2>1, <2>2 DEF EvalInv
<1>5. CASE where' = "run"
           /\ Goes(Entry, [NoSession EXCEPT !.at = "opening", !.open = (backend = "app-server")])
  <2>1. PICK live \in BOOLEAN : live = (backend = "app-server")
    BY Zenon
  <2>2. PICK s : s = [NoSession EXCEPT !.at = "opening", !.open = live]
    OBVIOUS
  <2>3. s \in Session /\ s.at = "opening" /\ ~s.first /\ ~s.working /\ ~s.abandoned /\ s.turns = 0
    <3>1. 0 \in 0 .. MaxTurns
      BY EvaluationAssumption
    <3>2. s = [at |-> "opening", to |-> "raised", open |-> live, working |-> FALSE, turns |-> 0,
               status |-> "failed", first |-> FALSE, completed |-> 0, abandoned |-> FALSE]
      BY <2>2 DEF NoSession
    <3>. QED
      BY <3>1, <3>2 DEF Session
  <2>4. session' = [session EXCEPT ![Entry] = s]
    <3>1. Goes(Entry, s)
      BY <1>5, <2>1, <2>2, Zenon
    <3>. QED
      BY <2>3, <3>1 DEF Goes, Left
  <2>5. /\ session' \in [Entries -> Session] /\ session'[Entry] = s
        /\ \A d \in Entries \ {Entry} : session'[d] = session[d]
    BY <1>2, <2>3, <2>4 DEF EvalInv, Typed
  <2>6. Typed' /\ OrderOK' /\ PlaceOK'
    BY <1>1, <1>2, <1>5, <2>5 DEF EvalInv, Typed, OrderOK, PlaceOK, Places
  <2>7. StoppedOK'
    BY <1>1, <1>2, <1>5, <2>3, <2>5 DEF EvalInv, StoppedOK, SessionOK, Waived
  <2>8. Good(s, tree[Entry], <<>>)
    BY <2>3 DEF Good, Winding
  <2>9. RunOK'
    BY <1>1, <1>2, <1>5, <2>3, <2>5, <2>8 DEF RunOK
  <2>. QED
    BY <1>3, <2>6, <2>7, <2>9 DEF EvalInv
<1>. QED
  BY <1>4, <1>5 DEF StartRun, At

LEMMA TakesStep == ASSUME EvalInv, Takes PROVE EvalInv'
<1>1. /\ where = "run" /\ session[Entry].at \in {"ended", "raised"}
      /\ UNCHANGED <<backend, order, position, root, registered, gaveUp, results, report, session,
                     active, validations, tree>>
  BY DEF Takes, config, driving
<1>2. /\ where' \in {"revalidate", "measure"} /\ (where' = "measure" => validations # <<>>)
      /\ Entry' = Entry
  BY <1>1 DEF Takes, AfterRun, At, Entry
<1>3. Typed' /\ OrderOK' /\ PlaceOK'
  BY <1>1, <1>2 DEF EvalInv, Typed, OrderOK, PlaceOK, Places, Underway
<1>4. StoppedOK' /\ RunOK'
  BY <1>1, <1>2 DEF EvalInv, StoppedOK, Waived, RunOK, Underway
<1>5. ReportOK'
  BY <1>1, <1>2, FairKept DEF EvalInv, ReportOK
<1>. QED
  BY <1>3, <1>4, <1>5 DEF EvalInv

(* What giving up makes of a session, wherever the client is.              *)
LEMMA GivenUpFacts ==
  ASSUME NEW s \in Session, SessionOK(s), s.at \notin {"none", "validate", "ended", "raised"},
         NEW z, z = GivenUp(s)
  PROVE  z \in Session /\ SessionOK(z) /\ z.at # "none"
<1>1. \/ z = [s EXCEPT !.at = "stopping", !.to = "raised"]
      \/ z = [s EXCEPT !.at = "interrupt", !.to = "raised"]
      \/ z = [s EXCEPT !.at = "raised", !.abandoned = TRUE]
      \/ s.at = "ending" /\ z = [s EXCEPT !.to = "raised"]
      \/ s.at = "ending" /\ z = [s EXCEPT !.at = "raised"]
  BY DEF GivenUp, Session
<1>2. ~s.abandoned
  BY DEF SessionOK
<1>3. CASE z = [s EXCEPT !.at = "stopping", !.to = "raised"]
  BY <1>2, <1>3 DEF Session, SessionOK
<1>4. CASE z = [s EXCEPT !.at = "interrupt", !.to = "raised"]
  BY <1>2, <1>4 DEF Session, SessionOK
<1>5. CASE z = [s EXCEPT !.at = "raised", !.abandoned = TRUE]
  BY <1>5 DEF Session, SessionOK
<1>6. CASE s.at = "ending" /\ z = [s EXCEPT !.to = "raised"]
  BY <1>2, <1>6 DEF Session, SessionOK
<1>7. CASE s.at = "ending" /\ z = [s EXCEPT !.at = "raised"]
  BY <1>2, <1>7 DEF Session, SessionOK
<1>. QED
  BY <1>1, <1>3, <1>4, <1>5, <1>6, <1>7

(* The evaluator gives a run up: nothing but sessions changes, and no      *)
(* session forgets where it is but that of the run.                        *)
LEMMA GivingUp ==
  ASSUME EvalInv, where = "run", gaveUp' = TRUE,
         UNCHANGED <<backend, order, position, root, registered, results, report, active,
                     validations, tree>>,
         where' \in {"run", "revalidate", "measure"}, where' = "measure" => validations # <<>>,
         session' \in [Entries -> Session],
         \A e \in Entries :
           /\ SessionOK(session'[e])
           /\ e # Entry => /\ session'[e].at = session[e].at
                           /\ session'[e].abandoned = session[e].abandoned,
         session'[Entry].at # "none",
         backend # "sdk" => where' = "run"
  PROVE  EvalInv'
<1>1. Entry' = Entry
  BY DEF Entry
<1>2. Entry \in Entries /\ results[Entry] = Nothing /\ tree[Entry] \in Tree
  BY EntryFacts DEF Underway, EvalInv, RunOK
<1>3. Typed' /\ OrderOK' /\ PlaceOK'
  BY DEF EvalInv, Typed, OrderOK, PlaceOK, Places, Underway
<1>4. StoppedOK'
  <2>1. ASSUME NEW e \in Entries, results[e] # Nothing
        PROVE  Waived(e)' \/ session'[e].at = "none"
    <3>1. e # Entry /\ (Waived(e) \/ session[e].at = "none")
      BY <1>2, <2>1 DEF EvalInv, StoppedOK
    <3>. QED
      BY <3>1 DEF Waived
  <2>. QED
    BY <1>1, <2>1 DEF StoppedOK, SessionOK
<1>5. RunOK'
  BY <1>1, <1>2 DEF RunOK
<1>6. ReportOK'
  BY FairKept DEF EvalInv, ReportOK
<1>. QED
  BY <1>3, <1>4, <1>5, <1>6 DEF EvalInv

(* The App Server client of the run gives up.                              *)
LEMMA ClientGivesUp ==
  ASSUME EvalInv, where = "run", gaveUp' = TRUE, where' = "run",
         UNCHANGED <<backend, order, position, root, registered, results, report, active,
                     validations, tree>>,
         session[Entry].at \notin {"none", "validate", "ended", "raised"},
         session' = [session EXCEPT ![Entry] = GivenUp(session[Entry])]
  PROVE  EvalInv'
<1>1. Entry \in Entries
  BY EntryFacts DEF Underway
<1>2. PICK z : z = GivenUp(session[Entry])
  OBVIOUS
<1>3. z \in Session /\ SessionOK(z) /\ z.at # "none"
  BY <1>1, <1>2, SessionFacts, GivenUpFacts
<1>4. /\ session' \in [Entries -> Session] /\ session'[Entry] = z
      /\ \A e \in Entries \ {Entry} : session'[e] = session[e]
  BY <1>1, <1>2, <1>3 DEF EvalInv, Typed
<1>5. \A e \in Entries : SessionOK(session[e])
  BY DEF EvalInv, StoppedOK
<1>. QED
  BY <1>3, <1>4, <1>5, GivingUp

LEMMA GiveUpStep == ASSUME EvalInv, GiveUp PROVE EvalInv'
<1>1. /\ where = "run" /\ gaveUp' = TRUE
      /\ UNCHANGED <<backend, order, position, root, registered, results, report, active,
                     validations, tree>>
  BY DEF GiveUp, config
<1>2. CASE backend = "sdk" /\ session' \in {session, ClosedActive} /\ AfterRun
  <2>1. where' \in {"revalidate", "measure"} /\ (where' = "measure" => validations # <<>>)
    BY <1>2 DEF AfterRun, At
  <2>2. /\ Entry \in Entries /\ session \in [Entries -> Session] /\ session[Entry].at # "none"
        /\ \A e \in Entries : SessionOK(session[e])
    BY <1>1, EntryFacts DEF Underway, EvalInv, Typed, RunOK, StoppedOK
  <2>3. /\ session' \in [Entries -> Session]
        /\ \A e \in Entries :
             /\ SessionOK(session'[e])
             /\ session'[e].at = session[e].at /\ session'[e].abandoned = session[e].abandoned
    <3>1. CASE session' = session
      BY <2>2, <3>1
    <3>2. CASE session' # session
      <4>1. PICK d \in Entries : d = active
        BY <1>2, <3>2 DEF ClosedActive, EvalInv, Typed
      <4>2. PICK s : s = [session[d] EXCEPT !.open = FALSE]
        OBVIOUS
      <4>3. session' = [session EXCEPT ![d] = s]
        BY <1>2, <3>2, <4>1, <4>2 DEF ClosedActive
      <4>4. /\ s \in Session /\ s.at = session[d].at /\ s.abandoned = session[d].abandoned
            /\ ~s.open /\ s.turns = session[d].turns
        BY <2>2, <4>2 DEF Session
      <4>5. SessionOK(s)
        BY <2>2, <4>4 DEF SessionOK
      <4>. QED
        BY <2>2, <4>3, <4>4, <4>5
    <3>. QED
      BY <3>1, <3>2
  <2>. QED
    BY <1>1, <1>2, <2>1, <2>2, <2>3, GivingUp
<1>3. CASE /\ session[Entry].at \in {"opening", "turn"}
           /\ session' = [session EXCEPT ![Entry] = GivenUp(@)]
           /\ UNCHANGED where
  BY <1>1, <1>3, ClientGivesUp
<1>. QED
  BY <1>2, <1>3 DEF GiveUp

LEMMA CancelTaskStep == ASSUME EvalInv, CancelTask PROVE EvalInv'
BY ClientGivesUp DEF CancelTask, config

LEMMA RevalidateStep == ASSUME EvalInv, Revalidate PROVE EvalInv'
<1>1. /\ where = "revalidate"
      /\ UNCHANGED <<backend, order, position, root, registered, gaveUp, results, report, session,
                     active, tree>>
  BY DEF Revalidate, config
<1>2. CASE where' = "raise" /\ UNCHANGED validations
  BY <1>1, <1>2, RaiseEvaluation DEF Underway, config, driving
<1>3. CASE where' = "measure" /\ validations' = validations \o Outcomes(tree[Entry])
  <2>1. Entry' = Entry /\ tree[Entry] \in Tree /\ validations \in Seq(BOOLEAN)
    BY <1>1 DEF Entry, EvalInv, RunOK, Underway, Typed
  <2>2. /\ validations' \in Seq(BOOLEAN) /\ validations' # <<>>
        /\ ~Passes(tree[Entry]) => validations'[Len(validations')] = FALSE
    BY <1>3, <2>1, OutcomesFacts
  <2>3. Typed' /\ OrderOK' /\ PlaceOK'
    BY <1>1, <1>3, <2>2 DEF EvalInv, Typed, OrderOK, PlaceOK, Places, Underway
  <2>4. StoppedOK'
    BY <1>1, <1>3, <2>1 DEF EvalInv, StoppedOK, SessionOK, Waived
  <2>5. ~gaveUp => Good(session[Entry], tree[Entry], validations')
    BY <1>1, <2>2 DEF EvalInv, RunOK, Good
  <2>6. RunOK'
    BY <1>1, <1>3, <2>1, <2>2, <2>5 DEF EvalInv, RunOK
  <2>7. ReportOK'
    BY <1>1, <1>3, FairKept DEF EvalInv, ReportOK
  <2>. QED
    BY <2>3, <2>4, <2>6, <2>7 DEF EvalInv
<1>. QED
  BY <1>2, <1>3 DEF Revalidate, At

(* What is recorded of a run is true of it.                                *)
LEMMA ResultFacts ==
  ASSUME EvalInv, where = "measure", NEW clean \in BOOLEAN, NEW r, r = ResultOf(Entry, clean)
  PROVE  /\ r \in Results /\ r.gaveUp = gaveUp
         /\ r.quality => r.sound
         /\ r.first => r.sound /\ r.turns = 1
<1>1. /\ Entry \in Entries /\ session[Entry] \in Session /\ gaveUp \in BOOLEAN
      /\ validations \in Seq(BOOLEAN)
      /\ ~gaveUp => /\ Good(session[Entry], tree[Entry], validations)
                     /\ session[Entry].at \in {"ended", "raised"}
  BY EntryFacts DEF Underway, EvalInv, Typed, RunOK, StoppedOK
<1>2. PICK q \in BOOLEAN :
        q = Quality(RunStatus(Entry), ValidationPassed(validations), clean)
  BY Zenon DEF Quality
<1>3. PICK f \in BOOLEAN : f = (~gaveUp /\ session[Entry].first)
  BY Zenon
<1>4. PICK n : n = IF ~gaveUp /\ session[Entry].at = "ended" THEN session[Entry].turns ELSE 0
  OBVIOUS
<1>5. PICK u \in BOOLEAN : u = (/\ session[Entry].at = "ended"
                                /\ session[Entry].completed = session[Entry].turns
                                /\ Passes(tree[Entry]))
  BY Zenon
<1>6. r = [quality |-> q, first |-> f, turns |-> n, gaveUp |-> gaveUp, sound |-> u]
  BY <1>2, <1>3, <1>4, <1>5, Zenon DEF ResultOf
<1>7. n \in 0 .. MaxTurns
  BY <1>1, <1>4, EvaluationAssumption DEF Session
<1>8. r \in Results
  BY <1>1, <1>6, <1>7 DEF Results
<1>9. q => u
  <2>1. SUFFICES ASSUME q PROVE u
    OBVIOUS
  <2>2. /\ ~gaveUp /\ session[Entry].at = "ended" /\ session[Entry].status = "completed"
        /\ ValidationPassed(validations)
    BY <1>2, <2>1 DEF Quality, RunStatus
  <2>3. session[Entry].completed = session[Entry].turns
    BY <1>1, <2>2 DEF Good, Winding
  <2>4. Passes(tree[Entry])
    <3>1. SUFFICES ASSUME ~Passes(tree[Entry]) PROVE FALSE
      OBVIOUS
    <3>2. validations # <<>> /\ validations[Len(validations)] = FALSE
      BY <1>1, <2>2, <3>1 DEF Good, Winding
    <3>3. Len(validations) \in 1 .. Len(validations) /\ Len(validations) > Len(validations) - Commands
      BY <1>1, <3>2, EvaluationAssumption
    <3>. QED
      BY <2>2, <3>2, <3>3, Zenon DEF ValidationPassed
  <2>. QED
    BY <1>5, <2>2, <2>3, <2>4
<1>10. f => u /\ n = 1
  BY <1>1, <1>3, <1>4, <1>5 DEF Good, Winding
<1>. QED
  BY <1>6, <1>8, <1>9, <1>10

LEMMA MeasureStep == ASSUME EvalInv, Measure PROVE EvalInv'
<1>1. /\ where = "measure"
      /\ UNCHANGED <<config, root, registered, gaveUp, report, active, validations, tree>>
  BY DEF Measure
<1>2. CASE where' = "raise" /\ UNCHANGED <<position, results, session>>
  BY <1>1, <1>2, RaiseEvaluation DEF Underway, driving
<1>3. ASSUME NEW clean \in BOOLEAN, results' = [results EXCEPT ![Entry] = ResultOf(Entry, clean)],
             session' = [session EXCEPT ![Entry] = Left(session[Entry], TRUE)],
             position' = position + 1,
             where' = "next" \/ (~results'[Entry].quality /\ where' = "report")
      PROVE  EvalInv'
  <2>1. PICK r : r = ResultOf(Entry, clean)
    OBVIOUS
  <2>2. PICK e : e = Entry
    OBVIOUS
  <2>3. /\ e \in Entries /\ e = order[position] /\ position \in 1 .. Total /\ Total \in Nat
        /\ results[e] = Nothing /\ session \in [Entries -> Session]
        /\ results \in [Entries -> Results \cup {Nothing}]
    BY <1>1, <2>2, EntryFacts DEF Underway, EvalInv, Typed, OrderOK
  <2>4. /\ r \in Results /\ r # Nothing /\ r.gaveUp = gaveUp
        /\ r.quality => r.sound
        /\ r.first => r.sound /\ r.turns = 1
    BY <1>1, <2>1, ResultFacts, NothingAssumption
  <2>5. /\ results' \in [Entries -> Results \cup {Nothing}] /\ results'[e] = r
        /\ \A d \in Entries \ {e} : results'[d] = results[d]
    BY <1>3, <2>1, <2>2, <2>3, <2>4
  <2>6. /\ session' \in [Entries -> Session]
        /\ \A d \in Entries \ {e} : session'[d] = session[d]
        /\ session'[e] = Left(session[e], TRUE)
    <3>1. Left(session[e], TRUE) \in Session
      BY <2>3, EvaluationAssumption DEF Left, NoSession, Session
    <3>. QED
      BY <1>3, <2>2, <2>3, <3>1
  <2>7. UNCHANGED <<backend, order, root, registered, gaveUp, report, active, validations, tree>>
    BY <1>1 DEF config
  <2>8. Typed' /\ OrderOK'
    BY <1>3, <2>5, <2>6, <2>7 DEF EvalInv, Typed, OrderOK, Places
  <2>9. PlaceOK'
    <3>1. \A i \in 1 .. Total : order[i] = e <=> i = position
      BY <2>3 DEF EvalInv, OrderOK
    <3>2. \A i \in 1 .. Total : order[i] \in Entries /\ (results[order[i]] # Nothing <=> i < position)
      BY DEF EvalInv, OrderOK, PlaceOK
    <3>3. \A i \in 1 .. Total : results'[order[i]] # Nothing <=> i < position + 1
      BY <2>3, <2>4, <2>5, <3>1, <3>2
    <3>. QED
      BY <1>3, <2>3, <2>7, <3>3 DEF PlaceOK, Underway
  <2>10. StoppedOK'
    <3>1. \A d \in Entries \ {e} : Waived(d)' = Waived(d)
      BY <2>5, <2>6, <2>7 DEF Waived
    <3>2. /\ SessionOK(session[e]) /\ session[e] \in Session
          /\ (gaveUp /\ backend = "sdk") \/ session[e].at \in {"ended", "raised"}
          /\ session[e].abandoned => gaveUp
      BY <1>1, <2>2, <2>3 DEF EvalInv, StoppedOK
    <3>3. session'[e] = session[e] \/ session'[e] = NoSession
      BY <2>6 DEF Left
    <3>4. SessionOK(session'[e])
      BY <3>2, <3>3 DEF NoSession, SessionOK
    <3>5. Waived(e)' \/ session'[e].at = "none"
      <4>1. CASE gaveUp /\ backend = "sdk"
        BY <2>4, <2>5, <2>7, <4>1 DEF Waived
      <4>2. CASE session[e].at \in {"ended", "raised"} /\ ~session[e].open
        BY <2>6, <4>2 DEF Left, NoSession
      <4>3. CASE session[e].at \in {"ended", "raised"} /\ session[e].open
        <5>1. session'[e] = session[e]
          BY <2>6, <4>3 DEF Left
        <5>2. session[e].at = "raised" /\ session[e].abandoned /\ gaveUp
          BY <3>2, <4>3 DEF SessionOK
        <5>. QED
          BY <2>4, <2>5, <5>1, <5>2 DEF Waived
      <4>. QED
        BY <3>2, <4>1, <4>2, <4>3
    <3>6. \A d \in Entries \ {e} :
            SessionOK(session'[d]) /\ (results'[d] # Nothing => Waived(d)' \/ session'[d].at = "none")
      BY <2>5, <2>6, <3>1 DEF EvalInv, StoppedOK
    <3>. QED
      BY <1>3, <3>4, <3>5, <3>6 DEF StoppedOK, SessionOK
  <2>11. RunOK'
    BY <1>3 DEF RunOK, Underway
  <2>12. ReportOK'
    <3>1. report' = Nothing
      BY <1>1, <2>7 DEF EvalInv, ReportOK
    <3>2. ResultsAreReal'
      BY <2>4, <2>5 DEF EvalInv, ReportOK, ResultsAreReal
    <3>3. where' = "report" => results'[e] # Nothing /\ ~results'[e].quality
      BY <1>3, <2>2, <2>4, <2>5
    <3>. QED
      BY <2>3, <3>1, <3>2, <3>3 DEF ReportOK, PassedIsFair
  <2>. QED
    BY <2>8, <2>9, <2>10, <2>11, <2>12 DEF EvalInv
<1>. QED
  BY <1>1, <1>2, <1>3 DEF Measure, At

LEMMA ReportStep == ASSUME EvalInv, Report PROVE EvalInv'
<1>1. PICK parity \in [Tasks -> BOOLEAN] : report' = [passed |-> Passed(parity), parity |-> parity]
  BY DEF Report
<1>2. /\ where = "report" \/ (where = "next" /\ position > Len(order))
      /\ where' = "clean"
      /\ UNCHANGED <<config, position, root, registered, gaveUp, results, driving, tree>>
  BY DEF Report, At
<1>3. report'.passed = Passed(parity) /\ report'.parity = parity
  BY <1>1
<1>4. ASSUME Passed(parity)
      PROVE  /\ \A t \in Tasks : parity[t]
             /\ \A e \in Entries : results[e] # Nothing /\ results[e].quality
  <2>1. /\ \A e \in Entries : results[e] # Nothing => results[e].quality
        /\ \A p \in Compared : Eligible(p, parity)
    BY <1>4 DEF Passed
  <2>2. where = "next" /\ position > Len(order)
    BY <1>2, <2>1 DEF EvalInv, ReportOK
  <2>3. \A e \in Entries : results[e] # Nothing
    <3>1. /\ Total \in Nat /\ order \in [1 .. Total -> Entries] /\ position \in 1 .. Total + 1
      BY DEF EvalInv, OrderOK, PlaceOK
    <3>2. Len(order) = Total
      BY <3>1
    <3>3. \A i \in 1 .. Total : i < position
      BY <2>2, <3>1, <3>2
    <3>. QED
      BY <3>1, <3>3 DEF EvalInv, OrderOK, PlaceOK
  <2>4. ASSUME NEW t \in Tasks PROVE parity[t]
    <3>1. PICK p : p = <<t, 1>>
      OBVIOUS
    <3>2. p \in Pairs /\ p[1] = t /\ p[2] = 1
      BY <3>1, EvaluationAssumption DEF Pairs
    <3>3. [task |-> t, repetition |-> 1, mode |-> "baseline"] \in Entries
      BY EvaluationAssumption DEF Entries, Modes
    <3>4. Have(p, "baseline") # Nothing /\ "baseline" \in Modes
      BY <2>3, <3>2, <3>3 DEF Have, Modes
    <3>5. p \in Compared
      BY <3>2, <3>4 DEF Compared
    <3>6. parity[p[1]]
      BY <2>1, <3>5, Zenon DEF Eligible
    <3>. QED
      BY <3>2, <3>6
  <2>. QED
    BY <2>1, <2>3, <2>4
<1>5. PassedIsFair'
  BY <1>2, <1>3, <1>4 DEF PassedIsFair
<1>6. tree \in [Entries -> Tree \cup {Nothing}] /\ root \in {"none", "there", "kept", "refused", "stuck"}
  BY DEF EvalInv, Typed
<1>. QED
  BY <1>2, <1>5, <1>6, AsideStep

LEMMA NextEval == ASSUME EvalInv, [Next]_vars PROVE EvalInv'
<1>1. ASSUME NEW e \in Entries, Drive(e) PROVE EvalInv'
  BY <1>1, OpensStep, SentStep, WorksStep, ReroutesStep, CompletesStep, CompletesAnotherStep,
     BreaksStep, ClosesOutputStep, StreamEndsStep, ValidatesStep DEF Drive
<1>2. ASSUME NEW e \in Entries, Stop(e) PROVE EvalInv'
  BY <1>2, InterruptedStep, GraceEndsStep, ReapedStep, DiesStep DEF Stop
<1>3. ASSUME Evaluate PROVE EvalInv'
  BY <1>3, BeginStep, PrepareSeedsStep, AddWorktreeStep, CheckWorktreeStep, StartRunStep,
     TakesStep, GiveUpStep, RevalidateStep, MeasureStep, ReportStep, CleanStep DEF Evaluate
<1>4. ASSUME UNCHANGED vars PROVE EvalInv'
  BY <1>4 DEF vars, config, loop, driving, EvalInv, Typed, OrderOK, PlaceOK, StoppedOK, Waived,
     RunOK, ReportOK, PassedIsFair, ResultsAreReal, Entry
<1>. QED
  BY <1>1, <1>2, <1>3, <1>4, CancelTaskStep DEF Next

-----------------------------------------------------------------------------
(* CodexEvaluator.run: the inductive invariant holds, however the agents   *)
(* behave and whenever a run is given up.                                  *)
THEOREM EvalInvariant == Spec => []EvalInv
<1>1. Init => EvalInv
  BY InitEval
<1>2. EvalInv /\ [Next]_vars => EvalInv'
  BY NextEval
<1>. QED
  BY <1>1, <1>2, PTL DEF Spec

(* CodexEvaluator.run: a run that is driven or measured has its worktree   *)
(* and its backend, and is measured with the outcomes of a validation.     *)
THEOREM EvalTyped == Spec => []TypeOK
<1>1. ASSUME EvalInv PROVE TypeOK
  <2>1. position \in 1 .. Cardinality(Entries) + 1
    BY <1>1 DEF EvalInv, PlaceOK, Total
  <2>2. where \in {"run", "revalidate", "measure"} =>
          tree[Entry] # Nothing /\ session[Entry].at # "none"
    BY <1>1, NothingAssumption DEF EvalInv, RunOK, Underway
  <2>3. where = "measure" => validations # <<>>
    BY <1>1 DEF EvalInv, RunOK
  <2>. QED
    BY <1>1, <2>1, <2>2, <2>3 DEF EvalInv, Typed, TypeOK, Places
<1>. QED
  BY <1>1, EvalInvariant, PTL

(* SDKBackend.run and CodexAppServer.run: once a run is measured no agent  *)
(* is alive in its name, but one of the SDK that was given up, and one of  *)
(* the App Server whose client was cancelled before it had killed it; and  *)
(* each of them is reported as given up.                                   *)
THEOREM StopsAgents == Spec => []AgentsAreStopped
<1>1. ASSUME EvalInv PROVE AgentsAreStopped
  BY <1>1 DEF EvalInv, StoppedOK, SessionOK, Waived, AgentsAreStopped
<1>. QED
  BY <1>1, EvalInvariant, PTL

(* CodexEvaluator._run_one: a result of quality, or of a first attempt,    *)
(* was completed by the agent in its last turn and validates as it was     *)
(* left, though the list of outcomes is that of several validations.       *)
THEOREM CountsRealResults == Spec => []ResultsAreReal
<1>1. ASSUME EvalInv PROVE ResultsAreReal
  BY <1>1 DEF EvalInv, ReportOK
<1>. QED
  BY <1>1, EvalInvariant, PTL

(* _summary: an evaluation that passed has compared every task in both     *)
(* modes, as often as was asked for, also when it could stop early.        *)
THEOREM PassesFairly == Spec => []PassedIsFair
<1>1. ASSUME EvalInv PROVE PassedIsFair
  BY <1>1 DEF EvalInv, ReportOK
<1>. QED
  BY <1>1, EvalInvariant, PTL
=============================================================================
