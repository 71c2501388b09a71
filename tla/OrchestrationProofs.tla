------------------------ MODULE OrchestrationProofs ------------------------
(***************************************************************************)
(* Theorems about Orchestration for every population, every scenery, every *)
(* set of limits and any number of inputs and tool calls.                  *)
(***************************************************************************)
EXTENDS Orchestration, FiniteSetTheorems, TLAPS

Labels == {"idle", "round", "narrator", "barrier", "topology", "resolve",
           "generation", "spawn", "npc", "npc_turn", "narrate"}

Characters == [place : Places \cup {Nowhere}, agent : BOOLEAN, kept : BOOLEAN]

Requests == [n : Nat, actor : Npcs, scene : Scenes, input : Nat]

Results == [request : Requests, status : Statuses \cup {"stale"}]

WorldTyped == /\ where \in Places
              /\ npc \in [Npcs -> Characters]
              /\ heard \in [Npcs -> SUBSET (1..input)]

InputTyped == /\ input \in 0..MaxInputs
              /\ pc # "idle" => input > 0
              /\ visible \subseteq Npcs
              /\ witnessed \in [1..MaxInputs -> SUBSET Npcs]

CountersTyped == usage \in Nat /\ started \in Nat /\ begun \in Nat

PlanTyped == /\ turns \in Seq(Requests)
             /\ plan \in Seq(Requests)
             /\ asked \in Seq(Requests)
             /\ results \in Seq(Results)
             /\ exhausted \in BOOLEAN

(* What each step of an input works on.  A decision is queued by the call  *)
(* that ends the turn, so the player is still where it was taken; and an   *)
(* NPC turn is one of a character that exists.                             *)
WorkInv ==
  /\ topology # Nothing => topology.to \in Scenes \cup {None}
  /\ pc \notin {"idle", "barrier"} => decision = Nothing
  /\ pc = "barrier" => decision.place = where /\ decision.what \in Decisions
  /\ pc = "topology" => work.to \in Scenes \cup {None}
  /\ pc \in {"resolve", "generation", "spawn"} =>
       work.place = where /\ work.what \in Decisions
  /\ pc = "npc_turn" => work \in Requests /\ npc[work.actor].place \in Places

TypeInv == /\ pc \in Labels
           /\ WorldTyped /\ InputTyped /\ CountersTyped /\ PlanTyped
           /\ WorkInv

-----------------------------------------------------------------------------
(* The steps that only move the input along, or end it: a transition of    *)
(* the program counter and nothing else.                                   *)
Moves == \/ RoundRefused \/ ResolveStops \/ ResolveUnspawned \/ PlanDone
         \/ Narrate \/ NpcStoreError

(* The steps of the player and of the clock, and no step at all.           *)
Outside == Cancel \/ Deadline \/ Done \/ UNCHANGED vars

(* The NPC turns that never start.                                         *)
Skips == NpcCancelled \/ NpcOutOfBudget \/ NpcStale

LEMMA MovesFrame ==
  ASSUME Moves
  PROVE  /\ UNCHANGED <<worldVars, queueVars, budgetVars, planVars, inputVars,
                        cancelled, late, tools, begun>>
         /\ pc \notin {"idle", "barrier"} /\ pc' \in {"idle", "round"}
  BY DEF Moves, RoundRefused, ResolveStops, ResolveUnspawned, PlanDone, Narrate,
         NpcStoreError, Goto, Return

LEMMA OutsideFrame ==
  ASSUME Outside
  PROVE  UNCHANGED <<worldVars, queueVars, budgetVars, planVars, inputVars,
                     pc, tools, begun>>
  BY DEF Outside, Cancel, Deadline, Done, vars

LEMMA LimitsTyped ==
  /\ MaxInputs \in Nat /\ MaxTools \in Nat /\ TurnCalls \in Nat
  /\ max_model_calls \in Nat /\ max_started_agent_turns \in Nat
  /\ max_orchestration_rounds \in Nat
  /\ max_materialized_per_scene \in Nat /\ max_persistent_generated \in Nat
  BY OrchestrationAssumption DEF OrchestrationAssumption

LEMMA SceneryTyped ==
  /\ \A p \in Places : SceneOf[p] \in Scenes
  /\ \A s \in Scenes : Entry[s] \in Places
  /\ Home \in Places /\ Nowhere \notin Places
  BY OrchestrationAssumption DEF OrchestrationAssumption

LEMMA TypeInit ==
  ASSUME Init
  PROVE  TypeInv
  <1>1. WorldTyped
    BY SceneryTyped DEF Init, WorldTyped, Characters
  <1>2. InputTyped
    BY LimitsTyped DEF Init, InputTyped
  <1>3. CountersTyped
    BY DEF Init, CountersTyped
  <1>4. PlanTyped
    <2>1. \A S : <<>> \in Seq(S)
      OBVIOUS
    <2> QED
      BY <2>1 DEF Init, PlanTyped
  <1>5. WorkInv /\ pc \in Labels
    BY DEF Init, WorkInv, Labels
  <1> QED
    BY <1>1, <1>2, <1>3, <1>4, <1>5 DEF TypeInv

(* What the end of any turn leaves alone.                                  *)
TurnFrame ==
  /\ pc \notin {"idle", "npc"}
  /\ UNCHANGED <<where, npc, heard, input, visible, witnessed, settled, started, begun>>

LEMMA TurnEndsFrame ==
  ASSUME TurnEnds
  PROVE  TurnFrame /\ \E calls \in 0..TurnCalls : Merge(calls)
  <1>1. ASSUME NEW calls \in 0..TurnCalls, NarratorCompleted(calls)
        PROVE  TurnFrame /\ Merge(calls)
    BY <1>1 DEF NarratorCompleted, TurnFrame, worldVars, inputVars
  <1>2. ASSUME NEW calls \in 0..TurnCalls, NEW status \in Statuses,
               NarratorOver(status, calls)
        PROVE  TurnFrame /\ Merge(calls)
    BY <1>2 DEF NarratorOver, TurnFrame, worldVars, inputVars
  <1>3. ASSUME NEW calls \in 0..TurnCalls, NEW status \in Statuses,
               NarratorFailed(status, calls)
        PROVE  TurnFrame /\ Merge(calls)
    BY <1>3 DEF NarratorFailed, TurnFrame, worldVars, inputVars
  <1>4. ASSUME NEW calls \in 0..TurnCalls, NEW status \in Statuses,
               NpcEnds(status, calls)
        PROVE  TurnFrame /\ Merge(calls)
    BY <1>4 DEF NpcEnds, TurnFrame, inputVars
  <1>5. ASSUME NEW calls \in 0..TurnCalls, NEW status \in Statuses,
               NEW submitted \in BOOLEAN, GenerationEnds(status, calls, submitted)
        PROVE  TurnFrame /\ Merge(calls)
    BY <1>5 DEF GenerationEnds, TurnFrame, worldVars, inputVars
  <1> QED
    BY <1>1, <1>2, <1>3, <1>4, <1>5 DEF TurnEnds

LEMMA WorldStep ==
  ASSUME TypeInv, [Next]_vars
  PROVE  WorldTyped'
  <1> USE DEF TypeInv
  <1>1. CASE Begin
    BY <1>1 DEF Begin, WorldTyped, InputTyped, worldVars
  <1>2. CASE Moves
    BY <1>2, MovesFrame DEF WorldTyped, worldVars, inputVars
  <1>3. CASE Outside
    BY <1>3, OutsideFrame DEF WorldTyped, worldVars, inputVars
  <1>4. CASE Skips
    BY <1>4 DEF Skips, NpcCancelled, NpcOutOfBudget, NpcStale, WorldTyped,
                worldVars, inputVars
  <1>5. CASE StartRound
    BY <1>5 DEF StartRound, WorldTyped, inputVars
  <1>6. CASE NarratorTurn
    <2>1. npc' = npc /\ heard' = heard /\ input' = input
          /\ where' \in Places
      BY <1>6 DEF NarratorTurn, NarratorAct, RequestNpcTurn, QueueTopology,
                  CreateNpc, WorldTyped, worldVars, inputVars
    <2> QED
      BY <2>1 DEF WorldTyped
  <1>7. CASE TurnEnds
    <2>1. npc' = npc /\ heard' = heard /\ input' = input /\ where' = where
      BY <1>7, TurnEndsFrame DEF TurnFrame
    <2> QED
      BY <2>1 DEF WorldTyped
  <1>8. CASE ExecuteTopology
    <2>1. where' \in Places
      BY <1>8, SceneryTyped DEF ExecuteTopology, WorldTyped, WorkInv
    <2> QED
      BY <1>8, <2>1 DEF ExecuteTopology, WorldTyped, inputVars
  <1>9. CASE SpawnPreset \/ SpawnGenerated
    <2>1. /\ work.place \in Places
          /\ work.what.agent \in BOOLEAN
      BY <1>9, OrchestrationAssumption
         DEF OrchestrationAssumption, SpawnPreset, SpawnGenerated, WorkInv,
             WorldTyped, DecisionType
    <2>2. npc' \in [Npcs -> Characters]
      <3>1. ASSUME Spawn PROVE npc' \in [Npcs -> Characters]
        <4> DEFINE a == CHOOSE new \in Npcs : ~Exists(new)
                   new == [place |-> work.place, agent |-> work.what.agent,
                           kept |-> Generated /\ work.what.persistent]
        <4>1. new \in Characters
          BY <2>1 DEF Characters
        <4>2. npc' = [npc EXCEPT ![a] = new]
          BY <3>1 DEF Spawn
        <4> HIDE DEF new, a
        <4> QED
          BY <4>1, <4>2 DEF WorldTyped
      <3> QED
        BY <1>9, <3>1 DEF SpawnPreset, SpawnGenerated, WorldTyped
    <2>3. where' = where /\ heard' = heard /\ input' = input
      BY <1>9 DEF SpawnPreset, SpawnGenerated
    <2> QED
      BY <2>2, <2>3 DEF WorldTyped
  <1>10. CASE StartGeneration
    BY <1>10 DEF StartGeneration, WorldTyped, worldVars, inputVars
  <1>11. CASE NpcStarts \/ NpcRefused
    <2>1. /\ where' = where /\ npc' = npc /\ input' = input
          /\ Remember(Head(plan).actor)
      BY <1>11 DEF NpcStarts, NpcRefused, inputVars
    <2>2. input \in 1..input
      BY <1>11, LimitsTyped DEF NpcStarts, NpcRefused, NextRequest, InputTyped
    <2>3. heard' \in [Npcs -> SUBSET (1..input)]
      BY <2>1, <2>2 DEF Remember, WorldTyped
    <2> QED
      BY <2>1, <2>3 DEF WorldTyped
  <1>12. CASE NpcAct
    <2>1. npc' \in [Npcs -> Characters]
      <3>1. PICK p \in Places : npc' = [npc EXCEPT ![work.actor].place = p]
        BY <1>12 DEF NpcAct
      <3> QED
        BY <3>1 DEF WorldTyped, Characters
    <2> QED
      BY <1>12, <2>1 DEF NpcAct, WorldTyped, inputVars
  <1> QED
    BY <1>1, <1>2, <1>3, <1>4, <1>5, <1>6, <1>7, <1>8, <1>9, <1>10, <1>11,
       <1>12 DEF Next, Runtime, Moves, Outside, Skips

LEMMA InputStep ==
  ASSUME TypeInv, [Next]_vars
  PROVE  InputTyped'
  <1> USE DEF TypeInv
  <1>1. CASE Begin
    <2>1. /\ input' = input + 1 /\ input < MaxInputs
          /\ visible' = Together
          /\ witnessed' = [witnessed EXCEPT ![input'] = Together]
      BY <1>1 DEF Begin
    <2>2. Together \subseteq Npcs
      BY DEF Together
    <2>3. input' \in 1..MaxInputs
      BY <2>1, LimitsTyped DEF InputTyped
    <2> QED
      BY <2>1, <2>2, <2>3, LimitsTyped DEF InputTyped
  <1>2. CASE Moves
    BY <1>2, MovesFrame DEF InputTyped, inputVars
  <1>3. CASE Outside
    BY <1>3, OutsideFrame DEF InputTyped, inputVars
  <1>4. CASE ~Begin /\ ~Moves /\ ~Outside
    <2>1. pc # "idle" /\ UNCHANGED <<input, visible, witnessed>>
      <3>1. CASE Skips \/ StartRound \/ ExecuteTopology \/ NarratorTurn
        BY <3>1 DEF Skips, NpcCancelled, NpcOutOfBudget, NpcStale, NextRequest,
             StartRound, ExecuteTopology, NarratorTurn, NarratorTool,
             NarratorAct, RequestNpcTurn, QueueTopology, CreateNpc, inputVars
      <3>2. CASE TurnEnds
        BY <3>2, TurnEndsFrame DEF TurnFrame
      <3>3. CASE SpawnPreset \/ SpawnGenerated \/ StartGeneration
        BY <3>3 DEF SpawnPreset, SpawnGenerated, StartGeneration, inputVars
      <3>4. CASE NpcStarts \/ NpcRefused \/ NpcAct
        BY <3>4 DEF NpcStarts, NpcRefused, NpcAct, NextRequest, inputVars
      <3> QED
        BY <1>4, <3>1, <3>2, <3>3, <3>4
           DEF Next, Runtime, Moves, Outside, Skips
    <2> QED
      BY <2>1 DEF InputTyped
  <1> QED
    BY <1>1, <1>2, <1>3, <1>4

LEMMA MergeTyped ==
  ASSUME CountersTyped, NEW calls \in 0..TurnCalls, Merge(calls)
  PROVE  usage' \in Nat
  BY LimitsTyped DEF CountersTyped, Merge

LEMMA CountersStep ==
  ASSUME TypeInv, [Next]_vars
  PROVE  CountersTyped'
  <1> USE DEF TypeInv
  <1>1. CASE Begin
    BY <1>1 DEF Begin, CountersTyped
  <1>2. CASE Moves
    BY <1>2, MovesFrame DEF CountersTyped, budgetVars
  <1>3. CASE Outside
    BY <1>3, OutsideFrame DEF CountersTyped, budgetVars
  <1>4. CASE Skips \/ ExecuteTopology \/ NarratorTurn \/ NpcAct
    BY <1>4 DEF Skips, NpcCancelled, NpcOutOfBudget, NpcStale, ExecuteTopology,
         NarratorTurn, NarratorAct, RequestNpcTurn, QueueTopology, CreateNpc,
         NpcAct, CountersTyped, budgetVars
  <1>5. CASE StartRound
    BY <1>5 DEF StartRound, CountersTyped
  <1>6. CASE TurnEnds
    <2>1. PICK calls \in 0..TurnCalls :
            Merge(calls) /\ UNCHANGED <<started, begun>>
      BY <1>6, TurnEndsFrame DEF TurnFrame
    <2> QED
      BY <2>1, MergeTyped DEF CountersTyped
  <1>7. CASE SpawnPreset \/ SpawnGenerated \/ StartGeneration
    BY <1>7 DEF SpawnPreset, SpawnGenerated, StartGeneration, CountersTyped,
         budgetVars
  <1>8. CASE NpcStarts \/ NpcRefused
    BY <1>8 DEF NpcStarts, NpcRefused, CountersTyped, budgetVars
  <1> QED
    BY <1>1, <1>2, <1>3, <1>4, <1>5, <1>6, <1>7, <1>8
       DEF Next, Runtime, Moves, Outside, Skips

(* What becomes of the plan when its next request is answered at once or   *)
(* taken up.                                                               *)
LEMMA RequestTyped ==
  ASSUME PlanTyped, NextRequest
  PROVE  /\ Head(plan) \in Requests
         /\ plan' \in Seq(Requests)
  BY DEF PlanTyped, NextRequest

LEMMA ResultTyped ==
  ASSUME PlanTyped, NEW request \in Requests,
         NEW status \in Statuses \cup {"stale"}, Result(request, status)
  PROVE  results' \in Seq(Results)
  <1>1. [request |-> request, status |-> status] \in Results
    BY DEF Results
  <1> QED
    BY <1>1 DEF PlanTyped, Result

LEMMA PlanStep ==
  ASSUME TypeInv, [Next]_vars
  PROVE  PlanTyped'
  <1> USE DEF TypeInv
  <1>0. \A S : <<>> \in Seq(S)
    OBVIOUS
  <1>1. CASE Begin
    BY <1>0, <1>1 DEF Begin, DropLeftovers, TakeQueues, PlanTyped
  <1>2. CASE Moves
    BY <1>2, MovesFrame DEF PlanTyped, planVars, queueVars
  <1>3. CASE Outside
    BY <1>3, OutsideFrame DEF PlanTyped, planVars, queueVars
  <1>4. CASE Skips
    <2>1. PICK status \in Statuses \cup {"stale"} :
            Result(Head(plan), status)
      BY <1>4 DEF Skips, NpcCancelled, NpcOutOfBudget, NpcStale, Statuses
    <2>2. /\ NextRequest /\ UNCHANGED <<turns, asked, exhausted>>
      BY <1>4 DEF Skips, NpcCancelled, NpcOutOfBudget, NpcStale, queueVars
    <2> QED
      BY <2>1, <2>2, RequestTyped, ResultTyped DEF PlanTyped
  <1>5. CASE StartRound
    BY <1>0, <1>5 DEF StartRound, PlanTyped, queueVars
  <1>6. CASE NarratorTurn
    <2>1. ASSUME NEW a \in Npcs, RequestNpcTurn(a)
          PROVE  turns' \in Seq(Requests)
      <3> DEFINE r == [n |-> Len(turns) + 1, actor |-> a,
                       scene |-> SceneOf[where], input |-> input]
      <3>1. Len(turns) \in Nat /\ input \in Nat /\ SceneOf[where] \in Scenes
        BY LimitsTyped, SceneryTyped DEF PlanTyped, InputTyped, WorldTyped
      <3>2. r \in Requests
        BY <3>1 DEF Requests
      <3>3. turns' = Append(turns, r)
        BY <2>1 DEF RequestNpcTurn
      <3> HIDE DEF r
      <3> QED
        BY <3>2, <3>3 DEF PlanTyped
    <2>2. /\ UNCHANGED <<plan, asked, results, exhausted>>
          /\ turns' = turns \/ \E a \in Npcs : RequestNpcTurn(a)
      BY <1>6 DEF NarratorTurn, NarratorAct, RequestNpcTurn, QueueTopology,
                  CreateNpc, queueVars, planVars
    <2> QED
      BY <2>1, <2>2 DEF PlanTyped
  <1>7. CASE TurnEnds
    <2>1. ASSUME NEW calls \in 0..TurnCalls, NarratorCompleted(calls)
          PROVE  PlanTyped'
      BY <1>0, <2>1 DEF NarratorCompleted, TakeQueues, PlanTyped
    <2>2. ASSUME NEW calls \in 0..TurnCalls, NEW status \in Statuses,
                 NEW submitted \in BOOLEAN,
                 NarratorOver(status, calls) \/ NarratorFailed(status, calls)
                 \/ GenerationEnds(status, calls, submitted)
          PROVE  PlanTyped'
      BY <1>0, <2>2 DEF NarratorOver, NarratorFailed, GenerationEnds,
                        TakeQueues, PlanTyped, planVars, queueVars
    <2>3. ASSUME NEW calls \in 0..TurnCalls, NEW status \in Statuses,
                 NpcEnds(status, calls)
          PROVE  PlanTyped'
      <3>1. work \in Requests
        BY <2>3 DEF NpcEnds, WorkInv
      <3>2. results' = results \/ Result(work, status)
        BY <2>3 DEF NpcEnds
      <3>3. results' \in Seq(Results)
        BY <3>1, <3>2, ResultTyped DEF PlanTyped
      <3>4. UNCHANGED <<turns, plan, asked>>
        BY <2>3 DEF NpcEnds, queueVars
      <3>5. exhausted' \in BOOLEAN
        BY <2>3 DEF NpcEnds
      <3> QED
        BY <3>3, <3>4, <3>5 DEF PlanTyped
    <2> QED
      BY <1>7, <2>1, <2>2, <2>3 DEF TurnEnds
  <1>8. CASE ExecuteTopology \/ SpawnPreset \/ SpawnGenerated
             \/ StartGeneration \/ NpcAct
    BY <1>8 DEF ExecuteTopology, SpawnPreset, SpawnGenerated, StartGeneration,
         NpcAct, PlanTyped, planVars, queueVars
  <1>9. CASE NpcStarts
    BY <1>9, RequestTyped DEF NpcStarts, PlanTyped, queueVars
  <1>10. CASE NpcRefused
    <2>1. results' \in Seq(Results)
      BY <1>10, RequestTyped, ResultTyped DEF NpcRefused, Statuses
    <2> QED
      BY <1>10, <2>1, RequestTyped DEF NpcRefused, PlanTyped, queueVars
  <1> QED
    BY <1>1, <1>2, <1>3, <1>4, <1>5, <1>6, <1>7, <1>8, <1>9, <1>10
       DEF Next, Runtime, Moves, Outside, Skips

LEMMA LabelStep ==
  ASSUME TypeInv, [Next]_vars
  PROVE  pc' \in Labels
  <1> USE DEF TypeInv, Labels
  <1>1. CASE Begin
    BY <1>1 DEF Begin, Return
  <1>2. CASE Moves
    BY <1>2, MovesFrame
  <1>3. CASE Outside
    BY <1>3, OutsideFrame
  <1>4. CASE Skips \/ StartRound \/ ExecuteTopology \/ NarratorTurn
    BY <1>4 DEF Skips, NpcCancelled, NpcOutOfBudget, NpcStale, StartRound,
         ExecuteTopology, NarratorTurn, NarratorAct, RequestNpcTurn,
         QueueTopology, CreateNpc, Goto, Return
  <1>5. CASE TurnEnds
    <2>1. ASSUME NEW calls \in 0..TurnCalls, NarratorCompleted(calls)
          PROVE  pc' \in {"topology", "resolve", "npc", "narrate"}
      BY <2>1 DEF NarratorCompleted, Goto
    <2>2. ASSUME NEW calls \in 0..TurnCalls, NEW status \in Statuses,
                 NEW submitted \in BOOLEAN,
                 NarratorOver(status, calls) \/ NarratorFailed(status, calls)
                 \/ NpcEnds(status, calls)
                 \/ GenerationEnds(status, calls, submitted)
          PROVE  pc' \in {"idle", "npc", "round", "spawn"}
      BY <2>2 DEF NarratorOver, NarratorFailed, NpcEnds, GenerationEnds, Goto,
                  Return
    <2> QED
      BY <1>5, <2>1, <2>2 DEF TurnEnds
  <1>6. CASE SpawnPreset \/ SpawnGenerated \/ StartGeneration
    BY <1>6 DEF SpawnPreset, SpawnGenerated, StartGeneration, Goto, Return
  <1>7. CASE NpcStarts \/ NpcRefused \/ NpcAct
    BY <1>7 DEF NpcStarts, NpcRefused, NpcAct, Goto
  <1> QED
    BY <1>1, <1>2, <1>3, <1>4, <1>5, <1>6, <1>7
       DEF Next, Runtime, Moves, Outside, Skips

LEMMA WorkStep ==
  ASSUME TypeInv, [Next]_vars
  PROVE  WorkInv'
  <1> USE DEF TypeInv
  <1>1. CASE Begin
    BY <1>1 DEF Begin, DropLeftovers, TakeQueues, Return, WorkInv
  <1>2. CASE Moves
    BY <1>2, MovesFrame DEF WorkInv, queueVars
  <1>3. CASE Outside
    BY <1>3, OutsideFrame
       DEF WorkInv, worldVars, queueVars, planVars
  <1>4. CASE Skips
    BY <1>4 DEF Skips, NpcCancelled, NpcOutOfBudget, NpcStale, NextRequest,
         WorkInv, worldVars, queueVars
  <1>5. CASE StartRound
    BY <1>5 DEF StartRound, Goto, WorkInv, queueVars
  <1>6. CASE NarratorTurn
    <2>1. ASSUME NarratorAct \/ \E a \in Npcs : RequestNpcTurn(a)
          PROVE  WorkInv'
      BY <2>1 DEF NarratorAct, RequestNpcTurn, NarratorTool, WorkInv, queueVars
    <2>2. ASSUME NEW to \in Scenes \cup {None}, QueueTopology(to)
          PROVE  WorkInv'
      BY <2>2 DEF QueueTopology, NarratorTool, WorkInv
    <2>3. ASSUME NEW d \in Decisions, CreateNpc(d)
          PROVE  WorkInv'
      BY <2>3 DEF CreateNpc, NarratorTool, Goto, WorkInv, worldVars
    <2> QED
      BY <1>6, <2>1, <2>2, <2>3 DEF NarratorTurn
  <1>7. CASE TurnEnds
    <2>1. ASSUME NEW calls \in 0..TurnCalls, NarratorCompleted(calls)
          PROVE  WorkInv'
      <3>1. /\ decision' = Nothing /\ topology' = Nothing
            /\ where' = where /\ npc' = npc
        BY <2>1 DEF NarratorCompleted, TakeQueues, worldVars
      <3>2. pc' = "topology" => work'.to \in Scenes \cup {None}
        BY <2>1 DEF NarratorCompleted, Goto, WorkInv
      <3>3. pc' = "resolve" => work'.place = where /\ work'.what \in Decisions
        BY <2>1 DEF NarratorCompleted, Goto, WorkInv
      <3>4. pc' \in {"topology", "resolve", "npc", "narrate"}
        BY <2>1 DEF NarratorCompleted, Goto
      <3> QED
        BY <3>1, <3>2, <3>3, <3>4 DEF WorkInv
    <2>2. ASSUME NEW calls \in 0..TurnCalls, NEW status \in Statuses,
                 NarratorOver(status, calls) \/ NarratorFailed(status, calls)
                 \/ NpcEnds(status, calls)
          PROVE  WorkInv'
      BY <2>2 DEF NarratorOver, NarratorFailed, NpcEnds, TakeQueues, Goto,
                  Return, WorkInv, queueVars
    <2>3. ASSUME NEW calls \in 0..TurnCalls, NEW status \in Statuses,
                 NEW submitted \in BOOLEAN,
                 GenerationEnds(status, calls, submitted)
          PROVE  WorkInv'
      <3>1. /\ pc = "generation" /\ pc' \in {"idle", "round", "spawn"}
            /\ UNCHANGED <<where, npc, decision, topology>>
        BY <2>3 DEF GenerationEnds, Goto, Return, worldVars
      <3>2. pc' = "spawn" => work'.place = work.place /\ work'.what = work.what
        BY <2>3 DEF GenerationEnds, Goto, Return
      <3> QED
        BY <3>1, <3>2 DEF WorkInv
    <2> QED
      BY <1>7, <2>1, <2>2, <2>3 DEF TurnEnds
  <1>8. CASE ExecuteTopology
    BY <1>8 DEF ExecuteTopology, Goto, Return, WorkInv, queueVars
  <1>9. CASE SpawnPreset \/ SpawnGenerated
    BY <1>9 DEF SpawnPreset, SpawnGenerated, Goto, WorkInv, queueVars
  <1>10. CASE StartGeneration
    BY <1>10 DEF StartGeneration, Goto, Return, WorkInv, worldVars, planVars
  <1>11. CASE NpcStarts
    <2>1. /\ pc = "npc" /\ pc' = "npc_turn" /\ work' = Head(plan)
          /\ Fits(Head(plan))
          /\ UNCHANGED <<where, npc, decision, topology>>
      BY <1>11 DEF NpcStarts, NextRequest, Goto, queueVars
    <2>2. work' \in Requests
      BY <1>11, <2>1, RequestTyped DEF NpcStarts
    <2>3. npc'[work'.actor].place \in Places
      BY <2>1 DEF Fits, Addressable, WorldTyped
    <2> QED
      BY <2>1, <2>2, <2>3 DEF WorkInv
  <1>12. CASE NpcRefused
    BY <1>12 DEF NpcRefused, NextRequest, WorkInv, queueVars
  <1>13. CASE NpcAct
    <2>1. /\ pc = "npc_turn" /\ pc' = pc
          /\ UNCHANGED <<where, decision, topology, work>>
      BY <1>13 DEF NpcAct, queueVars
    <2>2. PICK p \in Places : npc' = [npc EXCEPT ![work.actor].place = p]
      BY <1>13 DEF NpcAct
    <2>3. work \in Requests /\ work.actor \in Npcs
      BY <2>1 DEF WorkInv, Requests
    <2>4. npc'[work.actor].place \in Places
      BY <2>2, <2>3 DEF WorldTyped, Characters
    <2> QED
      BY <2>1, <2>3, <2>4 DEF WorkInv
  <1> QED
    BY <1>1, <1>2, <1>3, <1>4, <1>5, <1>6, <1>7, <1>8, <1>9, <1>10, <1>11,
       <1>12, <1>13 DEF Next, Runtime, Moves, Outside, Skips

(* Type correctness, and with it what each step of an input works on: a    *)
(* decision is spawned where it was taken, an NPC turn is one of an NPC    *)
(* that exists.                                                            *)
THEOREM OrchestrationTyped == Spec => []TypeInv
  <1>1. Init => TypeInv
    BY TypeInit
  <1>2. TypeInv /\ [Next]_vars => TypeInv'
    <2> SUFFICES ASSUME TypeInv, [Next]_vars PROVE TypeInv'
      OBVIOUS
    <2>1. WorldTyped' /\ InputTyped' /\ CountersTyped'
      BY WorldStep, InputStep, CountersStep
    <2>2. PlanTyped' /\ WorkInv' /\ pc' \in Labels
      BY PlanStep, WorkStep, LabelStep
    <2> QED
      BY <2>1, <2>2 DEF TypeInv
  <1> QED
    BY <1>1, <1>2, PTL DEF Spec

-----------------------------------------------------------------------------
(* What an NPC was told: only of inputs it was with the player at, which   *)
(* is what the input observed when it began.                               *)
HeardInv == /\ HeardInPresence
            /\ pc # "idle" => visible = witnessed[input]

LEMMA HeardStep ==
  ASSUME TypeInv, HeardInv, [Next]_vars
  PROVE  HeardInv'
  <1> USE DEF TypeInv
  <1>1. CASE Begin
    <2>1. /\ input' = input + 1 /\ input < MaxInputs
          /\ visible' = Together /\ heard' = heard
          /\ witnessed' = [witnessed EXCEPT ![input'] = Together]
      BY <1>1 DEF Begin, worldVars
    <2>2. input' \in 1..MaxInputs
      BY <2>1, LimitsTyped DEF InputTyped
    <2>3. visible' = witnessed'[input']
      BY <2>1, <2>2 DEF InputTyped
    <2>4. ASSUME NEW a \in Npcs, NEW i \in heard'[a] PROVE a \in witnessed'[i]
      <3>1. i \in heard[a] /\ i \in 1..input
        BY <2>1, <2>4 DEF WorldTyped
      <3>2. i # input' /\ i \in 1..MaxInputs
        BY <2>1, <2>2, <3>1, LimitsTyped DEF InputTyped
      <3>3. witnessed'[i] = witnessed[i]
        BY <2>1, <3>2 DEF InputTyped
      <3> QED
        BY <3>1, <3>3 DEF HeardInv, HeardInPresence
    <2> QED
      BY <2>3, <2>4 DEF HeardInv, HeardInPresence
  <1>2. ASSUME NEW a \in Npcs, pc # "idle", Remember(a),
               UNCHANGED <<input, visible, witnessed>>
        PROVE  HeardInv'
    <2>1. visible = witnessed[input]
      BY <1>2 DEF HeardInv
    <2>2. ASSUME NEW b \in Npcs, NEW i \in heard'[b] PROVE b \in witnessed[i]
      <3>1. i \in heard[b] \/ (b = a /\ i = input /\ a \in visible)
        BY <1>2, <2>2 DEF Remember, WorldTyped
      <3> QED
        BY <2>1, <3>1 DEF HeardInv, HeardInPresence
    <2> QED
      BY <1>2, <2>1, <2>2 DEF HeardInv, HeardInPresence
  <1>3. ASSUME pc = "idle" => pc' = "idle",
               UNCHANGED <<input, visible, witnessed, heard>>
        PROVE  HeardInv'
    BY <1>3 DEF HeardInv, HeardInPresence
  <1>4. CASE Moves
    BY <1>3, <1>4, MovesFrame DEF worldVars, inputVars
  <1>5. CASE Outside
    BY <1>3, <1>5, OutsideFrame DEF worldVars, inputVars
  <1>6. CASE Skips \/ StartRound \/ ExecuteTopology \/ NarratorTurn
    BY <1>3, <1>6 DEF Skips, NpcCancelled, NpcOutOfBudget, NpcStale,
         NextRequest, StartRound, ExecuteTopology, NarratorTurn, NarratorTool,
         NarratorAct, RequestNpcTurn, QueueTopology, CreateNpc, worldVars,
         inputVars
  <1>7. CASE TurnEnds
    <2>1. pc # "idle" /\ UNCHANGED <<input, visible, witnessed, heard>>
      BY <1>7, TurnEndsFrame DEF TurnFrame
    <2> QED
      BY <1>3, <2>1
  <1>8. CASE SpawnPreset \/ SpawnGenerated \/ StartGeneration \/ NpcAct
    BY <1>3, <1>8 DEF SpawnPreset, SpawnGenerated, StartGeneration, NpcAct,
         worldVars, inputVars
  <1>9. CASE NpcStarts \/ NpcRefused
    <2>1. /\ pc # "idle" /\ Remember(Head(plan).actor)
          /\ UNCHANGED <<input, visible, witnessed>> /\ NextRequest
      BY <1>9 DEF NpcStarts, NpcRefused, NextRequest, inputVars
    <2>2. Head(plan).actor \in Npcs
      BY <2>1, RequestTyped DEF Requests
    <2> QED
      BY <1>2, <2>1, <2>2
  <1> QED
    BY <1>1, <1>4, <1>5, <1>6, <1>7, <1>8, <1>9
       DEF Next, Runtime, Moves, Outside, Skips

(* remember_npc_dialogue: an NPC is told only of inputs it was beside the  *)
(* player at, however it and the player moved before its turn came.        *)
THEOREM HeardKept == Spec => []HeardInPresence
  <1>1. Init => HeardInv
    BY DEF Init, HeardInv, HeardInPresence
  <1>2. TypeInv /\ HeardInv /\ [Next]_vars => HeardInv'
    BY HeardStep
  <1>3. HeardInv => HeardInPresence
    BY DEF HeardInv
  <1> QED
    BY <1>1, <1>2, <1>3, OrchestrationTyped, PTL DEF Spec

-----------------------------------------------------------------------------
(* Each request of the plan has been answered, is being worked on, or is   *)
(* still ahead, in the order they were made.                               *)
Current == IF pc = "npc_turn" THEN 1 ELSE 0

AnsweredInv ==
  /\ pc \notin {"idle", "round", "npc", "npc_turn"} =>
       plan = <<>> /\ results = <<>> /\ asked = <<>>
  /\ pc = "round" => plan = <<>>
  /\ pc \in {"round", "npc", "npc_turn"} =>
       /\ Len(asked) = Len(results) + Current + Len(plan)
       /\ \A i \in 1..Len(results) : results[i].request = asked[i]
       /\ pc = "npc_turn" => asked[Len(results) + 1] = work
       /\ \A i \in 1..Len(plan) : plan[i] = asked[Len(results) + Current + i]

LEMMA AnsweredFrame ==
  ASSUME AnsweredInv, UNCHANGED <<plan, results, asked, work>>,
         \/ pc' = pc
         \/ pc' = "idle"
         \/ /\ pc \notin {"idle", "round", "npc", "npc_turn"}
            /\ pc' \notin {"npc", "npc_turn"}
         \/ pc = "npc" /\ plan = <<>> /\ pc' = "round"
  PROVE  AnsweredInv'
  <1>1. CASE pc' = pc
    BY <1>1 DEF AnsweredInv, Current
  <1>2. CASE pc' = "idle"
    BY <1>2 DEF AnsweredInv
  <1>3. CASE /\ pc \notin {"idle", "round", "npc", "npc_turn"}
             /\ pc' \notin {"npc", "npc_turn"}
    BY <1>3 DEF AnsweredInv, Current
  <1>4. CASE pc = "npc" /\ plan = <<>> /\ pc' = "round"
    BY <1>4 DEF AnsweredInv, Current
  <1> QED
    BY <1>1, <1>2, <1>3, <1>4

(* An answer to the next request of the plan, its turn never started.      *)
LEMMA AnsweredSkip ==
  ASSUME PlanTyped, AnsweredInv, NextRequest, NEW status,
         Result(Head(plan), status), asked' = asked, pc' = "npc"
  PROVE  AnsweredInv'
  <1> DEFINE r == [request |-> Head(plan), status |-> status]
  <1>1. /\ pc = "npc" /\ plan # <<>> /\ plan' = Tail(plan)
        /\ results' = Append(results, r)
        /\ results \in Seq(Results) /\ plan \in Seq(Requests)
        /\ asked \in Seq(Requests)
    BY DEF NextRequest, Result, PlanTyped
  <1>2. r.request = plan[1]
    BY <1>1
  <1> HIDE DEF r
  <1>3. /\ Len(plan') = Len(plan) - 1 /\ Len(results') = Len(results) + 1
        /\ \A i \in 1..Len(plan') : plan'[i] = plan[i + 1]
        /\ \A i \in 1..Len(results) : results'[i] = results[i]
        /\ results'[Len(results) + 1] = r
        /\ Len(plan) \in Nat /\ Len(results) \in Nat /\ Len(plan) > 0
    BY <1>1
  <1>4. /\ Len(asked) = Len(results) + Len(plan)
        /\ \A i \in 1..Len(results) : results[i].request = asked[i]
        /\ \A i \in 1..Len(plan) : plan[i] = asked[Len(results) + i]
    BY <1>1 DEF AnsweredInv, Current
  <1>5. Len(asked) = Len(results') + Len(plan')
    BY <1>3, <1>4
  <1>6. ASSUME NEW i \in 1..Len(results')
        PROVE  results'[i].request = asked[i]
    <2>1. CASE i \in 1..Len(results)
      BY <1>3, <1>4, <2>1
    <2>2. CASE i = Len(results) + 1
      BY <1>2, <1>3, <1>4, <2>2
    <2> QED
      BY <1>3, <2>1, <2>2
  <1>7. ASSUME NEW i \in 1..Len(plan')
        PROVE  plan'[i] = asked[Len(results') + i]
    <2>1. i + 1 \in 1..Len(plan) /\ Len(results') + i = Len(results) + (i + 1)
      BY <1>3
    <2>2. plan[i + 1] = asked[Len(results) + (i + 1)]
      BY <1>4, <2>1
    <2> QED
      BY <1>3, <2>1, <2>2
  <1>8. Len(results') + 0 = Len(results') /\ Current' = 0
    BY <1>3 DEF Current
  <1> QED
    BY <1>5, <1>6, <1>7, <1>8 DEF AnsweredInv

LEMMA AnsweredStart ==
  ASSUME PlanTyped, AnsweredInv, NextRequest, work' = Head(plan),
         UNCHANGED <<results, asked>>, pc' = "npc_turn"
  PROVE  AnsweredInv'
  <1>1. /\ pc = "npc" /\ plan # <<>> /\ plan' = Tail(plan)
        /\ results \in Seq(Results) /\ plan \in Seq(Requests)
    BY DEF NextRequest, PlanTyped
  <1>2. /\ Len(plan') = Len(plan) - 1
        /\ \A i \in 1..Len(plan') : plan'[i] = plan[i + 1]
        /\ work' = plan[1]
        /\ Len(plan) \in Nat /\ Len(results) \in Nat /\ Len(plan) > 0
    BY <1>1
  <1>3. /\ Len(asked) = Len(results) + Len(plan)
        /\ \A i \in 1..Len(results) : results[i].request = asked[i]
        /\ \A i \in 1..Len(plan) : plan[i] = asked[Len(results) + i]
    BY <1>1 DEF AnsweredInv, Current
  <1>4. Len(asked) = Len(results) + 1 + Len(plan')
    BY <1>2, <1>3
  <1>5. asked[Len(results) + 1] = work'
    BY <1>2, <1>3
  <1>6. ASSUME NEW i \in 1..Len(plan')
        PROVE  plan'[i] = asked[Len(results) + 1 + i]
    <2>1. /\ i + 1 \in 1..Len(plan)
          /\ Len(results) + 1 + i = Len(results) + (i + 1)
      BY <1>2
    <2>2. plan[i + 1] = asked[Len(results) + (i + 1)]
      BY <1>3, <2>1
    <2> QED
      BY <1>2, <2>1, <2>2
  <1> QED
    BY <1>3, <1>4, <1>5, <1>6 DEF AnsweredInv, Current

LEMMA AnsweredEnd ==
  ASSUME PlanTyped, AnsweredInv, pc = "npc_turn", pc' = "npc", NEW status,
         Result(work, status), UNCHANGED <<plan, asked>>
  PROVE  AnsweredInv'
  <1> DEFINE r == [request |-> work, status |-> status]
  <1>1. /\ results' = Append(results, r)
        /\ results \in Seq(Results) /\ plan \in Seq(Requests)
        /\ r.request = work
    BY DEF Result, PlanTyped
  <1> HIDE DEF r
  <1>2. /\ Len(results') = Len(results) + 1
        /\ \A i \in 1..Len(results) : results'[i] = results[i]
        /\ results'[Len(results) + 1] = r
        /\ Len(plan) \in Nat /\ Len(results) \in Nat
    BY <1>1
  <1>3. /\ Len(asked) = Len(results) + 1 + Len(plan)
        /\ \A i \in 1..Len(results) : results[i].request = asked[i]
        /\ asked[Len(results) + 1] = work
        /\ \A i \in 1..Len(plan) : plan[i] = asked[Len(results) + 1 + i]
    BY DEF AnsweredInv, Current
  <1>4. ASSUME NEW i \in 1..Len(results')
        PROVE  results'[i].request = asked[i]
    <2>1. CASE i \in 1..Len(results)
      BY <1>2, <1>3, <2>1
    <2>2. CASE i = Len(results) + 1
      BY <1>1, <1>2, <1>3, <2>2
    <2> QED
      BY <1>2, <2>1, <2>2
  <1>5. /\ Len(results') + 0 = Len(results) + 1 /\ Current' = 0
    BY <1>2 DEF Current
  <1> QED
    BY <1>3, <1>4, <1>5 DEF AnsweredInv

LEMMA AnsweredStep ==
  ASSUME TypeInv, AnsweredInv, [Next]_vars
  PROVE  AnsweredInv'
  <1> USE DEF TypeInv
  <1>1. CASE Begin
    BY <1>1 DEF Begin, Return, AnsweredInv, Current
  <1>2. CASE StartRound
    BY <1>2 DEF StartRound, Goto, AnsweredInv
  <1>3. CASE Moves
    <2>1. \/ pc' = "idle"
          \/ pc = "resolve" /\ pc' = "round"
          \/ pc = "npc" /\ plan = <<>> /\ pc' = "round"
      BY <1>3 DEF Moves, RoundRefused, ResolveStops, ResolveUnspawned, PlanDone,
                  Narrate, NpcStoreError, Goto, Return
    <2>2. UNCHANGED <<plan, results, asked, work>>
      BY <1>3, MovesFrame DEF planVars
    <2> QED
      BY <2>1, <2>2, AnsweredFrame
  <1>4. CASE Outside
    BY <1>4, OutsideFrame, AnsweredFrame DEF planVars
  <1>5. CASE Skips
    <2>1. PICK status : Result(Head(plan), status)
      BY <1>5 DEF Skips, NpcCancelled, NpcOutOfBudget, NpcStale
    <2>2. NextRequest /\ asked' = asked /\ pc' = "npc"
      BY <1>5 DEF Skips, NpcCancelled, NpcOutOfBudget, NpcStale, NextRequest
    <2> QED
      BY <2>1, <2>2, AnsweredSkip
  <1>6. CASE NarratorTurn
    <2>1. UNCHANGED <<plan, results, asked, work>>
      BY <1>6 DEF NarratorTurn, NarratorAct, RequestNpcTurn, QueueTopology,
                  CreateNpc, planVars
    <2>2. pc = "narrator" /\ pc' \in {"narrator", "barrier"}
      BY <1>6 DEF NarratorTurn, NarratorTool, NarratorAct, RequestNpcTurn,
                  QueueTopology, CreateNpc, Goto
    <2> QED
      BY <2>1, <2>2, AnsweredFrame
  <1>7. CASE TurnEnds
    <2>1. ASSUME NEW calls \in 0..TurnCalls, NarratorCompleted(calls)
          PROVE  AnsweredInv'
      <3>1. results = <<>> /\ plan = <<>> /\ asked = <<>> /\ results' = <<>>
        BY <2>1 DEF NarratorCompleted, AnsweredInv
      <3>2. CASE pc' = "npc"
        <4>1. plan' = turns /\ asked' = turns /\ turns \in Seq(Requests)
          BY <2>1, <3>2 DEF NarratorCompleted, Goto, PlanTyped
        <4>2. Len(results') = 0 /\ Current' = 0 /\ Len(turns) \in Nat
          BY <3>1, <3>2, <4>1 DEF Current
        <4> QED
          BY <3>2, <4>1, <4>2 DEF AnsweredInv
      <3>3. CASE pc' # "npc"
        <4>1. /\ pc' \in {"topology", "resolve", "narrate"}
              /\ plan' = plan /\ asked' = asked
          BY <2>1, <3>3 DEF NarratorCompleted, Goto
        <4> QED
          BY <3>1, <4>1 DEF AnsweredInv
      <3> QED
        BY <3>2, <3>3
    <2>2. ASSUME NEW calls \in 0..TurnCalls, NEW status \in Statuses,
                 NarratorOver(status, calls) \/ NarratorFailed(status, calls)
          PROVE  AnsweredInv'
      BY <2>2 DEF NarratorOver, NarratorFailed, Return, AnsweredInv
    <2>3. ASSUME NEW calls \in 0..TurnCalls, NEW status \in Statuses,
                 NpcEnds(status, calls)
          PROVE  AnsweredInv'
      <3>1. pc = "npc_turn" /\ UNCHANGED <<plan, asked>>
        BY <2>3 DEF NpcEnds
      <3>2. pc' = "idle" \/ (pc' = "npc" /\ Result(work, status))
        BY <2>3 DEF NpcEnds, Goto, Return
      <3> QED
        BY <3>1, <3>2, AnsweredEnd DEF AnsweredInv
    <2>4. ASSUME NEW calls \in 0..TurnCalls, NEW status \in Statuses,
                 NEW submitted \in BOOLEAN,
                 GenerationEnds(status, calls, submitted)
          PROVE  AnsweredInv'
      <3>1. /\ pc = "generation" /\ pc' \in {"idle", "round", "spawn"}
            /\ UNCHANGED <<plan, results, asked>>
        BY <2>4 DEF GenerationEnds, Goto, Return
      <3> QED
        BY <3>1 DEF AnsweredInv, Current
    <2> QED
      BY <1>7, <2>1, <2>2, <2>3, <2>4 DEF TurnEnds
  <1>8. CASE ExecuteTopology \/ SpawnPreset \/ SpawnGenerated
             \/ StartGeneration
    <2>1. UNCHANGED <<plan, results, asked, work>>
      BY <1>8 DEF ExecuteTopology, SpawnPreset, SpawnGenerated,
                  StartGeneration, planVars
    <2>2. /\ pc \in {"topology", "resolve", "spawn"}
          /\ pc' \in {"idle", "round", "generation"}
      BY <1>8 DEF ExecuteTopology, SpawnPreset, SpawnGenerated,
                  StartGeneration, Goto, Return
    <2> QED
      BY <2>1, <2>2, AnsweredFrame
  <1>9. CASE NpcStarts
    BY <1>9, AnsweredStart DEF NpcStarts, Goto
  <1>10. CASE NpcRefused
    BY <1>10, AnsweredSkip DEF NpcRefused, NextRequest
  <1>11. CASE NpcAct
    BY <1>11, AnsweredFrame DEF NpcAct
  <1> QED
    BY <1>1, <1>2, <1>3, <1>4, <1>5, <1>6, <1>7, <1>8, <1>9, <1>10, <1>11
       DEF Next, Runtime, Moves, Outside, Skips

(* run_npc_plan: whatever becomes of the turns, by the next round of the   *)
(* narrator every request has exactly one result, in the order of asking.  *)
THEOREM RequestsKept == Spec => []RequestsAnswered
  <1>1. Init => AnsweredInv
    BY DEF Init, AnsweredInv
  <1>2. TypeInv /\ AnsweredInv /\ [Next]_vars => AnsweredInv'
    BY AnsweredStep
  <1>3. TypeInv /\ AnsweredInv => RequestsAnswered
    <2> SUFFICES ASSUME TypeInv, AnsweredInv, pc = "round"
                 PROVE  asked = [i \in DOMAIN results |-> results[i].request]
      BY DEF RequestsAnswered
    <2>1. asked \in Seq(Requests) /\ results \in Seq(Results)
      BY DEF TypeInv, PlanTyped
    <2>2. /\ plan = <<>> /\ Len(asked) = Len(results) + 0 + Len(plan)
          /\ \A i \in 1..Len(results) : results[i].request = asked[i]
      BY DEF AnsweredInv, Current
    <2>3. DOMAIN asked = DOMAIN results /\ DOMAIN results = 1..Len(results)
      BY <2>1, <2>2
    <2>4. asked = [i \in DOMAIN asked |-> asked[i]]
      BY <2>1
    <2> QED
      BY <2>2, <2>3, <2>4
  <1> QED
    BY <1>1, <1>2, <1>3, OrchestrationTyped, PTL DEF Spec

-----------------------------------------------------------------------------
(* The budget of an input.  Only the turn that exceeds the model calls     *)
(* exceeds them: after an NPC turn did, no other is begun.                 *)
WithinBudget ==
  /\ begun <= max_started_agent_turns
  /\ usage <= max_model_calls + TurnCalls
  /\ pc \notin {"idle", "npc", "npc_turn"} => usage <= max_model_calls

BudgetInv ==
  /\ WithinBudget
  /\ begun <= started /\ started <= max_started_agent_turns
  /\ pc \in {"npc", "npc_turn"} /\ ~exhausted => usage <= max_model_calls
  /\ pc = "npc_turn" => ~exhausted

LEMMA BudgetFrame ==
  ASSUME BudgetInv, UNCHANGED <<usage, started, begun, exhausted>>,
         \/ pc' \in {pc, "idle"}
         \/ pc \notin {"idle", "npc", "npc_turn"} /\ pc' # "npc_turn"
         \/ pc = "npc" /\ ~exhausted /\ pc' = "round"
  PROVE  BudgetInv'
  BY DEF BudgetInv, WithinBudget

LEMMA BudgetStep ==
  ASSUME TypeInv, BudgetInv, [Next]_vars
  PROVE  BudgetInv'
  <1>0. CountersTyped /\ exhausted \in BOOLEAN
    BY DEF TypeInv, PlanTyped
  <1>1. CASE Begin
    BY <1>1, LimitsTyped DEF Begin, BudgetInv, WithinBudget
  <1>2. CASE StartRound
    <2>1. /\ started' = started + 1 /\ begun' = begun + 1 /\ usage' = usage
          /\ started < max_started_agent_turns
          /\ pc = "round" /\ pc' = "narrator"
      BY <1>2 DEF StartRound, TurnAllowed, Goto
    <2>2. /\ begun' <= started' /\ started' <= max_started_agent_turns
          /\ begun' <= max_started_agent_turns
      BY <1>0, <2>1, LimitsTyped DEF CountersTyped, BudgetInv
    <2> QED
      BY <2>1, <2>2 DEF BudgetInv, WithinBudget
  <1>3. CASE Moves
    <2>1. \/ pc' = "idle"
          \/ pc = "resolve" /\ pc' = "round"
          \/ pc = "npc" /\ ~exhausted /\ pc' = "round"
      BY <1>3 DEF Moves, RoundRefused, ResolveStops, ResolveUnspawned, PlanDone,
                  Narrate, NpcStoreError, Goto, Return
    <2>2. UNCHANGED <<usage, started, begun, exhausted>>
      BY <1>3, MovesFrame DEF planVars, budgetVars
    <2> QED
      BY <2>1, <2>2, BudgetFrame
  <1>4. CASE Outside
    BY <1>4, OutsideFrame, BudgetFrame DEF planVars, budgetVars
  <1>5. CASE Skips \/ NpcAct
    BY <1>5, BudgetFrame
       DEF Skips, NpcCancelled, NpcOutOfBudget, NpcStale, NpcAct, budgetVars
  <1>6. CASE NarratorTurn
    <2>1. UNCHANGED <<usage, started, begun, exhausted>>
      BY <1>6 DEF NarratorTurn, NarratorAct, RequestNpcTurn, QueueTopology,
                  CreateNpc, planVars, budgetVars
    <2>2. pc = "narrator" /\ pc' \in {"narrator", "barrier"}
      BY <1>6 DEF NarratorTurn, NarratorTool, NarratorAct, RequestNpcTurn,
                  QueueTopology, CreateNpc, Goto
    <2> QED
      BY <2>1, <2>2, BudgetFrame
  <1>7. CASE TurnEnds
    <2>1. ASSUME NEW calls \in 0..TurnCalls, Merge(calls),
                 usage <= max_model_calls
          PROVE  /\ usage' <= max_model_calls + TurnCalls
                 /\ Merged(calls) => usage' <= max_model_calls
      BY <1>0, <2>1, LimitsTyped DEF Merge, Merged, CountersTyped
    <2>2. pc \notin {"idle", "npc"}
      BY <1>7, TurnEndsFrame DEF TurnFrame
    <2>3. usage <= max_model_calls
      BY <2>2 DEF BudgetInv, WithinBudget
    <2>4. UNCHANGED <<started, begun>>
      BY <1>7, TurnEndsFrame DEF TurnFrame
    <2>5. ASSUME NEW calls \in 0..TurnCalls, Merge(calls),
                 \/ pc' = "idle"
                 \/ Merged(calls) /\ pc' # "npc_turn"
                 \/ pc' = "npc" /\ (~Merged(calls) => exhausted')
          PROVE  BudgetInv'
      BY <2>1, <2>3, <2>4, <2>5 DEF BudgetInv, WithinBudget
    <2>6. ASSUME NEW calls \in 0..TurnCalls, NarratorCompleted(calls)
          PROVE  BudgetInv'
      <3>1. Merge(calls) /\ Merged(calls) /\ pc' # "npc_turn"
        BY <2>6 DEF NarratorCompleted, Goto
      <3> QED
        BY <2>5, <3>1
    <2>7. ASSUME NEW calls \in 0..TurnCalls, NEW status \in Statuses,
                 NarratorOver(status, calls) \/ NarratorFailed(status, calls)
          PROVE  BudgetInv'
      <3>1. Merge(calls) /\ pc' = "idle"
        BY <2>7 DEF NarratorOver, NarratorFailed, Return
      <3> QED
        BY <2>5, <3>1
    <2>8. ASSUME NEW calls \in 0..TurnCalls, NEW status \in Statuses,
                 NpcEnds(status, calls)
          PROVE  BudgetInv'
      <3>1. /\ Merge(calls) /\ pc' \in {"idle", "npc"}
            /\ ~Merged(calls) => exhausted'
        BY <2>8 DEF NpcEnds, Goto, Return
      <3> QED
        BY <2>5, <3>1
    <2>9. ASSUME NEW calls \in 0..TurnCalls, NEW status \in Statuses,
                 NEW submitted \in BOOLEAN,
                 GenerationEnds(status, calls, submitted)
          PROVE  BudgetInv'
      <3>1. /\ Merge(calls)
            /\ pc' = "idle" \/ (Merged(calls) /\ pc' # "npc_turn")
        BY <2>9 DEF GenerationEnds, Goto, Return
      <3> QED
        BY <2>5, <3>1
    <2> QED
      BY <1>7, <2>6, <2>7, <2>8, <2>9 DEF TurnEnds
  <1>8. CASE ExecuteTopology \/ SpawnPreset \/ SpawnGenerated
    <2>1. UNCHANGED <<usage, started, begun, exhausted>>
      BY <1>8 DEF ExecuteTopology, SpawnPreset, SpawnGenerated, planVars,
                  budgetVars
    <2>2. /\ pc \in {"topology", "resolve", "spawn"}
          /\ pc' \in {"idle", "round"}
      BY <1>8 DEF ExecuteTopology, SpawnPreset, SpawnGenerated, Goto, Return
    <2> QED
      BY <2>1, <2>2, BudgetFrame
  <1>9. CASE StartGeneration
    <2>1. /\ pc = "resolve" /\ pc' \in {"idle", "round", "generation"}
          /\ UNCHANGED <<usage, exhausted>>
      BY <1>9 DEF StartGeneration, Goto, Return, planVars
    <2>2. \/ UNCHANGED <<started, begun>>
          \/ /\ started < max_started_agent_turns /\ started' = started + 1
             /\ begun' \in {begun, begun + 1}
      BY <1>9 DEF StartGeneration, TurnAllowed
    <2>3. /\ begun' <= started' /\ started' <= max_started_agent_turns
          /\ begun' <= max_started_agent_turns
      BY <1>0, <2>2, LimitsTyped DEF CountersTyped, BudgetInv, WithinBudget
    <2> QED
      BY <2>1, <2>3 DEF BudgetInv, WithinBudget
  <1>10. CASE NpcStarts
    <2>1. /\ started' = started + 1 /\ begun' = begun + 1 /\ usage' = usage
          /\ started < max_started_agent_turns
          /\ pc = "npc" /\ pc' = "npc_turn" /\ ~exhausted
          /\ exhausted' = exhausted
      BY <1>10 DEF NpcStarts, NextRequest, TurnAllowed, Goto
    <2>2. /\ begun' <= started' /\ started' <= max_started_agent_turns
          /\ begun' <= max_started_agent_turns
      BY <1>0, <2>1, LimitsTyped DEF CountersTyped, BudgetInv
    <2> QED
      BY <2>1, <2>2 DEF BudgetInv, WithinBudget
  <1>11. CASE NpcRefused
    BY <1>11 DEF NpcRefused, NextRequest, BudgetInv, WithinBudget, budgetVars
  <1> QED
    BY <1>1, <1>2, <1>3, <1>4, <1>5, <1>6, <1>7, <1>8, <1>9, <1>10, <1>11
       DEF Next, Runtime, Moves, Outside, Skips

-----------------------------------------------------------------------------
(* The limits on characters.  The one that a generation turn was allowed   *)
(* under still holds when its character is spawned, in the player's scene. *)
PopulationInv ==
  /\ \A s \in Scenes : Cardinality(InScene(s)) <= max_materialized_per_scene
  /\ Cardinality(Kept) <= max_persistent_generated
  /\ pc \in {"generation", "spawn"} =>
       ~MaterializationLimit(SceneOf[where], Generated /\ work.what.persistent)

LEMMA PopulationTyped ==
  ASSUME IsFiniteSet(Npcs)
  PROVE  /\ \A s : IsFiniteSet(InScene(s)) /\ Cardinality(InScene(s)) \in Nat
         /\ IsFiniteSet(Kept) /\ Cardinality(Kept) \in Nat
  <1>1. \A s : InScene(s) \subseteq Npcs
    BY DEF InScene
  <1>2. Kept \subseteq Npcs
    BY DEF Kept
  <1> QED
    BY <1>1, <1>2, FS_Subset, FS_CardinalityType

LEMMA OneMore ==
  ASSUME NEW S, NEW T, NEW a, IsFiniteSet(S), T \subseteq S \cup {a}
  PROVE  Cardinality(T) <= Cardinality(S) + 1 /\ Cardinality(T) \in Nat
  <1>1. /\ IsFiniteSet(S \cup {a})
        /\ Cardinality(S \cup {a}) \in {Cardinality(S), Cardinality(S) + 1}
    BY FS_AddElement
  <1>2. Cardinality(T) <= Cardinality(S \cup {a})
    BY <1>1, FS_Subset
  <1>3. Cardinality(S) \in Nat /\ Cardinality(T) \in Nat
    BY <1>1, FS_CardinalityType, FS_Subset
  <1> QED
    BY <1>1, <1>2, <1>3

LEMMA SpawnWithin ==
  ASSUME IsFiniteSet(Npcs), TypeInv, PopulationInv, Spawn,
         pc \in {"resolve", "spawn"}, where' = where,
         ~MaterializationLimit(SceneOf[where],
                               Generated /\ work.what.persistent)
  PROVE  /\ \A s \in Scenes :
              Cardinality(InScene(s)') <= max_materialized_per_scene
         /\ Cardinality(Kept') <= max_persistent_generated
  <1> DEFINE a == CHOOSE new \in Npcs : ~Exists(new)
             new == [place |-> work.place, agent |-> work.what.agent,
                     kept |-> Generated /\ work.what.persistent]
  <1>1. npc' = [npc EXCEPT ![a] = new] /\ a \in Npcs
    BY DEF Spawn
  <1>2. /\ work.place = where /\ where \in Places
        /\ npc \in [Npcs -> Characters]
    BY DEF TypeInv, WorkInv, WorldTyped
  <1>3. new.place = where /\ new.kept = (Generated /\ work.what.persistent)
    BY <1>2
  <1> HIDE DEF a, new
  <1>4. /\ npc'[a] = new
        /\ \A b \in Npcs : b # a => npc'[b] = npc[b]
    BY <1>1, <1>2
  <1>5. ASSUME NEW s \in Scenes
        PROVE  Cardinality(InScene(s)') <= max_materialized_per_scene
    <2>1. CASE s = SceneOf[where]
      <3>1. InScene(s)' \subseteq InScene(s) \cup {a}
        BY <1>4 DEF InScene, Exists
      <3>2. ~(Cardinality(InScene(s)) >= max_materialized_per_scene)
        BY <2>1 DEF MaterializationLimit
      <3>3. /\ Cardinality(InScene(s)') <= Cardinality(InScene(s)) + 1
            /\ Cardinality(InScene(s)') \in Nat
        <4>1. IsFiniteSet(InScene(s))
          BY PopulationTyped
        <4> QED
          BY <3>1, <4>1, OneMore
      <3>4. Cardinality(InScene(s)) \in Nat
        BY PopulationTyped
      <3> QED
        BY <3>2, <3>3, <3>4, LimitsTyped
    <2>2. CASE s # SceneOf[where]
      <3>1. InScene(s)' \subseteq InScene(s)
        BY <1>3, <1>4, <2>2 DEF InScene, Exists
      <3>2. /\ Cardinality(InScene(s)') <= Cardinality(InScene(s))
            /\ Cardinality(InScene(s)') \in Nat
        BY <3>1, PopulationTyped, FS_Subset, FS_CardinalityType
      <3>3. Cardinality(InScene(s)) <= max_materialized_per_scene
        BY DEF PopulationInv
      <3> QED
        BY <3>2, <3>3, PopulationTyped, LimitsTyped
    <2> QED
      BY <2>1, <2>2
  <1>6. Cardinality(Kept') <= max_persistent_generated
    <2>1. CASE Generated /\ work.what.persistent
      <3>1. Kept' \subseteq Kept \cup {a}
        BY <1>4 DEF Kept
      <3>2. ~(Cardinality(Kept) >= max_persistent_generated)
        BY <2>1 DEF MaterializationLimit
      <3>3. /\ Cardinality(Kept') <= Cardinality(Kept) + 1
            /\ Cardinality(Kept') \in Nat
        <4>1. IsFiniteSet(Kept)
          BY PopulationTyped
        <4> QED
          BY <3>1, <4>1, OneMore
      <3>4. Cardinality(Kept) \in Nat
        BY PopulationTyped
      <3> QED
        BY <3>2, <3>3, <3>4, LimitsTyped
    <2>2. CASE ~(Generated /\ work.what.persistent)
      <3>1. Kept' \subseteq Kept
        BY <1>3, <1>4, <2>2 DEF Kept
      <3>2. /\ Cardinality(Kept') <= Cardinality(Kept)
            /\ Cardinality(Kept') \in Nat
        BY <3>1, PopulationTyped, FS_Subset, FS_CardinalityType
      <3>3. Cardinality(Kept) <= max_persistent_generated
        BY DEF PopulationInv
      <3> QED
        BY <3>2, <3>3, PopulationTyped, LimitsTyped
    <2> QED
      BY <2>1, <2>2
  <1> QED
    BY <1>5, <1>6

LEMMA PopulationFrame ==
  ASSUME PopulationInv, npc' = npc,
         \/ pc' \notin {"generation", "spawn"}
         \/ /\ pc \in {"generation", "spawn"} /\ where' = where
            /\ work'.what = work.what
         \/ UNCHANGED <<pc, where, work>>
  PROVE  PopulationInv'
  BY DEF PopulationInv, MaterializationLimit, Generated, InScene, Kept, Exists

(* An NPC moves within its scene.                                          *)
LEMMA MoveWithin ==
  ASSUME TypeInv, PopulationInv, NpcAct
  PROVE  PopulationInv'
  <1>1. pc = "npc_turn" /\ pc' = "npc_turn"
    BY DEF NpcAct
  <1>2. PICK p \in Places :
          /\ SceneOf[p] = SceneOf[npc[work.actor].place]
          /\ npc' = [npc EXCEPT ![work.actor].place = p]
    BY DEF NpcAct
  <1>3. /\ work.actor \in Npcs /\ npc[work.actor].place \in Places
        /\ npc \in [Npcs -> Characters]
    BY <1>1 DEF TypeInv, WorkInv, WorldTyped, Requests
  <1>4. /\ npc'[work.actor].place = p
        /\ npc'[work.actor].kept = npc[work.actor].kept
        /\ \A b \in Npcs : b # work.actor => npc'[b] = npc[b]
    BY <1>2, <1>3 DEF Characters
  <1>5. \A s : InScene(s)' = InScene(s)
    BY <1>2, <1>3, <1>4, SceneryTyped DEF InScene, Exists
  <1>6. Kept' = Kept
    BY <1>4 DEF Kept
  <1> QED
    BY <1>1, <1>5, <1>6 DEF PopulationInv

LEMMA PopulationStep ==
  ASSUME IsFiniteSet(Npcs), TypeInv, PopulationInv, [Next]_vars
  PROVE  PopulationInv'
  <1>1. CASE Begin
    <2>1. npc' = npc /\ pc' \in {"idle", "round"}
      BY <1>1 DEF Begin, Return, worldVars
    <2> QED
      BY <2>1, PopulationFrame
  <1>2. CASE Moves
    <2>1. npc' = npc /\ pc' \in {"idle", "round"}
      BY <1>2, MovesFrame DEF worldVars
    <2> QED
      BY <2>1, PopulationFrame
  <1>3. CASE Outside
    BY <1>3, OutsideFrame, PopulationFrame DEF worldVars, planVars
  <1>4. CASE Skips \/ StartRound \/ NpcStarts \/ NpcRefused
    <2>1. npc' = npc /\ pc' \in {"npc", "narrator", "npc_turn"}
      BY <1>4 DEF Skips, NpcCancelled, NpcOutOfBudget, NpcStale, NextRequest,
                  StartRound, NpcStarts, NpcRefused, Goto, worldVars
    <2> QED
      BY <2>1, PopulationFrame
  <1>5. CASE ExecuteTopology \/ NarratorTurn
    <2>1. npc' = npc /\ pc' \in {"idle", "round", "narrator", "barrier"}
      BY <1>5 DEF ExecuteTopology, NarratorTurn, NarratorTool, NarratorAct,
                  RequestNpcTurn, QueueTopology, CreateNpc, Goto, Return,
                  worldVars
    <2> QED
      BY <2>1, PopulationFrame
  <1>6. CASE TurnEnds
    <2>1. ASSUME NEW calls \in 0..TurnCalls, NarratorCompleted(calls)
          PROVE  PopulationInv'
      <3>1. /\ npc' = npc
            /\ pc' \in {"topology", "resolve", "npc", "narrate"}
        BY <2>1 DEF NarratorCompleted, Goto, worldVars
      <3> QED
        BY <3>1, PopulationFrame
    <2>2. ASSUME NEW calls \in 0..TurnCalls, NEW status \in Statuses,
                 NarratorOver(status, calls) \/ NarratorFailed(status, calls)
                 \/ NpcEnds(status, calls)
          PROVE  PopulationInv'
      <3>1. npc' = npc /\ pc' \in {"idle", "npc"}
        BY <2>2 DEF NarratorOver, NarratorFailed, NpcEnds, Goto, Return,
                    worldVars
      <3> QED
        BY <3>1, PopulationFrame
    <2>3. ASSUME NEW calls \in 0..TurnCalls, NEW status \in Statuses,
                 NEW submitted \in BOOLEAN,
                 GenerationEnds(status, calls, submitted)
          PROVE  PopulationInv'
      <3>1. npc' = npc /\ where' = where /\ pc = "generation"
        BY <2>3 DEF GenerationEnds, worldVars
      <3>2. pc' \in {"idle", "round"} \/ work'.what = work.what
        BY <2>3 DEF GenerationEnds, Goto, Return
      <3> QED
        BY <3>1, <3>2, PopulationFrame
    <2> QED
      BY <1>6, <2>1, <2>2, <2>3 DEF TurnEnds
  <1>7. CASE SpawnPreset
    <2>1. /\ pc = "resolve" /\ pc' = "round" /\ where' = where /\ Spawn
          /\ ~MaterializationLimit(SceneOf[where],
                                   Generated /\ work.what.persistent)
      BY <1>7 DEF SpawnPreset, Refused, Goto
    <2> QED
      BY <2>1, SpawnWithin DEF PopulationInv
  <1>8. CASE SpawnGenerated
    <2>1. pc = "spawn" /\ pc' = "round" /\ where' = where
      BY <1>8 DEF SpawnGenerated, Goto
    <2>2. CASE Spawn
      <3>1. ~MaterializationLimit(SceneOf[where],
                                  Generated /\ work.what.persistent)
        BY <2>1 DEF PopulationInv
      <3> QED
        BY <2>1, <2>2, <3>1, SpawnWithin DEF PopulationInv
    <2>3. CASE npc' = npc
      BY <2>1, <2>3, PopulationFrame
    <2> QED
      BY <1>8, <2>2, <2>3 DEF SpawnGenerated
  <1>9. CASE StartGeneration
    <2>1. /\ UNCHANGED <<npc, where, work>>
          /\ pc' \in {"idle", "round", "generation"}
          /\ ~MaterializationLimit(SceneOf[where],
                                   Generated /\ work.what.persistent)
      BY <1>9 DEF StartGeneration, Refused, Goto, Return, worldVars, planVars
    <2> QED
      BY <2>1 DEF PopulationInv, MaterializationLimit, Generated, InScene, Kept,
                  Exists
  <1>10. CASE NpcAct
    BY <1>10, MoveWithin
  <1> QED
    BY <1>1, <1>2, <1>3, <1>4, <1>5, <1>6, <1>7, <1>8, <1>9, <1>10
       DEF Next, Runtime, Moves, Outside, Skips

(* An input begins no more turns than its limit and is at most one turn    *)
(* over its model calls; and from a save within the limits, no scene and   *)
(* no save comes over them.  The limits are checked before the turn that   *)
(* generates a character and hold when it is spawned.                      *)
THEOREM LimitsKept ==
  ASSUME IsFiniteSet(Npcs),
         Cardinality(InitialNpcs) <= max_materialized_per_scene
  PROVE  Spec => []WithinLimits
  <1>1. Init => BudgetInv
    BY LimitsTyped DEF Init, BudgetInv, WithinBudget
  <1>2. Init => PopulationInv
    <2> SUFFICES ASSUME Init PROVE PopulationInv
      OBVIOUS
    <2>1. InitialNpcs \subseteq Npcs
      BY OrchestrationAssumption DEF OrchestrationAssumption
    <2>2. IsFiniteSet(InitialNpcs) /\ Cardinality(InitialNpcs) \in Nat
      BY <2>1, FS_Subset, FS_CardinalityType
    <2>3. ASSUME NEW s \in Scenes
          PROVE  Cardinality(InScene(s)) <= max_materialized_per_scene
      <3>1. InScene(s) \subseteq InitialNpcs
        BY DEF Init, InScene, Exists
      <3>2. /\ Cardinality(InScene(s)) <= Cardinality(InitialNpcs)
            /\ Cardinality(InScene(s)) \in Nat
        BY <2>2, <3>1, FS_Subset, FS_CardinalityType
      <3> QED
        BY <2>2, <3>2, LimitsTyped
    <2>4. Kept = {}
      BY DEF Init, Kept
    <2>5. Cardinality(Kept) <= max_persistent_generated
      BY <2>4, FS_EmptySet, LimitsTyped
    <2> QED
      BY <2>3, <2>5 DEF Init, PopulationInv
  <1>3. TypeInv /\ BudgetInv /\ [Next]_vars => BudgetInv'
    BY BudgetStep
  <1>4. TypeInv /\ PopulationInv /\ [Next]_vars => PopulationInv'
    BY PopulationStep
  <1>5. BudgetInv /\ PopulationInv => WithinLimits
    BY DEF BudgetInv, WithinBudget, PopulationInv, WithinLimits
  <1> QED
    BY <1>1, <1>2, <1>3, <1>4, <1>5, OrchestrationTyped, PTL DEF Spec
=============================================================================
