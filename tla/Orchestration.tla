---------------------------- MODULE Orchestration ----------------------------
(***************************************************************************)
(* One player input after another, as GameRuntime handles them             *)
(* (runtime.rs): rounds of a narrator turn followed by what it queued,     *)
(* which is a change of topology, an NPC to create, or NPC turns, until a  *)
(* narrator turn queues nothing and its text is the answer.  Everything    *)
(* runs on the worker thread; the player may cancel and the clock may run  *)
(* out at any moment.                                                      *)
(*                                                                         *)
(* A turn is what AgentRunner makes of it: tool calls that act on the      *)
(* world or fill the queues, and an end.  A world command takes effect at  *)
(* one instant (AtomicWorld).  Revisions are compared only within a round  *)
(* and are counted from its start.                                         *)
(***************************************************************************)
EXTENDS Naturals, Sequences, FiniteSets

CONSTANTS Npcs,          \* bound: the non-player characters there may ever be
          InitialNpcs,   \* those the save starts with
          Home,          \* the place of the player and of InitialNpcs
          SceneOf,       \* the scene of each place
          Entry,         \* the entry place of each scene
          Decisions,     \* what create_npc may ask for, see DecisionType
          MaxInputs,     \* bound: inputs of the player
          MaxTools,      \* bound: tool calls of a turn
          TurnCalls,     \* ResourceBudget.max_model_calls of one turn
          max_model_calls, max_started_agent_turns, max_orchestration_rounds,
          max_generated_per_orchestration, max_materialized_per_scene,
          max_persistent_generated

Places == DOMAIN SceneOf
Scenes == DOMAIN Entry

Nowhere == "nowhere"
None    == "none"
Nothing == [input |-> 0]

(* agent: the character is to be an NPC agent, not a narrated one.         *)
DecisionType == [source : {"preset", "generated"}, agent : BOOLEAN,
                 persistent : BOOLEAN]

ASSUME OrchestrationAssumption ==
  /\ InitialNpcs \subseteq Npcs
  /\ Home \in Places /\ Nowhere \notin Places
  /\ \A s \in Scenes : Entry[s] \in Places /\ SceneOf[Entry[s]] = s
  /\ \A p \in Places : SceneOf[p] \in Scenes
  /\ Decisions \subseteq DecisionType
  /\ {MaxInputs, MaxTools, TurnCalls, max_model_calls,
      max_started_agent_turns, max_orchestration_rounds,
      max_generated_per_orchestration, max_materialized_per_scene,
      max_persistent_generated} \subseteq Nat

VARIABLES
  \* the world
  revision,    \* its revision, counted from the start of the round
  where,       \* the player's place; its scene is the active one
  npc,         \* the characters: place, agent, kept (persistent generated)
  heard,       \* the inputs each NPC remembers
  \* RuntimeToolExecutor
  decision,    \* pending_npc_decisions; create_npc is a barrier: at most one
  turns,       \* pending_npc_turns
  topology,    \* pending_topology
  draft,       \* pending_npc_draft
  \* the locals of handle_valid_player_input
  pc, input, cancelled, late, outcome,
  usage, started, rounds, attempts,   \* OrchestrationState, generated_attempts
  settled,     \* settled_materializations
  visible,     \* before.scene.visible_actors
  plan,        \* the NPC turns of the plan that are left
  results,     \* npc_results of the plan
  exhausted,   \* budget_failure
  work,        \* the request of the running NPC or generation turn
  observed,    \* the revision the running NPC turn works at
  \* history
  tools,       \* tool calls of the running turn
  begun,       \* turns begun for the input
  asked,       \* the NPC turns of the last plan
  witnessed    \* who was with the player at each input

worldVars == <<revision, where, npc, heard>>
queueVars == <<decision, turns, topology, draft>>
budgetVars == <<usage, started, rounds, attempts>>
planVars == <<plan, results, exhausted, work, observed, asked>>
inputVars == <<input, settled, visible, witnessed>>
vars == <<worldVars, queueVars, budgetVars, planVars, inputVars, pc, cancelled,
          late, outcome, tools, begun>>

Exists(a) == npc[a].place # Nowhere
Together  == {a \in Npcs : npc[a].place = where}

Init ==
  /\ revision = 0 /\ where = Home
  /\ npc = [a \in Npcs |->
              [place |-> IF a \in InitialNpcs THEN Home ELSE Nowhere,
               agent |-> a \in InitialNpcs, kept |-> FALSE]]
  /\ heard = [a \in Npcs |-> {}]
  /\ decision = Nothing /\ turns = <<>>
  /\ topology = Nothing /\ draft = Nothing
  /\ pc = "idle" /\ input = 0 /\ cancelled = FALSE /\ late = FALSE
  /\ outcome = None
  /\ usage = 0 /\ started = 0 /\ rounds = 0 /\ attempts = 0
  /\ settled = {} /\ visible = {}
  /\ plan = <<>> /\ results = <<>> /\ exhausted = FALSE
  /\ work = Nothing /\ observed = 0
  /\ tools = 0 /\ begun = 0 /\ asked = <<>>
  /\ witnessed = [i \in 1..MaxInputs |-> {}]

Goto(label) == pc' = label /\ UNCHANGED outcome

(* handle_valid_player_input returns.                                      *)
Return(how) == pc' = "idle" /\ outcome' = how

-----------------------------------------------------------------------------
(* take_pending_npc_decisions, _turns and _topology.                       *)
TakeQueues == decision' = Nothing /\ turns' = <<>> /\ topology' = Nothing

(* What an input that failed before it took the queues left there.         *)
DropLeftovers == TakeQueues

(* An input: the token is re-armed, the queues are emptied, the world is   *)
(* observed and the input is appended to the transcript, or that fails.    *)
Begin ==
  /\ pc = "idle" /\ input < MaxInputs
  /\ input' = input + 1
  /\ cancelled' = FALSE /\ late' = FALSE
  /\ DropLeftovers
  /\ usage' = 0 /\ started' = 0 /\ rounds' = 0 /\ attempts' = 0
  /\ settled' = {}
  /\ visible' = Together
  /\ witnessed' = [witnessed EXCEPT ![input'] = Together]
  /\ plan' = <<>> /\ results' = <<>> /\ exhausted' = FALSE
  /\ work' = Nothing /\ observed' = 0 /\ asked' = <<>>
  /\ tools' = 0 /\ begun' = 0
  /\ \/ pc' = "round" /\ outcome' = None
     \/ Return("error")
  /\ UNCHANGED <<worldVars, draft>>

(* OrchestrationState::start_turn.                                         *)
TurnAllowed == ~late /\ started < max_started_agent_turns

(* Faulty variant: the counters are those of the round, not of the input.  *)
StartRoundAfresh ==
  /\ pc = "round"
  /\ ~late
  /\ rounds' = 1 /\ started' = 1 /\ usage' = 0
  /\ revision' = 0 /\ tools' = 0 /\ begun' = begun
  /\ plan' = <<>> /\ results' = <<>> /\ asked' = <<>>
  /\ Goto("narrator")
  /\ UNCHANGED <<where, npc, heard, queueVars, attempts, exhausted, work,
                 observed, inputVars, cancelled, late>>

(* start_round, start_turn, and the observation for the narrator.          *)
StartRound ==
  /\ pc = "round"
  /\ TurnAllowed /\ rounds < max_orchestration_rounds
  /\ rounds' = rounds + 1 /\ started' = started + 1
  /\ begun' = begun + 1
  /\ revision' = 0 /\ tools' = 0
  /\ plan' = <<>> /\ results' = <<>> /\ asked' = <<>>
  /\ Goto("narrator")
  /\ UNCHANGED <<where, npc, heard, queueVars, usage, attempts, exhausted,
                 work, observed, inputVars, cancelled, late>>

(* No round or turn is left, or the world cannot be observed.              *)
RoundRefused ==
  /\ pc = "round"
  /\ \/ ~(TurnAllowed /\ rounds < max_orchestration_rounds) /\ Return("budget")
     \/ Return("error")
  /\ UNCHANGED <<worldVars, queueVars, budgetVars, planVars, inputVars,
                 cancelled, late, tools, begun>>

-----------------------------------------------------------------------------
(* The tool calls of a narrator turn.  The runner checks the token before  *)
(* each; refused calls change nothing and are left out.                    *)
NarratorTool == /\ pc = "narrator" /\ ~cancelled
                /\ tools < MaxTools
                /\ tools' = tools + 1

(* A command as the player: it may move the player within the scene.       *)
NarratorAct ==
  /\ NarratorTool
  /\ revision' = revision + 1
  /\ where' \in {p \in Places : SceneOf[p] = SceneOf[where]}
  /\ UNCHANGED <<npc, heard, queueVars, budgetVars, planVars, inputVars, pc,
                 cancelled, late, outcome, begun>>

(* npc_turn_scene: the NPC is an agent at the player's place.              *)
Addressable(a) == npc[a].agent /\ npc[a].place = where

RequestNpcTurn(a) ==
  /\ NarratorTool
  /\ topology = Nothing
  /\ Addressable(a)
  /\ turns' = Append(turns, [n |-> Len(turns) + 1, actor |-> a,
                             scene |-> SceneOf[where], input |-> input])
  /\ UNCHANGED <<worldVars, decision, topology, draft, budgetVars, planVars,
                 inputVars, pc, cancelled, late, outcome, begun>>

(* transition_scene, create_scene and create_place, through                *)
(* queue_topology; "to" is the scene to enter, or None to create.          *)
QueueTopology(to) ==
  /\ NarratorTool
  /\ decision = Nothing /\ turns = <<>> /\ topology = Nothing
  /\ topology' = [to |-> to, rev |-> revision, input |-> input]
  /\ UNCHANGED <<worldVars, decision, turns, draft, budgetVars, planVars,
                 inputVars, pc, cancelled, late, outcome, begun>>

(* create_npc: the turn has reached its barrier.                           *)
CreateNpc(d) ==
  /\ NarratorTool
  /\ topology = Nothing
  /\ decision' = [what |-> d, place |-> where, rev |-> revision,
                  input |-> input]
  /\ Goto("barrier")
  /\ UNCHANGED <<worldVars, turns, topology, draft, budgetVars, planVars,
                 inputVars, cancelled, late, begun>>

(* How a turn may end: at its barrier, with a text, cancelled, over its    *)
(* own budget, or without its provider.                                    *)
TurnEnd(status, calls, barrier) ==
  /\ calls \in 0..TurnCalls
  /\ status \in {"completed", "cancelled", "budget", "bridge"}
  /\ barrier => status = "completed"
  /\ status = "completed" => calls > 0
  /\ status = "cancelled" => cancelled

(* OrchestrationState::merge: nothing is added when time has run out.      *)
Merged(calls) == ~late /\ usage + calls <= max_model_calls

Merge(calls) == usage' = IF late THEN usage ELSE usage + calls

(* The narrator turn is over and its usage is merged.  A failure there     *)
(* returns before the queues are taken; any other after it.                *)
NarratorOver(status, calls) ==
  /\ pc \in {"narrator", "barrier"}
  /\ TurnEnd(status, calls, pc = "barrier")
  /\ ~Merged(calls)
  /\ Merge(calls)
  /\ Return("budget")
  /\ UNCHANGED <<worldVars, queueVars, started, rounds, attempts, planVars,
                 inputVars, cancelled, late, tools, begun>>

NarratorFailed(status, calls) ==
  /\ pc = "narrator"
  /\ TurnEnd(status, calls, FALSE) /\ status # "completed"
  /\ Merged(calls)
  /\ Merge(calls)
  /\ TakeQueues
  /\ Return(status)
  /\ UNCHANGED <<worldVars, draft, started, rounds, attempts, planVars,
                 inputVars, cancelled, late, tools, begun>>

(* The queues are taken: a topology request first, then a decision, either *)
(* of which drops the NPC turns; then the turns.                           *)
NarratorCompleted(calls) ==
  /\ pc \in {"narrator", "barrier"}
  /\ TurnEnd("completed", calls, pc = "barrier")
  /\ Merged(calls)
  /\ Merge(calls)
  /\ TakeQueues
  /\ \/ topology # Nothing
          /\ work' = topology /\ Goto("topology")
          /\ UNCHANGED <<plan, asked>>
     \/ topology = Nothing /\ decision # Nothing
          /\ work' = decision /\ Goto("resolve")
          /\ UNCHANGED <<plan, asked>>
     \/ topology = Nothing /\ decision = Nothing /\ turns # <<>>
          /\ work' = Nothing /\ Goto("npc")
          /\ plan' = turns /\ asked' = turns
     \/ topology = Nothing /\ decision = Nothing /\ turns = <<>>
          /\ work' = Nothing /\ Goto("narrate")
          /\ UNCHANGED <<plan, asked>>
  /\ exhausted' = FALSE
  /\ UNCHANGED <<worldVars, draft, started, rounds, attempts, results,
                 observed, inputVars, cancelled, late, tools, begun>>

-----------------------------------------------------------------------------
(* The topology command is executed at the revision it was queued for:     *)
(* committed, refused by the world (stale, the scene already active, or a  *)
(* definition that does not compile), or lost with the store.              *)
TopologyFits == /\ work.rev = revision
                /\ work.to # SceneOf[where]

ExecuteTopology ==
  /\ pc = "topology"
  /\ \/ /\ TopologyFits
        /\ where' = IF work.to = None THEN where ELSE Entry[work.to]
        /\ revision' = revision + 1
        /\ Goto("round")
     \/ /\ Goto("round")
        /\ UNCHANGED <<where, revision>>
     \/ /\ Return("error")
        /\ UNCHANGED <<where, revision>>
  /\ UNCHANGED <<npc, heard, queueVars, budgetVars, planVars, inputVars,
                 cancelled, late, tools, begun>>

-----------------------------------------------------------------------------
(* resolve_npc_decisions.                                                  *)
InScene(s) == {a \in Npcs : Exists(a) /\ SceneOf[npc[a].place] = s}
Kept       == {a \in Npcs : npc[a].kept}

(* Faulty variant: one character too many.                                 *)
MaterializationLimitOffByOne(scene, persistent) ==
  \/ Cardinality(InScene(scene)) > max_materialized_per_scene
  \/ persistent /\ Cardinality(Kept) >= max_persistent_generated

MaterializationLimit(scene, persistent) ==
  \/ Cardinality(InScene(scene)) >= max_materialized_per_scene
  \/ persistent /\ Cardinality(Kept) >= max_persistent_generated

Settled == [what |-> work.what, place |-> work.place] \in settled

Generated == work.what.source = "generated"

(* What is refused without a turn: a stale decision, a limit.              *)
Refused ==
  \/ work.rev # revision
  \/ Generated /\ attempts >= max_generated_per_orchestration
  \/ MaterializationLimit(SceneOf[where], Generated /\ work.what.persistent)

(* A new character at the place of the decision.                           *)
Spawn ==
  LET a == CHOOSE new \in Npcs : ~Exists(new) IN
  /\ \E new \in Npcs : ~Exists(new)
  /\ npc' = [npc EXCEPT ![a] = [place |-> work.place,
                                agent |-> work.what.agent,
                                kept |-> Generated /\ work.what.persistent]]
  /\ revision' = revision + 1
  /\ settled' = settled \cup {[what |-> work.what, place |-> work.place]}

(* The input is cancelled, or the world cannot be observed.                *)
ResolveStops ==
  /\ pc = "resolve"
  /\ \/ cancelled /\ Return("cancelled")
     \/ ~cancelled /\ ~Settled /\ Return("error")
  /\ UNCHANGED <<worldVars, queueVars, budgetVars, planVars, inputVars,
                 cancelled, late, tools, begun>>

(* The same decision again, or one that is refused; or, for a preset, a    *)
(* spawn that fails.                                                       *)
ResolveUnspawned ==
  /\ pc = "resolve" /\ ~cancelled
  /\ Settled \/ Refused \/ ~Generated
  /\ Goto("round")
  /\ UNCHANGED <<worldVars, queueVars, budgetVars, planVars, inputVars,
                 cancelled, late, tools, begun>>

SpawnPreset ==
  /\ pc = "resolve" /\ ~cancelled
  /\ ~Settled /\ ~Refused /\ ~Generated
  /\ Spawn
  /\ Goto("round")
  /\ UNCHANGED <<where, heard, queueVars, budgetVars, planVars, input,
                 visible, witnessed, cancelled, late, tools, begun>>

(* The attempt is counted, then the turn; a draft left over is dropped.    *)
(* There is no turn when a definition the policy allows is missing.        *)
StartGeneration ==
  /\ pc = "resolve" /\ ~cancelled
  /\ ~Settled /\ ~Refused /\ Generated
  /\ attempts' = attempts + 1
  /\ \/ /\ TurnAllowed
        /\ started' = started + 1 /\ begun' = begun + 1
        /\ draft' = Nothing
        /\ Goto("generation")
     \/ /\ TurnAllowed
        /\ started' = started + 1
        /\ Goto("round")
        /\ UNCHANGED <<begun, draft>>
     \/ /\ ~TurnAllowed
        /\ Return("budget")
        /\ UNCHANGED <<started, begun, draft>>
  /\ UNCHANGED <<worldVars, decision, turns, topology, usage, rounds,
                 planVars, inputVars, cancelled, late, tools>>

(* The generation turn ends, with a draft submitted or not; submit_npc_    *)
(* draft is its barrier and is refused when there is a draft already.      *)
GenerationEnds(status, calls, submitted) ==
  LET d == IF submitted /\ draft = Nothing
           THEN [input |-> input, of |-> attempts] ELSE draft IN
  /\ pc = "generation"
  /\ TurnEnd(status, calls, submitted)
  /\ Merge(calls)
  /\ \/ /\ ~Merged(calls)
        /\ Return("budget")
        /\ draft' = d /\ UNCHANGED work
     \/ /\ Merged(calls) /\ status \in {"cancelled", "budget"}
        /\ Return(status)
        /\ UNCHANGED <<draft, work>>
     \/ /\ Merged(calls)
        /\ status = "bridge" \/ (status = "completed" /\ d = Nothing)
        /\ Goto("round")
        /\ UNCHANGED <<draft, work>>
     \/ /\ Merged(calls) /\ status = "completed" /\ d # Nothing
        /\ work' = [what |-> work.what, place |-> work.place,
                    rev |-> work.rev, input |-> d.input, of |-> d.of]
        /\ draft' = Nothing
        /\ Goto("spawn")
  /\ UNCHANGED <<worldVars, decision, turns, topology, started, rounds,
                 attempts, plan, results, exhausted, observed, asked,
                 inputVars, cancelled, late, tools, begun>>

SpawnGenerated ==
  /\ pc = "spawn"
  /\ \/ Spawn
     \/ UNCHANGED <<npc, revision, settled>>
  /\ Goto("round")
  /\ UNCHANGED <<where, heard, queueVars, budgetVars, planVars, input,
                 visible, witnessed, cancelled, late, tools, begun>>

-----------------------------------------------------------------------------
(* The NPC turns of the plan, one after another.                           *)
NextRequest == /\ pc = "npc" /\ plan # <<>>
               /\ plan' = Tail(plan)

Result(request, status) ==
  results' = Append(results, [request |-> request, status |-> status])

(* The NPC is still an agent beside the player, in the requested scene.    *)
Fits(r) == Addressable(r.actor) /\ SceneOf[where] = r.scene

NpcCancelled ==
  /\ NextRequest
  /\ cancelled
  /\ Result(Head(plan), "cancelled")
  /\ UNCHANGED <<worldVars, queueVars, budgetVars, exhausted, work, observed,
                 asked, inputVars, pc, cancelled, late, outcome, tools, begun>>

NpcOutOfBudget ==
  /\ NextRequest
  /\ ~cancelled /\ exhausted
  /\ Result(Head(plan), "budget")
  /\ UNCHANGED <<worldVars, queueVars, budgetVars, exhausted, work, observed,
                 asked, inputVars, pc, cancelled, late, outcome, tools, begun>>

(* Faulty variant: a request that no longer fits is skipped.               *)
NpcStaleSkipped ==
  /\ NextRequest
  /\ ~cancelled /\ ~exhausted /\ ~Fits(Head(plan))
  /\ UNCHANGED <<worldVars, queueVars, budgetVars, results, exhausted, work,
                 observed, asked, inputVars, pc, cancelled, late, outcome,
                 tools, begun>>

NpcStale ==
  /\ NextRequest
  /\ ~cancelled /\ ~exhausted /\ ~Fits(Head(plan))
  /\ Result(Head(plan), "stale")
  /\ UNCHANGED <<worldVars, queueVars, budgetVars, exhausted, work, observed,
                 asked, inputVars, pc, cancelled, late, outcome, tools, begun>>

(* Faulty variant: whoever is asked is told what the player said.          *)
RememberAnyone(a) ==
  /\ heard' = [heard EXCEPT ![a] = @ \cup {input}]
  /\ revision' = IF input \in heard[a] THEN revision ELSE revision + 1

(* remember_npc_dialogue: an NPC that was with the player at the input is  *)
(* told of it, once; what it is told is a commit of its own.               *)
Remember(a) ==
  IF a \in visible /\ input \notin heard[a]
  THEN /\ heard' = [heard EXCEPT ![a] = @ \cup {input}]
       /\ revision' = revision + 1
  ELSE UNCHANGED <<heard, revision>>

(* npc_context is read after the dialogue was stored.                      *)
NpcStarts ==
  /\ NextRequest
  /\ ~cancelled /\ ~exhausted /\ Fits(Head(plan))
  /\ Remember(Head(plan).actor)
  /\ TurnAllowed
  /\ started' = started + 1
  /\ begun' = begun + 1 /\ tools' = 0
  /\ work' = Head(plan)
  /\ observed' = revision'
  /\ Goto("npc_turn")
  /\ UNCHANGED <<where, npc, queueVars, usage, rounds, attempts, results,
                 exhausted, asked, inputVars, cancelled, late>>

(* The dialogue is stored, but there is no turn left.                      *)
NpcRefused ==
  /\ NextRequest
  /\ ~cancelled /\ ~exhausted /\ Fits(Head(plan))
  /\ Remember(Head(plan).actor)
  /\ ~TurnAllowed
  /\ exhausted' = TRUE
  /\ Result(Head(plan), "budget")
  /\ UNCHANGED <<where, npc, queueVars, budgetVars, work, observed, asked,
                 inputVars, pc, cancelled, late, outcome, tools, begun>>

(* The dialogue cannot be stored.                                          *)
NpcStoreError ==
  /\ pc = "npc" /\ plan # <<>>
  /\ ~cancelled /\ ~exhausted /\ Fits(Head(plan))
  /\ Head(plan).actor \in visible /\ input \notin heard[Head(plan).actor]
  /\ Return("error")
  /\ UNCHANGED <<worldVars, queueVars, budgetVars, planVars, inputVars,
                 cancelled, late, tools, begun>>

(* A tool call of the NPC: a command of its own, which may move it.        *)
NpcAct ==
  /\ pc = "npc_turn" /\ ~cancelled
  /\ tools < MaxTools
  /\ tools' = tools + 1
  /\ observed = revision
  /\ revision' = revision + 1 /\ observed' = observed + 1
  /\ \E p \in Places :
       /\ SceneOf[p] = SceneOf[npc[work.actor].place]
       /\ npc' = [npc EXCEPT ![work.actor].place = p]
  /\ UNCHANGED <<where, heard, queueVars, budgetVars, plan, results,
                 exhausted, work, asked, inputVars, pc, cancelled, late,
                 outcome, begun>>

(* The turn ends, its usage is merged, and a reply is remembered; an NPC   *)
(* turn that is over a budget ends the input after the plan, not at once.  *)
NpcEnds(status, calls) ==
  /\ pc = "npc_turn"
  /\ TurnEnd(status, calls, FALSE)
  /\ Merge(calls)
  /\ exhausted' = (exhausted \/ ~Merged(calls) \/ status = "budget")
  /\ \/ /\ status = "completed"
        /\ revision' = revision + 1
        /\ Result(work, status) /\ Goto("npc")
     \/ /\ status = "completed"
        /\ Return("error")
        /\ UNCHANGED <<revision, results>>
     \/ /\ status # "completed"
        /\ Result(work, status) /\ Goto("npc")
        /\ UNCHANGED revision
  /\ work' = Nothing /\ observed' = 0
  /\ UNCHANGED <<where, npc, heard, queueVars, started, rounds, attempts,
                 plan, asked, inputVars, cancelled, late, tools, begun>>

PlanDone ==
  /\ pc = "npc" /\ plan = <<>>
  /\ \/ cancelled /\ Return("cancelled")
     \/ ~cancelled /\ exhausted /\ Return("budget")
     \/ ~cancelled /\ ~exhausted /\ Goto("round")
  /\ UNCHANGED <<worldVars, queueVars, budgetVars, planVars, inputVars,
                 cancelled, late, tools, begun>>

(* The narration is appended to the transcript and the input is answered.  *)
Narrate ==
  /\ pc = "narrate"
  /\ \E how \in {"ok", "error"} : Return(how)
  /\ UNCHANGED <<worldVars, queueVars, budgetVars, planVars, inputVars,
                 cancelled, late, tools, begun>>

-----------------------------------------------------------------------------
Cancel ==
  /\ pc # "idle" /\ ~cancelled
  /\ cancelled' = TRUE
  /\ UNCHANGED <<worldVars, queueVars, budgetVars, planVars, inputVars, pc,
                 late, outcome, tools, begun>>

(* The orchestration's max_elapsed_ms has passed.                          *)
Deadline ==
  /\ pc # "idle" /\ ~late
  /\ late' = TRUE
  /\ UNCHANGED <<worldVars, queueVars, budgetVars, planVars, inputVars, pc,
                 cancelled, outcome, tools, begun>>

NarratorTurn ==
  \/ NarratorAct
  \/ \E a \in Npcs : RequestNpcTurn(a)
  \/ \E to \in Scenes \cup {None} : QueueTopology(to)
  \/ \E d \in Decisions : CreateNpc(d)

Statuses == {"completed", "cancelled", "budget", "bridge"}

TurnEnds ==
  \E calls \in 0..TurnCalls :
    \/ NarratorCompleted(calls)
    \/ \E status \in Statuses :
         \/ NarratorOver(status, calls) \/ NarratorFailed(status, calls)
         \/ NpcEnds(status, calls)
         \/ \E submitted \in BOOLEAN : GenerationEnds(status, calls, submitted)

Runtime ==
  \/ StartRound \/ RoundRefused \/ NarratorTurn \/ TurnEnds
  \/ ExecuteTopology \/ ResolveStops \/ ResolveUnspawned \/ SpawnPreset
  \/ StartGeneration \/ SpawnGenerated
  \/ NpcCancelled \/ NpcOutOfBudget \/ NpcStale \/ NpcStarts \/ NpcRefused
  \/ NpcStoreError \/ NpcAct \/ PlanDone \/ Narrate

Done == pc = "idle" /\ input = MaxInputs /\ UNCHANGED vars

Next == Begin \/ Runtime \/ Cancel \/ Deadline \/ Done

(* The worker polls the input's future to its end, and a turn ends         *)
(* (TurnEnds of AgentRunner).  The player and the clock owe nothing.       *)
Spec == Init /\ [][Next]_vars /\ WF_vars(Runtime)

-----------------------------------------------------------------------------
(* The narrator's next round has exactly one result for every NPC turn it  *)
(* asked for, in the order it asked, the turns that never started          *)
(* included.                                                               *)
RequestsAnswered ==
  pc = "round" => asked = [i \in DOMAIN results |-> results[i].request]

(* Whatever is asked for, an input begins no more turns than its limit, is *)
(* at most one turn over its model calls, and spawns no character that     *)
(* brings a scene or the save over its limit: the limits are checked       *)
(* before the turn that generates one and hold when it is spawned.         *)
WithinLimits ==
  /\ begun <= max_started_agent_turns
  /\ usage <= max_model_calls + TurnCalls
  /\ pc \notin {"idle", "npc", "npc_turn"} => usage <= max_model_calls
  /\ \A s \in Scenes : Cardinality(InScene(s)) <= max_materialized_per_scene
  /\ Cardinality(Kept) <= max_persistent_generated

(* An NPC remembers only what was said in its presence: not what was said  *)
(* before it was created, or before the player came to it.                 *)
HeardInPresence ==
  \A a \in Npcs : \A i \in heard[a] : a \in witnessed[i]

(* Every input is answered, whatever the models keep asking for.           *)
InputEnds == pc # "idle" ~> pc = "idle"
=============================================================================
