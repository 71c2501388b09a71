----------------------------- MODULE WorldRules -----------------------------
(***************************************************************************)
(* What happens in the course of one command: GameWorld::execute           *)
(* (game_world.rs) and the declarative engine (declarative.rs).  A command *)
(* applies effects, time passes from one boundary of a condition to the    *)
(* next, and the events of all this trigger rules whose effects cause      *)
(* events in turn.  Any step may refuse, and then the world is rebuilt     *)
(* from the records and the session parameters kept at the start.          *)
(*                                                                         *)
(* The calls on the stack and the loops still to run are the sequence      *)
(* todo: its head is done next and may put work in front of the rest.      *)
(* Items are in GameWorld, and so is the effect GrantItem.                 *)
(***************************************************************************)
EXTENDS Naturals, Sequences, FiniteSets, SequencesExt

CONSTANTS Actors, Player,
          MaxPool,     \* ResourcePool.base_maximum; the minimum is 0
          Conditions,  \* a sequence of ConditionDefinition, in id order:
                       \*   duration (0: permanent), interval (0: not
                       \*   periodic), effects, policy, maximum, refresh
          Skills,      \* SkillDefinition: cost, cooldown, effects
          Known,       \* the skills characters start with
          Actions,     \* GameplayActionDefinition: needs, effects
          Story,       \* options of the event's nodes: needs, effects, next
          FirstNode, StoryScene,
          Rules,       \* a sequence of RuleDefinition in order of priority
                       \*   and id: on, arg, needs, effects
          Scenes, FirstScene,
          max_triggered_rules, max_evaluated_predicates,
          max_applied_effects, max_cascade_depth,
          MaxClock,    \* bound: WorldTime
          MaxTicks,    \* bound: ticks of one AdvanceTime
          MaxCommands  \* bound: commands

Limits == [rules |-> max_triggered_rules, predicates |-> max_evaluated_predicates,
           effects |-> max_applied_effects]

(* What the registry has checked of a list of effects: the conditions they *)
(* apply are defined.  The names of emitted events are not those of the    *)
(* engine's own events, which are another variant of WorldEventKind.       *)
EffectsKnown(effects) ==
  /\ effects \in Seq(Range(effects))
  /\ \A e \in Range(effects) :
       /\ e[1] \in {"gain", "lose", "condition", "skill", "saved", "session", "emit"}
       /\ e[1] = "condition" => e[2] \in DOMAIN Conditions
       /\ e[1] = "emit" => e[2] # "clock_advanced"

ASSUME WorldRulesAssumption ==
  /\ Player \in Actors /\ {FirstScene, StoryScene} \subseteq Scenes
  /\ {MaxPool, MaxClock, MaxTicks, MaxCommands, max_triggered_rules,
      max_evaluated_predicates, max_applied_effects, max_cascade_depth} \subseteq Nat
  /\ Conditions \in Seq(Range(Conditions)) /\ Rules \in Seq(Range(Rules))
  /\ \A d \in DOMAIN Conditions :
       /\ Conditions[d].policy \in {"unique", "refresh", "stack", "independent"}
       /\ Conditions[d].duration \in Nat /\ Conditions[d].interval \in Nat
       /\ EffectsKnown(Conditions[d].effects)
  /\ \A k \in DOMAIN Skills : EffectsKnown(Skills[k].effects)
  /\ \A g \in DOMAIN Actions : EffectsKnown(Actions[g].effects)
  /\ \A n \in DOMAIN Story : \A k \in DOMAIN Story[n] : EffectsKnown(Story[n][k].effects)
  /\ \A r \in DOMAIN Rules :
       /\ EffectsKnown(Rules[r].effects)
       /\ Rules[r].on = "clock" => Rules[r].arg \in Nat \ {0}

Done  == "completed"   \* the node of an event instance that has ended
Never == 0             \* no time: WorldTime starts at 0, deadlines later

VARIABLES
  world,    \* the records: clock, scene, pool, cond, granted, ready, saved,
            \* count (RuleState.trigger_count, of the rules on the clock;
            \* no property tells the others apart), node (the event instance)
  session,  \* session_parameters
  before,   \* rollback_records and rollback_session
  outcome,  \* "none" before the first command, "running", "done", "refused"
  actor,    \* actor_id of the command
  commands, \* how many there have been
  deletes,  \* the instances the command has deleted
  todo, events, signals, budget

vars == <<world, session, before, outcome, actor, commands, deletes, todo, events, signals, budget>>

ClockRules == {r \in DOMAIN Rules : Rules[r].on = "clock"}

Nothing == [rules |-> 0, predicates |-> 0, effects |-> 0]

Init ==
  /\ world = [clock |-> 0, scene |-> FirstScene,
              pool |-> [a \in Actors |-> MaxPool],
              cond |-> << >>,
              granted |-> Known,
              ready |-> [a \in Actors |-> [k \in DOMAIN Skills |-> Never]],
              saved |-> 0,
              count |-> [r \in ClockRules |-> 0],
              node |-> FirstNode]
  /\ session = 0
  /\ before = [world |-> world, session |-> session]
  /\ outcome = "none" /\ actor = Player /\ commands = 0
  /\ deletes = {}
  /\ todo = << >> /\ events = << >> /\ signals = << >> /\ budget = Nothing

----------------------------------------------------------------------------
(* Budgets and predicates.                                                 *)

(* charge_rule, charge_predicate and charge_effect: n units more, while    *)
(* the limit allows.                                                       *)
CanCharge(kind, n) == budget[kind] + n <= Limits[kind]

(* A predicate is an atom, or the negation of one, which costs one more.   *)
Holds(a, p) ==
  LET atom == IF p.kind = "resource" THEN world.pool[a] >= p.arg
              ELSE \E i \in DOMAIN world.cond :
                     world.cond[i].target = a /\ world.cond[i].def = p.arg
  IN  atom # p.negated

(* evaluate_predicates stops at the first one that fails.                  *)
evaluate_predicates(a, needs) == \A k \in DOMAIN needs : Holds(a, needs[k])

PredicateCost(a, needs) ==
  LET cost(k) == IF needs[k].negated THEN 2 ELSE 1
      evaluated == {k \in DOMAIN needs : \A j \in 1..(k - 1) : Holds(a, needs[j])}
  IN  MapThenSumSet(cost, evaluated)

----------------------------------------------------------------------------
(* Work and events.                                                        *)

(* A piece of work is <<op, actor, argument>>, an effect <<kind, argument>> *)
(* and an event <<type, argument>>.                                        *)
Work(op, a, arg) == <<op, a, arg>>
Effects(a, effects) == [k \in DOMAIN effects |-> Work("effect", a, effects[k])]
Event(type, arg) == <<type, arg>>
Kind(e) == e[1]
Arg(e) == e[2]

(* enqueue_event_signals: an event is announced by its type, and some also *)
(* by what they are about.  A rule's having been triggered is not.         *)
SignalsOf(e, depth) ==
  IF Kind(e) = "rule_triggered" THEN << >>
  ELSE << [by |-> "type", event |-> e, depth |-> depth] >>
       \o IF Kind(e) \in {"performed", "clock_advanced", "scene_left", "scene_entered"}
          THEN << [by |-> "subject", event |-> e, depth |-> depth] >>
          ELSE << >>

AllSignals(es, depth) == FlattenSeq([n \in DOMAIN es |-> SignalsOf(es[n], depth)])

----------------------------------------------------------------------------
(* Starting a command: what execute and the command's own code check and   *)
(* do before anything that goes through todo.                              *)
Begin(a, work, es, w) ==
  /\ outcome # "running" /\ commands < MaxCommands
  /\ outcome' = "running" /\ actor' = a /\ commands' = commands + 1
  /\ before' = [world |-> world, session |-> session]
  /\ world' = w
  /\ todo' = work \o << Work("rules", a, 0) >>
  /\ events' = es
  /\ deletes' = {} /\ signals' = << >>
  /\ UNCHANGED session

use_skill(a, k) ==
  LET cost == Skills[k].cost
  IN  /\ k \in world.granted[a]
      /\ world.ready[a][k] <= world.clock
      /\ world.pool[a] >= cost
      /\ Begin(a, Effects(a, Skills[k].effects) \o << Work("used", a, k) >>,
               IF cost = 0 THEN << >> ELSE << Event("resource_changed", 0) >>,
               [world EXCEPT !.pool[a] = @ - cost])
      /\ budget' = Nothing

advance_time(a, ticks) ==
  LET to == world.clock + ticks
  IN  /\ ticks # 0 /\ to <= MaxClock
      /\ Begin(a, << Work("advance", a, to) >>,
               << Event("clock_advanced", <<world.clock, to>>) >>, world)
      /\ budget' = Nothing

perform_gameplay_action(a, g) ==
  LET needs == Actions[g].needs
  IN  /\ PredicateCost(a, needs) <= max_evaluated_predicates
      /\ evaluate_predicates(a, needs)
      /\ Begin(a, Effects(a, Actions[g].effects) \o << Work("performed", a, g) >>,
               << >>, world)
      /\ budget' = [Nothing EXCEPT !.predicates = PredicateCost(a, needs)]

(* An event is bound to a scene; an option is chosen where the player is.  *)
choose_event_option(k) ==
  /\ world.node # Done /\ world.node \in DOMAIN Story
  /\ world.scene = StoryScene
  /\ k \in DOMAIN Story[world.node]
  /\ LET needs == Story[world.node][k].needs
     IN  /\ PredicateCost(Player, needs) <= max_evaluated_predicates
         /\ evaluate_predicates(Player, needs)
         /\ Begin(Player, Effects(Player, Story[world.node][k].effects)
                    \o << Work("chosen", Player, k) >>, << >>, world)
         /\ budget' = [Nothing EXCEPT !.predicates = PredicateCost(Player, needs)]

(* TransitionScene, as far as rules and events see it.                     *)
transition_scene(s) ==
  /\ s # world.scene
  /\ Begin(Player, << >>, << Event("character_moved", 0), Event("scene_left", world.scene),
                     Event("scene_entered", s) >>,
           [world EXCEPT !.scene = s])
  /\ budget' = Nothing

----------------------------------------------------------------------------
(* Effects.                                                                *)

Instances(a, d) ==
  {i \in DOMAIN world.cond : world.cond[i].target = a /\ world.cond[i].def = d}

condition_expiry(d) ==
  IF Conditions[d].duration = 0 THEN Never ELSE world.clock + Conditions[d].duration
condition_periodic(d) ==
  IF Conditions[d].interval = 0 THEN Never ELSE world.clock + Conditions[d].interval

refresh_condition_timing(c) ==
  [c EXCEPT !.expires = condition_expiry(c.def), !.next = condition_periodic(c.def)]

NewInstance(a, d) ==
  [def |-> d, target |-> a, stacks |-> 1,
   expires |-> condition_expiry(d), next |-> condition_periodic(d)]

(* Instances are numbered as they come; a number may serve again in a      *)
(* later command, once no later instance is left.                          *)
FreshInstance == Max({0} \cup deletes \cup DOMAIN world.cond) + 1

WithInstance(i, c) == [j \in DOMAIN world.cond \cup {i} |->
                         IF j = i THEN c ELSE world.cond[j]]

(* What the stack policy makes of one more application, if it allows it.   *)
StackAllows(a, d) ==
  LET n == Cardinality(Instances(a, d))
      def == Conditions[d]
  IN  CASE def.policy = "unique"      -> n = 0
        [] def.policy = "refresh"     -> n <= 1
        [] def.policy = "independent" -> n < def.maximum
        [] def.policy = "stack"       ->
             n = 0 \/ (n = 1 /\ \A i \in Instances(a, d) :
                                  world.cond[i].stacks < def.maximum)

Applied(a, d) ==
  LET def == Conditions[d]
      old == CHOOSE i \in Instances(a, d) : TRUE
      c == world.cond[old]
  IN  IF Instances(a, d) = {} \/ def.policy \in {"unique", "independent"}
      THEN WithInstance(FreshInstance, NewInstance(a, d))
      ELSE IF def.policy = "refresh"
      THEN WithInstance(old, refresh_condition_timing(c))
      ELSE LET more == [c EXCEPT !.stacks = @ + 1]
           IN  WithInstance(old, IF def.refresh THEN refresh_condition_timing(more)
                                 ELSE more)

(* apply_effect: whether it is refused, and what it changes.               *)
EffectAllowed(a, e) ==
  CASE Kind(e) = "gain"      -> world.pool[a] + Arg(e) <= MaxPool
    [] Kind(e) = "lose"      -> world.pool[a] >= Arg(e)
    [] Kind(e) = "condition" -> StackAllows(a, Arg(e))
    [] Kind(e) = "skill"     -> Arg(e) \notin world.granted[a]
    [] OTHER                -> TRUE

EffectWorld(a, e) ==
  CASE Kind(e) = "gain"      -> [world EXCEPT !.pool[a] = @ + Arg(e)]
    [] Kind(e) = "lose"      -> [world EXCEPT !.pool[a] = @ - Arg(e)]
    [] Kind(e) = "condition" -> [world EXCEPT !.cond = Applied(a, Arg(e))]
    [] Kind(e) = "skill"     -> [world EXCEPT !.granted[a] = @ \cup {Arg(e)}]
    [] Kind(e) = "saved"     -> [world EXCEPT !.saved = Arg(e)]
    [] OTHER                -> world

EffectEvent(e) ==
  CASE Kind(e) \in {"gain", "lose"}     -> Event("resource_changed", 0)
    [] Kind(e) = "condition"            -> Event("condition_applied", 0)
    [] Kind(e) = "skill"                -> Event("skill_granted", 0)
    [] Kind(e) \in {"saved", "session"} -> Event("parameter_changed", 0)
    [] Kind(e) = "emit"                 -> Event(Arg(e), 0)

----------------------------------------------------------------------------
(* The head of todo, while a command runs.                                 *)

Head1(op) == outcome = "running" /\ todo # << >> /\ todo[1][1] = op
By  == todo[1][2]
Now == todo[1][3]
Rest == Tail(todo)

CanApply == CanCharge("effects", 1) /\ EffectAllowed(By, Now)

apply_effect ==
  /\ Head1("effect") /\ CanApply
  /\ world' = EffectWorld(By, Now)
  /\ session' = IF Kind(Now) = "session" THEN Arg(Now) ELSE session
  /\ events' = Append(events, EffectEvent(Now))
  /\ budget' = [budget EXCEPT !.effects = @ + 1]
  /\ todo' = Rest
  /\ UNCHANGED <<before, outcome, actor, commands, deletes, signals>>

(* The ends of use_skill, perform_gameplay_action and choose_event_option. *)
Finish(op, w, e) ==
  /\ Head1(op)
  /\ world' = w
  /\ events' = Append(events, e)
  /\ todo' = Rest
  /\ UNCHANGED <<session, before, outcome, actor, commands, deletes, signals, budget>>

CooledDown(k) ==
  IF Skills[k].cooldown = 0 THEN Never ELSE world.clock + Skills[k].cooldown

SkillUsed ==
  Finish("used", [world EXCEPT !.ready[By][Now] = CooledDown(Now)],
         Event("skill_used", 0))

ActionPerformed == Finish("performed", world, Event("performed", Now))

OptionChosen ==
  Finish("chosen", [world EXCEPT !.node = Story[world.node][Now].next],
         Event("option_chosen", 0))

----------------------------------------------------------------------------
(* The loop of advance_time.                                               *)

(* Faulty variant: only expiries stop the clock.                           *)
BoundariesOfExpiry(to) == {world.cond[i].expires : i \in DOMAIN world.cond} \cap 1..to

Boundaries(to) ==
  (UNION {{world.cond[i].next, world.cond[i].expires} : i \in DOMAIN world.cond}) \cap 1..to

next_condition_boundary(to) == Min(Boundaries(to))

(* conditions_periodic_at and conditions_expiring_at, ordered by           *)
(* definition and instance.                                                *)
Precedes(i, j) ==
  \/ world.cond[i].def < world.cond[j].def
  \/ world.cond[i].def = world.cond[j].def /\ i < j

Ordered(set) ==
  [k \in 1..Cardinality(set) |->
     CHOOSE i \in set : Cardinality({j \in set : Precedes(j, i)}) = k - 1]

conditions_periodic_at(t) == {i \in DOMAIN world.cond : world.cond[i].next = t}
conditions_expiring_at(t) ==
  {i \in DOMAIN world.cond : world.cond[i].expires \in 1..t}

Advance ==
  LET to == Now
      t == next_condition_boundary(to)
      due == Ordered(conditions_periodic_at(t))
  IN  /\ Head1("advance")
      /\ IF Boundaries(to) = {}
         THEN /\ world' = [world EXCEPT !.clock = to]
              /\ todo' = Rest
         ELSE /\ world' = [world EXCEPT !.clock = t]
              /\ todo' = [k \in DOMAIN due |-> Work("tick", By, due[k])]
                           \o << Work("expire", By, t) >> \o todo
      /\ UNCHANGED <<session, before, outcome, actor, commands, deletes, events,
                     signals, budget>>

(* One due condition: rescheduled, then its effects on its target.  An     *)
(* effect of an earlier one may have moved it to another time.             *)
Tick ==
  LET i == Now
      c == world.cond[i]
      def == Conditions[c.def]
  IN  /\ Head1("tick")
      /\ IF c.next # world.clock
         THEN todo' = Rest /\ UNCHANGED <<world, events>>
         ELSE /\ world' = [world EXCEPT !.cond[i].next = world.clock + def.interval]
              /\ events' = Append(events, Event("condition_ticked", 0))
              /\ todo' = Effects(c.target, def.effects) \o Rest
      /\ UNCHANGED <<session, before, outcome, actor, commands, deletes, signals, budget>>

Expire ==
  LET gone == conditions_expiring_at(Now)
  IN  /\ Head1("expire")
      /\ world' = [world EXCEPT !.cond =
                     [i \in DOMAIN world.cond \ gone |-> world.cond[i]]]
      /\ deletes' = deletes \cup gone
      /\ events' = events \o [k \in 1..Cardinality(gone) |-> Event("condition_expired", 0)]
      /\ todo' = Rest
      /\ UNCHANGED <<session, before, outcome, actor, commands, signals, budget>>

----------------------------------------------------------------------------
(* run_declarative_rules.                                                  *)

StartRules ==
  /\ Head1("rules")
  /\ signals' = AllSignals(events, 0)
  /\ todo' = Rest
  /\ UNCHANGED <<world, session, before, outcome, actor, commands, deletes, events, budget>>

(* Faulty variant: the periods in the time that passed.                    *)
ClockPeriods(every, from, to) == (to - from) \div every

(* How often a signal triggers a rule.                                     *)
ClockCrossings(every, from, to) == (to \div every) - (from \div every)

trigger_occurrences(r, s) ==
  CASE Rules[r].on = "event" ->
         IF s.by = "type" /\ Kind(s.event) = Rules[r].arg THEN 1 ELSE 0
    [] Rules[r].on = "clock" ->
         IF s.by = "subject" /\ Kind(s.event) = "clock_advanced"
         THEN ClockCrossings(Rules[r].arg, Arg(s.event)[1], Arg(s.event)[2]) ELSE 0
    [] OTHER ->    \* performed, scene_left, scene_entered
         IF s.by = "subject" /\ Kind(s.event) = Rules[r].on /\ Arg(s.event) = Rules[r].arg
         THEN 1 ELSE 0

(* The rules a signal triggers, in order, each as often as it does.        *)
Firings(r, s) ==
  [k \in 1..trigger_occurrences(r, s) |->
     Work("fire", actor, [rule |-> r, depth |-> s.depth, start |-> 0])]

Triggered(s) == FlattenSeq([r \in DOMAIN Rules |-> Firings(r, s)])

RulesRunning == outcome = "running" /\ todo = << >> /\ signals # << >>

TooDeep(s) == Triggered(s) # << >> /\ s.depth > max_cascade_depth

NextSignal ==
  /\ RulesRunning /\ ~TooDeep(signals[1])
  /\ todo' = Triggered(signals[1])
  /\ signals' = Tail(signals)
  /\ UNCHANGED <<world, session, before, outcome, actor, commands, deletes, events, budget>>

(* A triggered rule: its predicates now, then its effects for the actor of *)
(* the command.                                                            *)
Cost(r) == PredicateCost(actor, Rules[r].needs)

CanFire ==
  LET r == Now.rule
  IN  /\ CanCharge("predicates", Cost(r))
      /\ evaluate_predicates(actor, Rules[r].needs) => CanCharge("rules", 1)

Fire ==
  LET r == Now.rule
      charged == [budget EXCEPT !.predicates = @ + Cost(r)]
  IN  /\ Head1("fire") /\ CanFire
      /\ IF evaluate_predicates(actor, Rules[r].needs)
         THEN /\ budget' = [charged EXCEPT !.rules = @ + 1]
              /\ todo' = Effects(actor, Rules[r].effects)
                           \o << Work("fired", actor, [Now EXCEPT !.start = Len(events)]) >>
                           \o Rest
         ELSE budget' = charged /\ todo' = Rest
      /\ UNCHANGED <<world, session, before, outcome, actor, commands, deletes, events, signals>>

(* The rule's state, and the signals of what its effects caused.           *)
Fired ==
  LET caused == SubSeq(events, Now.start + 1, Len(events))
  IN  /\ Head1("fired")
      /\ world' = [world EXCEPT !.count =
                     [r \in ClockRules |-> IF r = Now.rule THEN @[r] + 1 ELSE @[r]]]
      /\ events' = Append(events, Event("rule_triggered", 0))
      /\ signals' = signals \o AllSignals(caused, Now.depth + 1)
      /\ todo' = Rest
      /\ UNCHANGED <<session, before, outcome, actor, commands, deletes, budget>>

----------------------------------------------------------------------------
(* The end of execute.                                                     *)

Finished == outcome = "running" /\ todo = << >> /\ signals = << >>

(* condition.clock_schedule of validate_references.                        *)
Scheduled ==
  \A i \in DOMAIN world.cond :
    LET c == world.cond[i]
    IN  /\ IF Conditions[c.def].duration = 0 THEN c.expires = Never
           ELSE c.expires > world.clock
        /\ IF Conditions[c.def].interval = 0 THEN c.next = Never
           ELSE c.next > world.clock

(* Between commands the locals of execute are gone.                        *)
Idle ==
  /\ actor' = Player /\ deletes' = {}
  /\ todo' = << >> /\ events' = << >> /\ signals' = << >> /\ budget' = Nothing

Commit ==
  /\ Finished /\ Scheduled
  /\ outcome' = "done"
  /\ before' = [world |-> world, session |-> session]
  /\ Idle
  /\ UNCHANGED <<world, session, commands>>

(* Whatever refuses, the candidate is dropped: from_records of the records *)
(* kept, and restore_session_parameters.                                   *)
Refused ==
  \/ Head1("effect") /\ ~CanApply
  \/ Head1("fire") /\ ~CanFire
  \/ RulesRunning /\ TooDeep(signals[1])
  \/ Finished /\ ~Scheduled

(* Faulty variant: only the records are rebuilt.                           *)
RestoredRecords == [world |-> before.world, session |-> session]

Restored == [world |-> before.world, session |-> before.session]

Rollback ==
  /\ Refused
  /\ outcome' = "refused"
  /\ world' = Restored.world /\ session' = Restored.session
  /\ Idle
  /\ UNCHANGED <<before, commands>>

Command ==
  \/ \E a \in Actors, k \in DOMAIN Skills : use_skill(a, k)
  \/ \E a \in Actors, ticks \in 1..MaxTicks : advance_time(a, ticks)
  \/ \E a \in Actors, g \in DOMAIN Actions : perform_gameplay_action(a, g)
  \/ \E k \in UNION {DOMAIN Story[n] : n \in DOMAIN Story} : choose_event_option(k)
  \/ \E s \in Scenes : transition_scene(s)

Step ==
  \/ apply_effect \/ SkillUsed \/ ActionPerformed \/ OptionChosen
  \/ Advance \/ Tick \/ Expire
  \/ StartRules \/ NextSignal \/ Fire \/ Fired
  \/ Commit \/ Rollback

Next == Command \/ Step

(* execute is an ordinary call: it runs until it returns.                  *)
Spec == Init /\ [][Next]_vars /\ WF_vars(Step)

----------------------------------------------------------------------------
(* Properties.                                                             *)

(* A refused command leaves no trace, whichever of its steps refused: not  *)
(* in the records and not in the session parameters.                       *)
RolledBack ==
  outcome = "refused" => world = before.world /\ session = before.session

(* Time never runs past a condition: at every moment, also in the middle   *)
(* of an advance, no tick and no expiry is overdue, and the next tick is   *)
(* no further away than one interval (none was skipped).                   *)
OnTime ==
  \A i \in DOMAIN world.cond :
    LET c == world.cond[i]
        interval == Conditions[c.def].interval
    IN  /\ c.next # Never => c.next \in world.clock..(world.clock + interval)
        /\ c.expires # Never => c.expires >= world.clock

(* A clock rule without predicates has been triggered once for every       *)
(* multiple of its period, however the time was cut into advances.         *)
ClockRulesExact ==
  outcome # "running" =>
    \A r \in ClockRules :
      Rules[r].needs = << >> => world.count[r] = world.clock \div Rules[r].arg

(* What an accepted command deletes was there when it started: "delete" of *)
(* a record that does not exist makes rebuild_records fail, and the save   *)
(* cannot be loaded (runtime.md:874-876).  A condition that a tick applies *)
(* and that expires in the same AdvanceTime breaks it.                     *)
Replayable == Finished /\ Scheduled => deletes \subseteq DOMAIN before.world.cond

=============================================================================
