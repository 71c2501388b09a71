# Loreloom verification

TLA+ specifications of the parts of Loreloom whose correctness depends on the
order in which things happen: the durable save, the in-memory world in front of
it and the rules of that world, the two threads of a running game, the loop that
lets a language model act on the world through tools, the compilation of mods,
and the way from the command line to a game. TLC checks the specifications on
small instances; TLAPS proves the safety of eight of them, and the two refinements,
for every instance.

Contents: [the system](#the-system) · [modules](#modules-and-the-code) ·
[runs](#runs) · [fairness](#fairness) · [proofs](#proofs) ·
[finding](#finding) · [observations](#observations) ·
[not modelled](#not-modelled) · [plan](#plan)

## The system

Loreloom is a single-player text game. A player types an input; a narrator agent
(a language model with tools) may act on the world, create characters, change
scenes and ask characters to speak; every change is one command on one world,
committed to one save.

```
 terminal thread            worker thread
 run_loop / TuiApp  --cmd-->  RuntimeAdapter worker
        ^           <-event-        |
        |                    GameRuntime  (orchestration: rounds, NPCs, budgets)
  CancellationToken <------>        |
                              AgentRunner   --> model provider (may never answer)
                                    | tool calls
                              RuntimeToolExecutor
                                    |
                              WorldService  (mutex: GameWorld + session overlay)
                                    | commit / resolve / load
                              SaveStore     --> database  <-- other connections
```

| Component (crate) | State it keeps | Operations | What makes it correct | What is hard |
|---|---|---|---|---|
| `SaveStore` (store) | head row, record operations, action rows, events, transcripts, checkpoints; per handle the cached manifest and revision | open, connect, commit, resolve_action, load, checkpoint, adopt_content_locks | one linear history in which no ActionId occurs twice; whatever is durable can be loaded; a success answer is true | several connections; lost answers; six unsynchronised reads; cached manifest |
| `WorldService` (runtime) | the world, its events, session parameters, behind one mutex | observe, execute, append_transcript, remember_npc_dialogue, recovery | nobody sees a world that is not saved; records and session change together | failures between execute, commit, resolution and rebuild |
| `RuntimeAdapter`, terminal loop (loreloom, tui) | two channels, `accepting`, `shutdown_requested`, the working phase | submit, cancel, quit, receive, join | one input in flight; every input is answered; quit ends | two threads; token re-armed while it is cancelled; silent provider |
| `CancellationToken` (agent) | flag, waiters | cancel, reset, cancelled | no lost wake-up | flag and waiters are separate |
| `AgentRunner`, budgets (agent) | usage, message list, context revision, events | model call, tool call, charge, collect, barrier | budget, cancellation and events hold on every exit path | limits checked at different moments; a cancel between check and execution |
| `RuntimeToolExecutor` (runtime) | pending NPC decisions, NPC turns and topology request | one operation per tool | what is queued is still valid when the turn ends | queues filled over several model calls |
| `GameRuntime` (runtime) | registered agents, orchestration usage | one player input: rounds, materialisation, NPC turns | every request has one result; limits hold | errors and cancellation between rounds |
| `GameWorld` (world) | records: scenes, places, characters, items | move, transfer, split, equip, grant, spawn, promote, create a scene or a place, change the scene | inventories are trees within their capacity; the player can go wherever the scene has places | long sequences of legal commands whose checks each look at a part |
| Conditions, time, declarative rules (world) | clock, resources, conditions, story node, parameters, session overlay, evaluation budget | one command: effects, boundaries of time, events, rules in a cascade | a refused command leaves no trace; nothing is overdue or counted twice | effects at one boundary change later ones; refusal in the middle of a cascade |
| Registry, packages (content) | packages, their order, definitions, patches | read, order, build, find rule cycles, patch, build again, lock | order by dependencies; references closed also after patches; no endless cascade | optional dependencies; patches of several packages on one definition |
| Character form (tui, content) | fields, values, marks, one line editor | edit, move, toggle, Esc, submit; validation and compilation of the player | the character is the one shown; form and compiler agree | one editor for all fields; three copies of the same bounds |
| Start-up, catalogue, mod selection (loreloom, tui) | save directories and their sidecars, the loadout, the screen | list, create, register, open, delete, select mods | what was chosen is played; only what was confirmed is deleted | crashes between two steps; other processes; stale lists |
| Editor history, terminal session, rendering (tui) | line history, raw mode | edit, restore | terminal restored | failing set-up step |

The components call each other synchronously (a call is an `await` on the worker
thread) except the terminal and the worker, which only share two channels, two
flags and the token. `PROJECT.json` lists the components with their sources and
status, and every hazard with its line and the properties that would catch it.

## Modules and the code

| Module | Models | Notes |
|---|---|---|
| `SaveLog` | specification: a save is an append-only log plus content locks | abstract |
| `SaveStore` | `loreloom-store` | implements `SaveLog` |
| `AtomicWorld` | specification: a command takes effect at one instant on records and session | abstract |
| `WorldService` | `apply_command` and its callers in `world_service.rs` | uses `SaveLog` as its save; implements `AtomicWorld` |
| `RuntimeAdapter` | `client.rs`, `run.rs`, `state.rs`, `cancellation.rs` | two threads and a provider |
| `AgentRunner` | `runner.rs`, `budget.rs`, the tools of `world_service.rs` that queue work | one turn |
| `Orchestration` | `runtime.rs` | one player input after another; turns are atomic here, `AgentRunner` opens one up |
| `GameWorld` | `game_world.rs` (objects and the commands on them), `compile_scene` and `compile_character` of `registry.rs` | a command is one step |
| `WorldRules` | `game_world.rs` (time, conditions, skills, rollback), `declarative.rs` | the steps inside one command |
| `Content` | `package.rs`, `registry.rs`, the lock of `world_project.rs` | one compilation |
| `PlayerForm` | the form in tui `startup.rs`, `editor.rs`, player validation and `compile_player_draft` in `registry.rs` | one form, from its definition to the character |
| `Launcher` | `main.rs`, tui `startup.rs`, `save_catalog.rs`, `mod_selection.rs`, `world.rs`, the loadout of `config.rs` | launches one after another, with other processes |
| `MC*` | the instances TLC checks | values of the constants only |
| `SaveStoreProofs`, `WorldServiceProofs`, `RuntimeAdapterProofs`, `AgentRunnerProofs`, `OrchestrationProofs`, `WorldRulesProofs`, `ContentProofs`, `LauncherProofs` | theorems about the module of that name; `ContentProofs` also about `PlayerForm`, `WorldRulesProofs` also about `GameWorld` | checked by TLAPS |

The chain of composition is: `SaveStore` implements `SaveLog`; `WorldService` is
written over `SaveLog` and implements `AtomicWorld`; `AgentRunner` and
`Orchestration` use a world that commits a command at one instant, which is what
`AtomicWorld` promises; `RuntimeAdapter` sees a turn as work and model calls,
which is what `AgentRunner` is from outside. A command that `WorldService` executes
is one step of `GameWorld` or one run of `WorldRules` from its start to accepted or
refused. `Launcher` takes the sets of mods that compile as a constant: `Content`
says what decides it; the form it submits is one key: `PlayerForm` is that form.

**SaveStore.** Each handle has a position `pc`, and an action covers the code
between two awaits at which another handle may run. `commit` is split at
`tx.commit`: `CommitBegin` is the validation, the action row and the head check
with the writes still private to the transaction; `Committed`,
`CommittedUnknown` (durable, answer lost) and `SerializationFailure` are its
ends. `load` is six actions, one per query. A database snapshot conflict is the
history flag `lost`: a write of the head row makes other open transactions that
write it fail. A digest or checksum is the tuple it covers, which keeps exactly
the comparisons the code makes. `states` is a history variable: the records each
revision stands for. `Exclusive` chooses between one handle at a time (the game)
and several connections (the store's own tests); the run has
several, the theorems hold for both.

**WorldService.** `phase` is where `apply_command` stands; while it is not
`"free"` the mutex is held. The world is the sequence of commands it results
from, so "the world equals the save" is equality of sequences. `Overlay`, the
refinement mapping for the session parameters, is what the service would restore
if it were asked at this moment: the new value as soon as the command is durable.

**RuntimeAdapter.** `cancel` (swap, then drain the waiters) and `Cancelled::poll`
(read, then re-read under the lock and register) are split exactly where the
other thread can interfere. `reset` is split in the same way. The provider is an
action without fairness.

**AgentRunner.** One turn from its first to its last step. The message list is its
size, a response is its reported usage and its list of tool names, a tool is one
of six kinds that differ in what they do to the world, to the queues and to the
turn.

**Orchestration.** `pc` is the place in `handle_valid_player_input`; the rest are
its locals, the four queues of the tool executor and the part of the world they
depend on: who is where, who is an agent, what an NPC has heard. A turn is its
tool calls, one action each, and its end with a status and a number of model
calls; refused tool calls change nothing and are left out. Revisions are compared
only within a round, so they are counted from its start. `create_npc` is a
barrier, so a turn queues at most one decision and the loop of
`resolve_npc_decisions` runs once; for the same reason a decision is never stale
when it is resolved. The decision targets `create_npc` does not produce
(`Mentioned`, `Existing`), an NPC without a registered bridge and a changed
profile have no state of their own: their results are those of a refused or stale
request. The places of a scene are all connected, and the scenes exist from the
start: the characters a scene definition brings along are content and are not
counted against the limits by the code either. `begun`, `asked` and `witnessed`
are history variables.

**GameWorld.** Objects are numbered in the order they are created and a record of the
code is a function on the numbers. A refused command is no step, because `execute`
restores the records it started from (`WorldRules` has the restoration itself).
Weights, stack limits and capacities come from the item definitions of the
instance; `Holders` walks up `contained_by` as the code does, and the weights are sums
over everything whose walk passes a container. An inventory names the containers of
its items by position (`IsInventory`): the code refuses a spawn or a scene with a parent
that is not in the same inventory, before anything is recorded.
Scene plans, character presets and drafts go through `compile_scene`,
`compile_character` and `compile_draft` with their checks, so a plan that is not
accepted is never entered. `MaxObjects` bounds the number of objects.

**WorldRules.** The calls on the stack and the loops still to run are a sequence
`todo`; a step does its head and may put work in front of the rest, so that a rule
triggered by an effect runs where the code runs it, before the next effect. `before`
is what `execute` keeps to restore, `budget` the charges of the evaluation. Time
goes from boundary to boundary as in `advance_time`, with the lists of due
conditions taken before their effects run. Commands are bounded by `MaxCommands`,
the clock by `MaxClock`. The instance is a rule book that the registry accepted
(`EffectsKnown`, the periods and lists of `WorldRulesAssumption`); what an effect emits
is a custom event and never named like one of the engine's own, which in the code is
another variant of the event kind.

**Content.** `stage` is the phase of `compile_world`. The two searches, the queue of
`dependency_order` and the depth-first search of `validate_rule_cycles`, are stepped
one package or rule at a time; the checks around them are operators. A definition is
an id, its references, and for a rule what it waits for and emits.

**PlayerForm.** `values`, `errors`, `cursors`, `current` and the one `editor` are the
fields of the form state; an action is a key. `page` continues after the submission
with the compiler. A text is a short sequence of `Characters`, so the byte limits are
lengths; the only digit is `"1"`, so a number is one of `Ones`, and the default of an
integer field is one of them too (`IsField`, which otherwise says what the types of the
schema say). The effects of the options and the fields of the form are applied by
recursive functions, as the loops of `compile_player_draft` do.

**Launcher.** `pc` is the place in the launch loop of `main.rs`; `saves` has for every
path the directory (absent, half-created, whole) and the sidecar, each of which is
written by a step of its own, and a death can come between any two. Other processes
act at any moment; `disturbed` is a history variable with the paths they touched.

Definitions that begin with "Faulty variant" are the mutations `PROJECT.json`
lists: each changes one definition the way a plausible bug would, and the
property it is listed for is then violated.

## Runs

| Run | Instance | What it shows |
|---|---|---|
| `store_race` | 2 handles, 2 ActionIds, 2 manifests, 2 kinds of change, 2 revisions | with commits, loads, checkpoints, adoptions, drops and backend errors interleaved at every await, the history stays exact, checkpoints are those of their revision, the tables always load, a load is a snapshot, answers are true, and the tables implement `SaveLog` |
| `world_service` | 2 callers, a rival connection, 4 commands | candidate never visible, success and failure answers true, `AtomicWorld` implemented |
| `world_service_faults` | same without the rival, with loads and resolutions that fail and session-only actions | even then nothing uncommitted reaches the save through a later command, and dialogue is remembered once |
| `adapter` | 3 inputs, 2 model calls per turn | cancellation belongs to its own input and ends the turn, quitting ends the program when the provider answers, every input is answered |
| `agent_turn` | 3 model calls, 3 tools, small token and byte limits, 1 rival commit, cancel and deadline at any moment | budgets are hard, the turn's own commits never make it stale, a decision is queued last and at the current revision, every turn ends |
| `orchestration` | 2 inputs, 3 NPCs, 3 places in 2 scenes, 2 tool calls and 1 model call per turn, limits of 1 to 3 | every requested NPC turn has its result, limits on turns, calls and characters hold, NPCs know only what they heard, every input is answered |
| `game_world` | two worlds of 11 and 9 objects: one with bags in bags and coins to arrange, one that grows by scenes, places and characters and has a definition of two places to go to; presets, drafts and a grant that fit or do not | inventories are trees under their owner, nobody carries more than the root allows, the player can walk the active scene |
| `rules` | 2 actors, 4 conditions (one of each stack policy), a skill, 3 actions, a story, 9 rules with a chain longer than the cascade may be, 4 commands, clock to 6 | a refused command leaves neither records nor session changed; no tick or expiry is overdue or skipped at any moment; clock rules fire once per period |
| `condition_save` | the same rule book, one actor, ample budgets | **violation**: see the finding |
| `content` | the core, a world with a diamond of rules, and two mods in some 2,800 combinations of dependencies, definitions and patches | the order is the least one the dependencies allow or there is a real cycle; references hold after the patches; a rule loop is found exactly when there is one |
| `player_form` | 12 forms with every kind of field and binding, of which 5 are to be rejected and 3 are wider than what they are bound to | no edit is lost, the compiler refuses a submitted form only where bounds differ, the character is the one shown |
| `launcher` | 2 mods (one in two versions) and one from the command line, 3 paths, 2 saves, deaths and other processes at any step | the mods of a screen are those a new start takes up; the game played is the one chosen; only the confirmed save is removed |

Bounds, and why they are enough. *Store:* every conflict the code distinguishes is
between two transactions; two ActionIds give a duplicate, an identity conflict
and a stale commit; two revisions give a load that starts from a checkpoint and
applies operations. That no commit passes the largest storable revision is
`TypeCorrect`, proved for every bound. *World service:*
a failure needs one command, its effect on a later one needs two, a rival and a
reader two more. *Adapter:* the token can be left over from one turn, spoil the
next and be repaired in the third. *Agent turn:* each limit is reached with one
more step available, so that each can be the one that ends a turn, and two tools
of one response can interact. *Orchestration:* two inputs, because leftovers and
memory cross from one to the next; two tool calls queue two requests, or a
request and a move that makes it stale; every limit is reached with work left.
*Game world:* two bags make the first cycle and the first nesting possible, a
capacity of 7 is reached with a coin to spare, and the objects allow two commands
that create after those that arrange. *Rules:* six moments hold two boundaries of
every condition and two periods of every clock rule, cut in every way into four
commands; every budget can be the one that runs out. *Content:* the two mods can
depend on each other, on the world and on something absent, and both patch the
same definition. *Form:* two to four fields, because the editor goes wrong between two of
them. *Launcher:* a second save is what a first can be mistaken for.

Symmetry is used only over ActionIds and callers, which are compared only for
equality, and never in runs with liveness properties. `CHECK_DEADLOCK FALSE` is set
where the system really stops: in `store_race`, where all handles may be closed with
a head row that cannot be opened; in `rules` and `condition_save` when the commands are used up; in
`content` and `player_form`, which end.

## Fairness

* `WorldService`: weak fairness of the steps of `apply_command`. The executor
  polls the future that holds the mutex until it ends. Callers owe nothing.
* `RuntimeAdapter`: weak fairness of the terminal thread's own steps and of the
  worker's. The player and the provider owe nothing. `ResponsiveShutdown` and
  `InputAnswered` name their assumption, a provider that answers, in the formula.
* `AgentRunner`: weak fairness of the runner. A tool call ends because the store
  answers it. `TurnEnds` has fairness of the model as its antecedent.
* `Orchestration`: weak fairness of the worker's steps; that a turn ends is
  `TurnEnds` of `AgentRunner`. The player and the clock owe nothing.
* `WorldRules`: weak fairness of the steps inside a command, which run on one
  thread without an await.
* `SaveStore`, `GameWorld`, `Content`, `PlayerForm` and `Launcher` claim safety only.

## Proofs

Each `*Proofs` module EXTENDS its component and proves about `Spec` what TLC checks on
an instance, for every value of the constants. The only things taken for granted are
the named assumption on the constants, which TLC evaluates on every run, and the
hypotheses in the last column. `ServiceInvariant`, `AdapterInvariant`, `RunnerInvariant`,
`RulesInvariant`, `ItemsInvariant` and `LauncherInvariant` state the invariant the theorems
below them follow from; the walk adds `Linked` to that of the items.

| Module | Theorem | States | Under |
|---|---|---|---|
| `SaveStoreProofs` | `TypeCorrect` | `[]TypeOK` | `StoreAssumption` |
| | `HistoryExact` | `[]LogExact` | |
| | `CheckpointsExact` | `[]CheckpointsFaithful` | |
| | `LoadsSnapshots` | `[]LoadIsSnapshot` | |
| | `AnswersDurable` | `[]AnswerDurable` | |
| | `RaceHasOneWinner` | `[]OneWinner` | |
| | `OnlyAppends` | `AppendOnly` | |
| | `AlwaysRecoverable` | `[]Recoverable` | |
| | `HeadValidates` | `[]ValidHead` | `Exclusive` |
| | `StoreImplementsLog` | `ImplementsLog` | |
| `WorldServiceProofs` | `ServiceInvariant` | `[]ServiceInv` | `ServiceAssumption`, every fault |
| | `SuccessDurable` | `[]SuccessIsDurable` | every fault |
| | `FailureAbsent` | `[]FailureIsAbsent` | `Answering` |
| | `CandidateHidden` | `[]CandidateNotPublished` | `Rebuilding` |
| | `CommitsCommitted` | `[]CommitsFromCommitted` | `Guarded` |
| | `HeardOnce` | `[]RememberedOnce` | `Guarded` |
| | `ServiceImplementsAtomicWorld` | `ImplementsAtomicWorld` | `Faultless` |
| `RuntimeAdapterProofs` | `AdapterInvariant` | `[]AdapterInv` | `AdapterAssumption` |
| | `CancelOwn` | `[]CancelIsOwn` | |
| | `WakeupKept` | `[]NoLostWakeup` | |
| | `AnswerKept` | `[]AnswerOwed` | |
| `AgentRunnerProofs` | `RunnerInvariant` | `[]RunnerInv` | `RunnerAssumption` |
| | `BudgetKept` | `[]WithinBudget` | |
| | `CommitsSeen` | `[]OwnCommitsSeen` | |
| | `DecisionKept` | `[]DecisionFresh` | |
| `OrchestrationProofs` | `OrchestrationTyped` | `[]TypeInv` | `OrchestrationAssumption` |
| | `HeardKept` | `[]HeardInPresence` | |
| | `RequestsKept` | `[]RequestsAnswered` | |
| | `LimitsKept` | `[]WithinLimits` | finitely many NPCs, at most `max_materialized_per_scene` at the start |
| `WorldRulesProofs` | `RulesInvariant` | `[]RulesInv` | `WorldRulesAssumption` |
| | `TimeKept` | `[]OnTime` | |
| | `RefusalsLeaveNoTrace` | `[]RolledBack` | |
| | `ClockRulesCounted` | `[]ClockRulesExact` | |
| | `ItemsInvariant` | `[]ItemsInv` | `GameWorldAssumption` |
| | `OwnInventories` | `[]InventoryTree` | |
| | `LoadsBounded` | `[]CarriedWithinCapacity` | |
| | `WalksOverScene` | `[]PlayerCanWalk` | `PlansJoined` |
| `ContentProofs` | `OrderIsExact` | `[]OrderExact` | `ContentAssumption` |
| | `RegistryIsClosed` | `[]RegistryClosed` | |
| | `CascadesAreFinite` | `[]CascadesFinite` | |
| | `CompilerAgreesWithForm` | `[]CompilerAgrees` | `PlayerFormAssumption` |
| | `CreatedPlayerAsShown` | `[]PlayerAsShown` | |
| | `NoEditLost` | `EditsKept` | |
| `LauncherProofs` | `RestartKept` | `[]RestartSame` | `LauncherAssumption` |
| | `LauncherInvariant` | `[]LauncherInv` | |
| | `PlayedKept` | `[]PlayedAsChosen` | |
| | `DeletionConfirmed` | `DeleteConfirmed` | |

### Hypotheses

The faults of `WorldService` are constants, so a theorem can say which of them it
needs to be absent. `Answering`: loads and resolutions succeed. `Rebuilding`: loads
succeed and every command changes records (the second observation below is why that is
needed). `Guarded`: no rival connection, or `Rebuilding`. `Faultless`: both of the
first two; answers of a commit may still be lost, rivals commit and the process
restarts. The runs are the two sides: `world_service` is `Faultless` with a rival,
`world_service_faults` has the faults without one.

`LimitsKept` needs a save that is within the limits to begin with: the code counts
before it adds and never removes, and settings lowered below what a save holds are not
looked at when it is opened.

`WalksOverScene` needs `PlansJoined`: the places of every scene definition that
`compile_scene` accepts are connected. The code asks only that edges go both ways and
stay within the scene; a definition whose places fall apart is accepted, and its player
cannot walk to all of them. The instance satisfies `PlansJoined`, which TLC evaluates.

`HeadValidates` needs one handle at a time: with two, a commit may write the checksum of a
manifest that is no longer in the row (the first observation below).

### What the invariants add

None of the properties is inductive alone. What is added to each is what the code
relies on without saying so.

* **Store.** `CommitOK`: a handle between `CommitBegin` and `tx.commit` whose
  transaction has not been overtaken still sees the head it checked, and its ActionId
  still has no row; this is what snapshot isolation buys. `StatesExact`: the history
  agrees with the operations, revision by revision. `ReadingOK`: the locals of a load
  in progress are a prefix of the history, because each later query can only return
  more rows and a row beyond the head read first is an error. `AnswerOK`: a success
  answer has its row. `RecoverInv`, for `Recoverable`: every operation applies to the
  records of the revision before it, the transcript rows are the transcript records,
  every row belongs to an action, and a checkpoint exists; a commit in progress
  (`CommitsExecutable`) carries operations that its handle has tried on the records of
  the head it will replace. `HeadOwned`, for `HeadValidates`: the one open handle knows the
  manifest of the head, also when its own adoption became durable behind an error, because
  it is dropped then; and no one moves the head while it adopts.
* **World service.** `LogOK` and `JobOK`: an ActionId in the log is the command that
  was issued under it, so an answer found after a lost one is about the right command.
  `PublishedInv`: between command and answer the world is the log up to the expected
  revision plus that command. `SoleInv`, when rebuilds may fail: a world that is not
  the saved one is ahead of it, so that whatever is built on it conflicts; this is what
  saves the game from its own candidate. `RefusedInv`: a recovery that will report an
  error has found its command absent.
* **Adapter.** `OneInput` (one input in the channel or at the worker), `OwnFlag` (what a
  turn polls was raised after its submission), `NoLostWakeup` (a parked worker has its
  waker in the list or was woken; a cancel that raised the flag has still to drain) and
  `AnswerOwed` (work shown in progress has an answer on its way). The last two are the
  safety part of `CancelEnds` and `InputAnswered`: what has to be true at every moment
  for fairness to bring the end about.
* **Agent turn.** `ReportedInv`: what was reported stays within the budget until the turn
  ends, and the answer the model was allowed fits what is left. `SeenInv`: the revision
  the context will have once the last result is looked at is the current one.
  `DecisionInv`: a decision ends the tools of its turn, so nothing commits after it.
* **Orchestration.** `WorkInv` ties each step to what it works on. `AnsweredInv`: of the
  requests of a plan those answered, the one at work and those ahead are the list that
  was asked, in order. `BudgetInv`: after an NPC turn went over the model calls no other
  is begun. `PopulationInv`: the room a generation turn was given is still there when
  its character is spawned.
* **Rules.** The next tick and the expiry of a condition are ahead of it (`Timely`), of
  those on the records and of those kept for a rollback. `TodoOK`: the work on the stack
  fits the records it will meet: a tick is of a condition that still exists, because
  all ticks of a boundary come before all its expiries; the time an advance goes to is
  not in the past; and all advances on the stack go to the same time. `ClockInv`, for
  `ClockRulesExact`, follows one passage of time through a command: as long as changes
  are gathered (`Gathering`) it is in the first event and nothing is fired; then it is
  in exactly one signal and the counts are those of the start (`Ahead`); once that
  signal was taken, the firings of a rule still on the stack are a block of exactly as
  many as the count lacks (`Taken`). What a rule causes is recorded behind the place
  where its firing began, so it never contains the passage a second time
  (`WorkTriggered`). A block of consecutive places takes the place of a number of
  elements, which would need induction.
* **Game world.** `Placed`: each owner has one item that is in nothing, the inventory root
  of the character, and an item is only in containers of its own owner. `Holders` is the
  least set that holds the item and is closed under `in`, because each step of the walk
  that adds anything adds a container and so the number of containers is enough steps;
  a walk that does not come back to itself then ends at the root of the owner. `Carried`:
  what a root carries is the sum of the weights of its owner's other items, so a
  transfer inside it leaves the sum as it is, a split shares one weight between two
  stacks, and a grant or a spawn is what was checked. `Spread`: the objects of a plan are
  numbered without overlaps, above all others, so that the characters and items of a new scene
  replace none that exist. For `PlayerCanWalk`, `Linked`: a set of places that no edge
  leaves has with a place every place of its scene. A place joined both ways to one of
  them and a scene made beside the others keep it, and `Walk` gives the least such set.
* **Content.** `OrderInv`: the counts of `dependency_order` are those of what is missing,
  the ready packages those with nothing missing, and the ones placed contain no loop.
  `CascadeInv`: the path of `rule_cycle_from` is a chain of triggers, what it has left
  behind as visited triggers only visited rules and no loop, and every rule that
  triggers anything is still to be searched, on the path, or visited.
* **Form.** `Shows`: every field has a value of its kind, and the text in the editor is the
  value of the selected field, so that storing it changes nothing (`StoredIsValues`).
  `Submission`: what was submitted is what was shown, and every field of it is valid.
  `Made` says of the first fields what `PlayerAsShown` says of all of them: what the last
  of them that writes a binding has given it, and that the tags and items are those of
  the template and of the options taken so far. `Created` keeps the result.
* **Launcher.** `ModsInv`: from the start of a process its mods are those a new start
  takes up. `SidecarOwn`, `OpenFits`, `NewFits`: a path the game made up lists its own save
  or none, and what a screen shows of a path stays true until another process touches it.
  `PlayedInv`: `PlayedAsChosen` holds from the moment a save is made.

The proofs go through the actions one by one, with a lemma for the steps that leave a
part of the state alone. Where a proof would be an induction over data (a least element, a
loop that a queue cannot serve, a path that comes back to itself), it takes the least
counterexample instead, which needs only `NatLessThanWellFounded` of the library.

### Model-checked only

* `Replayable` is the finding: it does not hold.
* Liveness: `CancelEnds`, `ResponsiveShutdown`, `InputAnswered`, `TurnEnds` and `InputEnds`
  are outside the prover's reach, as is ENABLED.

## Finding

`condition_save` (game_world.rs:1551): `advance_time` pushes a delete for every
condition that expires, also for one that a periodic effect created earlier in the
same `AdvanceTime`, so that no record of it was ever saved. The commit is accepted;
replaying it fails with `DeleteMissingRecord` (record.rs:532-535), and the save cannot
be loaded while its operations are replayed from a checkpoint before that revision.
`src/.agents/specs/runtime.md:874-876` says that a delete of a missing record makes
the rebuild fail, and :2135 that a save keeps its last recoverable state.

## Observations

Other places met while modelling at which the code and its documents, or two parts of
the code, do not agree. They have no run of their own; each can be seen in the model
named, or is the reason for an assumption of it.

Save and service:

* A connection opened before another one adopted new content locks can still commit,
  and writes a head checksum computed from its cached manifest (store.rs:531-532); the
  save can then not be opened. `ValidHead` is not an invariant of `SaveStore` with
  `Exclusive = FALSE`. The game opens one handle per save; the store's test
  save_store.rs:163-196 keeps such a connection.
* An action whose effects are all on session parameters produces no record operation;
  building the commit request fails after the world has changed, and the error path
  skips the rebuild (world_service.rs:2011). Readers see a revision that was never
  committed, against runtime.md:2179-2181; `CommitsFromCommitted` shows that the save is
  not harmed. `world_service` therefore has no action of this kind (`RecordKinds`),
  `world_service_faults` has.
* When `resolve_action` itself fails, the commit is taken as not made although it may be
  (world_service.rs:2041), against runtime.md:2184-2186. When the load inside `recover`
  fails the candidate stays in memory (`RecoverFails`).
* `ConditionTicked` and `ConditionExpired` carry the target as their actor
  (game_world.rs:1514-1518, 1555-1559), but `CommitRequest::validate` refuses an event
  whose actor is not the command's (loreloom-store request.rs:145-149): an `AdvanceTime`
  across the tick of another character is refused when the request is built, without
  recovery.

Threads and turns:

* The token is re-armed when the worker takes the input (game runtime.rs:189), so a
  cancel or a quit between submit and that moment is erased; with a silent provider
  the worker is never joined, against runtime.md:2428. `ShutdownExits` alone does not
  hold in `RuntimeAdapter`; `ResponsiveShutdown` is what does.
* A usage report with one of its two counts missing is charged as zero and not counted
  as missing (budget.rs:168), against runtime.md:1925-1927; `unreported` in
  `AgentRunner` counts them.

World and rules:

* `split_stack` can leave a container with more children than its maximum; a transfer of
  a container looks at the direct target only; moving something from a nested bag to the
  root counts its weight twice. The root's own capacity holds all the same
  (`CarriedWithinCapacity`).
* The cost of a skill does not look at the resource's minimum; a periodic effect that
  is refused blocks every `AdvanceTime` across its boundary; `located_at` of an inventory
  root does not follow its owner.

Content and characters:

* `inspect_directory` (package.rs:475) builds a registry of one package alone, so a mod
  that refers to definitions of another cannot be activated although `compile_world`
  would accept it.
* The registry does not check that the edges of a scene's places are mutual and inside
  the scene, nor that there is one player (registry.rs:1585-1740); only `compile_scene`
  does. A patch of a place can be accepted, saved as the loadout, and then fails at every
  opening of a game (world.rs:266).
* The registry does not compare a field's bounds with the limits of what it is bound to
  (the exception in `CompilerAgrees`). Clearing an optional field with a default puts
  the default back; an optional multiple choice with a minimum of one and no default has to
  be filled; a granted skill may duplicate one of the template.

Start-up:

* A loadout that no longer compiles makes `inspect_world_with` fail before a screen on
  which it could be changed. `RestartSame` shows that the screens do not save such a one;
  a changed directory can.
* After a rejected selection of mods the draft has already become the state that Esc
  restores, against runtime.md:2211. Left and Right in a number field only move the cursor
  (runtime.md:2216).
* Opening a save whose directory has vanished creates a new game of the fixed player
  under its path (world.rs:290): the `disturbed` paths of `PlayedAsChosen`. A half-created
  save at a `--save` path stays unopenable, an interrupted deletion leaves a listed save
  that cannot be opened, and a sidecar that could not be written is only warned of.
  Two processes in the same second can make up the same new path.

## Not modelled

Row and record encodings, digests and checksums beyond what they cover; argument
parsing and tool schemas (a tool call may always be refused); prompts, texts and
redaction; the projections of the world for contexts and views; the truncation of
contexts; the values inside definitions and the checks on each of them; settings other
than the loadout and the save path; headless play; the history of the line editor and
the set-up of the terminal; rendering, colours, panels and scrolling. In the modules:

* `GameWorld` leaves out attributes, names and hints; `WorldRules` has the predicates on
  resources and conditions instead of the whole expression language. The two
  share no state, so an effect that grants an item is in the first only.
* `Content` leaves out appearance packs; `PlayerForm` fixed-point fields, which work as
  integers do, and long texts.
* `Launcher` has the window between the second look of a deletion and the removal as one
  step, and no times of last use.

External and modelled by how the code uses them: the database's transactions, the
provider, the tokio mutex, the standard channels.

## Plan

1. Store, world service, adapter, agent turn, orchestration (done), with the store's
   proofs.
2. `GameWorld`, `WorldRules`, `Content`, `PlayerForm`, `Launcher` (done).
3. Proofs: the store with `Recoverable`, the world service and both refinements, the
   adapter, the runner, the orchestration, the rules, the game world, the compilation,
   the form, the launcher (done).
4. Next: the context projection and the remaining queries of the world service; the line
   history and the terminal session.
