----------------------------- MODULE AgentRunner -----------------------------
(***************************************************************************)
(* One agent turn: run_turn_with_progress (runner.rs) with its budget      *)
(* (budget.rs), and the queues that RuntimeToolExecutor (world_service.rs) *)
(* fills while the turn's tools run.  The turn shares the world with other *)
(* connections and the cancellation token with the terminal thread.        *)
(*                                                                         *)
(* The steps of the runner are cut where it awaits (the model, the         *)
(* executor) and between a check of the token and what follows it.  A      *)
(* message is its share of the request's size, a tool call the name of the *)
(* tool, an event the revision of the commit that produced it.             *)
(***************************************************************************)
EXTENDS Naturals, Sequences

CONSTANTS budget,             \* the ResourceBudget of the turn
          max_context_tokens,
          Responses,          \* what the model may answer
          MaxRivals,          \* commits by other connections during the turn
          StartSize           \* size of the request the turn starts with

Topologies == {"create_scene", "create_place"}
Tools == Topologies \cup {"inspect", "act", "create_npc", "request_npc_turn",
                          "hidden"}

(* Every tool but "hidden" is among the definitions sent to the model.     *)
Offered == Tools \ {"hidden"}

Response == [reported : {"all", "none", "input only"}, input : Nat, output : Nat,
             bytes : Nat, calls : Seq(Tools)]

ASSUME RunnerAssumption ==
  /\ budget \in [max_model_calls : Nat, max_tool_calls : Nat,
                 max_input_tokens : Nat, max_output_tokens : Nat,
                 max_total_tokens : Nat, max_model_output_bytes : Nat,
                 max_elapsed_ms : Nat, require_reported_tokens : BOOLEAN]
  /\ max_context_tokens \in Nat /\ MaxRivals \in Nat /\ StartSize \in Nat
  /\ Responses \subseteq Response

VARIABLES pc,         \* where the runner is
          status,     \* TurnStatus, with its reason
          text,       \* whether the outcome has a final text
          usage,      \* ResourceUsage
          elapsed,    \* the clock, up to one past the deadline
          size,       \* estimate_request_tokens of the request so far
          limit,      \* generation.max_output_tokens of the request
          calls,      \* tool calls of the last response still to run
          result,     \* what the executor returned for the current call
          context,    \* AgentToolContext.revision
          events,     \* committed_events of the outcome
          cancelled,  \* the shared token
          revision,   \* revision of the world service
          rivals,     \* commits made by others
          decisions,  \* pending_npc_decisions: the revision of each
          turns,      \* pending_npc_turns, likewise
          topology,   \* pending_topology, or Nothing
          committed,  \* history: revisions this turn's tools committed
          late,       \* history: tools started after the token was set
          unreported  \* history: responses that left out a token count

turn  == <<pc, status, text, usage, size, limit, calls, result, context, events>>
queues == <<decisions, turns, topology>>
world == <<revision, rivals, committed>>
history == <<late, unreported>>
vars == <<pc, status, text, usage, elapsed, size, limit, calls, result, context,
          events, cancelled, revision, rivals, decisions, turns, topology,
          committed, late, unreported>>

Nothing  == [tool |-> "none", rev |-> 0]
NoResult == [ok |-> FALSE, rev |-> 0, event |-> 0, barrier |-> FALSE]
Refusal  == NoResult

(* The turn starts with empty queues: handle_valid_player_input has taken  *)
(* what an earlier input left.  No caller limits the output of a request,  *)
(* so its first limit is the budget's.                                     *)
Init ==
  /\ pc = "loop" /\ status = "Running" /\ text = FALSE
  /\ usage = [model_calls |-> 0, tool_calls |-> 0, input_tokens |-> 0,
              output_tokens |-> 0, total_tokens |-> 0,
              model_output_bytes |-> 0, missing_token_reports |-> 0]
  /\ elapsed = 0 /\ size = StartSize /\ limit = budget.max_output_tokens
  /\ calls = <<>> /\ result = NoResult
  /\ context = 0 /\ revision = 0 /\ rivals = 0
  /\ events = {} /\ committed = {}
  /\ cancelled = FALSE
  /\ decisions = <<>> /\ turns = <<>> /\ topology = Nothing
  /\ late = 0 /\ unreported = 0

-----------------------------------------------------------------------------
(* The turn returns its outcome.  Results and events gathered so far go    *)
(* with every status.                                                      *)
Finish(s, withText) ==
  /\ pc' = "done" /\ status' = s /\ text' = withText
  /\ UNCHANGED <<size, limit, calls, result, context, events>>

Late == elapsed > budget.max_elapsed_ms

(* The first check that fails names the reason; the code tries them in     *)
(* this order and returns at once.                                         *)
IsFirst(checks, i) == /\ checks[i].over
                      /\ \A j \in DOMAIN checks : j < i => ~checks[j].over

FirstOf(checks) ==
  IF \E i \in DOMAIN checks : checks[i].over
  THEN checks[CHOOSE i \in DOMAIN checks : IsFirst(checks, i)].reason
  ELSE "Ok"

Check(name, test) == [reason |-> name, over |-> test]

(* before_model: the reason that forbids another model call, or "Ok".      *)
BeforeModel(u) ==
  FirstOf(<<Check("Deadline", Late),
            Check("ModelCalls", u.model_calls >= budget.max_model_calls)>>)

(* Top of the loop, up to the model call: what may end the turn there.     *)
StopBeforeModel ==
  /\ pc = "loop"
  /\ \/ cancelled /\ Finish("Cancelled", FALSE) /\ UNCHANGED usage
     \/ ~cancelled /\ size > max_context_tokens
          /\ Finish("InputTokens", FALSE) /\ UNCHANGED usage
     \/ /\ ~cancelled /\ size <= max_context_tokens
        /\ BeforeModel(usage) # "Ok"
        /\ Finish(BeforeModel(usage), FALSE) /\ UNCHANGED usage
  /\ UNCHANGED <<elapsed, cancelled, world, queues, history>>

(* before_model has charged the call; the request is limited to the output *)
(* the budget still allows and projected, which may fail.                  *)
CallModel ==
  LET remaining == IF usage.output_tokens < budget.max_output_tokens
                   THEN budget.max_output_tokens - usage.output_tokens ELSE 0
  IN
  /\ pc = "loop" /\ ~cancelled /\ size <= max_context_tokens
  /\ BeforeModel(usage) = "Ok"
  /\ usage' = [usage EXCEPT !.model_calls = @ + 1]
  /\ \/ remaining = 0 /\ Finish("OutputTokens", FALSE)
     \/ /\ remaining > 0
        /\ limit' = IF limit < remaining THEN limit ELSE remaining
        /\ \/ pc' = "waiting" /\ UNCHANGED <<status, text>>
           \/ pc' = "done" /\ status' = "Projection" /\ text' = FALSE
        /\ UNCHANGED <<size, calls, result, context, events>>
  /\ UNCHANGED <<elapsed, cancelled, world, queues, history>>

(* The token wins the race with the model: the future is dropped.          *)
ModelCancelled ==
  /\ pc = "waiting" /\ cancelled
  /\ Finish("Cancelled", FALSE)
  /\ UNCHANGED <<usage, elapsed, cancelled, world, queues, history>>

ModelFailed ==
  /\ pc = "waiting"
  /\ Finish("Provider", FALSE)
  /\ UNCHANGED <<usage, elapsed, cancelled, world, queues, history>>

(* after_response: the usage charged for a response.  A count the provider *)
(* leaves out of its report is added as zero.                              *)
Tokens(u, r) ==
  LET output == IF r.reported = "all" THEN r.output ELSE 0
  IN [u EXCEPT !.input_tokens = @ + r.input,
               !.output_tokens = @ + output,
               !.total_tokens = @ + r.input + output]

Charged(u, r) ==
  LET counted == [u EXCEPT !.model_output_bytes = @ + r.bytes]
  IN IF Late THEN u
     ELSE IF counted.model_output_bytes > budget.max_model_output_bytes
     THEN counted
     ELSE IF r.reported = "none"
     THEN [counted EXCEPT !.missing_token_reports = @ + 1]
     ELSE Tokens(counted, r)

(* Faulty variant: the sum of the tokens is not compared.                  *)
OverrunTotalFree(u, r) ==
  FirstOf(<<Check("Deadline", Late),
            Check("ModelOutputBytes",
                  u.model_output_bytes > budget.max_model_output_bytes),
            Check("InputTokens", u.input_tokens > budget.max_input_tokens),
            Check("OutputTokens", u.output_tokens > budget.max_output_tokens)>>)

(* The limit the charged usage is over.  Without a report the token counts *)
(* are those of the responses before, which were within their limits.      *)
Overrun(u, r) ==
  FirstOf(<<Check("Deadline", Late),
            Check("ModelOutputBytes",
                  u.model_output_bytes > budget.max_model_output_bytes),
            Check("MissingTokenUsage",
                  r.reported = "none" /\ budget.require_reported_tokens),
            Check("InputTokens", u.input_tokens > budget.max_input_tokens),
            Check("OutputTokens", u.output_tokens > budget.max_output_tokens),
            Check("TotalTokens", u.total_tokens > budget.max_total_tokens)>>)

(* The model answers.  It keeps to the output limit of the request; what   *)
(* it reports of its usage is up to the provider.                          *)
ModelAnswers(r) ==
  LET u == Charged(usage, r) IN
  /\ pc = "waiting"
  /\ r.output <= limit
  /\ usage' = u
  /\ unreported' = unreported + (IF r.reported = "all" THEN 0 ELSE 1)
  /\ \/ Overrun(u, r) # "Ok" /\ Finish(Overrun(u, r), FALSE)
     \/ Overrun(u, r) = "Ok" /\ r.calls = <<>> /\ Finish("Completed", TRUE)
     \/ /\ Overrun(u, r) = "Ok" /\ r.calls # <<>>
        /\ pc' = "tools" /\ calls' = r.calls /\ size' = size + 1
        /\ UNCHANGED <<status, text, limit, result, context, events>>
  /\ UNCHANGED <<elapsed, cancelled, world, queues, late>>

-----------------------------------------------------------------------------
(* before_tool, likewise.                                                  *)
BeforeTool(u) ==
  FirstOf(<<Check("Deadline", Late),
            Check("ToolCalls", u.tool_calls >= budget.max_tool_calls)>>)

(* All calls of the response have run: back to the top of the loop.        *)
ToolsDone ==
  /\ pc = "tools" /\ calls = <<>>
  /\ pc' = "loop"
  /\ UNCHANGED <<status, text, usage, elapsed, size, limit, calls, result,
                 context, events, cancelled, world, queues, history>>

StopBeforeTool ==
  /\ pc = "tools" /\ calls # <<>>
  /\ \/ cancelled /\ Finish("Cancelled", FALSE)
     \/ ~cancelled /\ BeforeTool(usage) # "Ok"
          /\ Finish(BeforeTool(usage), FALSE)
  /\ UNCHANGED <<usage, elapsed, cancelled, world, queues, history>>

(* The token and the budget are checked and the call is charged.  The      *)
(* executor runs next; the terminal may set the token in between.          *)
CheckTool ==
  /\ pc = "tools" /\ calls # <<>>
  /\ ~cancelled /\ BeforeTool(usage) = "Ok"
  /\ usage' = [usage EXCEPT !.tool_calls = @ + 1]
  /\ pc' = "execute"
  /\ UNCHANGED <<status, text, elapsed, size, limit, calls, result, context,
                 events, cancelled, world, queues, history>>

(* The executor answers; the runner then looks at the result.              *)
Executed(res) ==
  /\ pc = "execute"
  /\ pc' = "result" /\ result' = res
  /\ late' = late + (IF cancelled THEN 1 ELSE 0)
  /\ UNCHANGED <<status, text, usage, elapsed, size, limit, calls, context,
                 events, cancelled, rivals, unreported>>

Accepted(barrier) ==
  [ok |-> TRUE, rev |-> context, event |-> 0, barrier |-> barrier]

(* Every tool answers an error for bad arguments, a missing capability, a  *)
(* stale revision or a rule that forbids it; a tool that was not offered   *)
(* gets one without the executor being asked.                              *)
Rejected ==
  /\ Executed(Refusal)
  /\ UNCHANGED <<revision, committed, queues>>

Inspect ==
  /\ Head(calls) = "inspect" /\ context = revision
  /\ Executed([Accepted(FALSE) EXCEPT !.rev = 0])
  /\ UNCHANGED <<revision, committed, queues>>

(* A tool that executes a command: WorldService commits it at the          *)
(* revision of the context, or refuses it.                                 *)
Act ==
  /\ Head(calls) = "act" /\ context = revision
  /\ revision' = revision + 1
  /\ committed' = committed \cup {revision + 1}
  /\ Executed([ok |-> TRUE, rev |-> revision + 1, event |-> revision + 1,
               barrier |-> FALSE])
  /\ UNCHANGED queues

(* Faulty variant: create_npc does not end the turn.                       *)
CreateNpcOpen ==
  /\ Head(calls) = "create_npc" /\ context = revision
  /\ topology = Nothing
  /\ decisions' = Append(decisions, context)
  /\ Executed(Accepted(FALSE))
  /\ UNCHANGED <<revision, committed, turns, topology>>

CreateNpc ==
  /\ Head(calls) = "create_npc" /\ context = revision
  /\ topology = Nothing
  /\ decisions' = Append(decisions, context)
  /\ Executed(Accepted(TRUE))
  /\ UNCHANGED <<revision, committed, turns, topology>>

RequestNpcTurn ==
  /\ Head(calls) = "request_npc_turn" /\ context = revision
  /\ topology = Nothing
  /\ turns' = Append(turns, context)
  /\ Executed(Accepted(FALSE))
  /\ UNCHANGED <<revision, committed, decisions, topology>>

NoNpcWork == decisions = <<>> /\ turns = <<>>

(* create_scene, create_place and transition_scene, before they queue.     *)
TopologyCall == Head(calls) \in Topologies /\ context = revision

(* queue_topology: one request per turn, and none beside NPC work; the     *)
(* same request again is accepted and changes nothing.                     *)
QueueTopology ==
  LET tool == Head(calls) IN
  /\ TopologyCall /\ NoNpcWork
  /\ \/ topology = Nothing /\ topology' = [tool |-> tool, rev |-> context]
     \/ topology.tool = tool /\ UNCHANGED topology
  /\ Executed(Accepted(FALSE))
  /\ UNCHANGED <<revision, committed, decisions, turns>>

Execute ==
  /\ pc = "execute"
  /\ \/ Rejected
     \/ Head(calls) \in Offered
          /\ (Inspect \/ Act \/ CreateNpc \/ RequestNpcTurn \/ QueueTopology)

(* Faulty variant: the revision of a result is not taken over.             *)
AdvanceNot == UNCHANGED context

(* advance_tool_revision: only forward.                                    *)
Advance == context' = IF result.rev > context THEN result.rev ELSE context

(* Faulty variant: a refused call is tried again at once.                  *)
CollectRetries ==
  /\ pc = "result"
  /\ pc' = IF result.ok THEN "tools" ELSE "execute"
  /\ calls' = IF result.ok THEN Tail(calls) ELSE calls
  /\ result' = NoResult
  /\ UNCHANGED <<status, text, usage, elapsed, size, limit, context, events,
                 cancelled, world, queues, history>>

(* collect_events, advance_tool_revision, and the end of the turn at a     *)
(* successful barrier.                                                     *)
Collect ==
  /\ pc = "result"
  /\ IF result.ok
     THEN /\ Advance
          /\ events' = IF result.event > 0 THEN events \cup {result.event}
                                           ELSE events
     ELSE UNCHANGED <<context, events>>
  /\ calls' = Tail(calls) /\ result' = NoResult /\ size' = size + 1
  /\ IF result.barrier
     THEN pc' = "done" /\ status' = "Completed"
     ELSE pc' = "tools" /\ UNCHANGED status
  /\ UNCHANGED <<text, usage, elapsed, limit, cancelled, world, queues, history>>

-----------------------------------------------------------------------------
(* The terminal thread, the clock, and another connection to the save.     *)
Cancel ==
  /\ pc # "done" /\ ~cancelled
  /\ cancelled' = TRUE
  /\ UNCHANGED <<turn, elapsed, world, queues, history>>

Tick ==
  /\ pc # "done" /\ elapsed <= budget.max_elapsed_ms
  /\ elapsed' = elapsed + 1
  /\ UNCHANGED <<turn, cancelled, world, queues, history>>

Rival ==
  /\ pc # "done" /\ rivals < MaxRivals
  /\ rivals' = rivals + 1 /\ revision' = revision + 1
  /\ UNCHANGED <<turn, elapsed, cancelled, committed, queues, history>>

Runner == \/ StopBeforeModel \/ CallModel \/ ModelCancelled
          \/ ToolsDone \/ StopBeforeTool \/ CheckTool \/ Execute \/ Collect
Model  == ModelFailed \/ \E r \in Responses : ModelAnswers(r)

Done == pc = "done" /\ UNCHANGED vars

Next == Runner \/ Model \/ Cancel \/ Tick \/ Rival \/ Done

(* The worker thread keeps polling the turn, and a tool call ends: the     *)
(* store answers it.                                                       *)
Spec == Init /\ [][Next]_vars /\ WF_vars(Runner)

-----------------------------------------------------------------------------
(* The budget is hard: calls are never over it, the reported tokens and    *)
(* bytes are within it whenever a tool may run, and a provider that keeps  *)
(* to the request's limit never takes the output over it.                  *)
WithinBudget ==
  /\ usage.model_calls <= budget.max_model_calls
  /\ usage.tool_calls <= budget.max_tool_calls
  /\ usage.output_tokens <= budget.max_output_tokens
  /\ pc \in {"loop", "tools", "execute", "result"} =>
       /\ usage.input_tokens <= budget.max_input_tokens
       /\ usage.total_tokens <= budget.max_total_tokens
       /\ usage.model_output_bytes <= budget.max_model_output_bytes
       /\ budget.require_reported_tokens => usage.missing_token_reports = 0

(* The turn's own commits never make its later calls stale: unless another *)
(* connection commits, every tool runs at the current revision.            *)
OwnCommitsSeen ==
  pc \in {"loop", "waiting", "tools", "execute"} /\ rivals = 0
    => context = revision

(* Nothing the turn does after create_npc can make the decision stale: at  *)
(* the end its revision is current unless another connection committed.    *)
DecisionFresh ==
  pc = "done" /\ rivals = 0 =>
    \A i \in 1..Len(decisions) : decisions[i] = revision

(* With a provider that answers or fails in the end, a turn ends, whatever *)
(* the model keeps asking for.                                             *)
TurnEnds == WF_vars(Model) => <>(pc = "done")

=============================================================================
