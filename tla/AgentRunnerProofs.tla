------------------------- MODULE AgentRunnerProofs -------------------------
(***************************************************************************)
(* Theorems about AgentRunner for every budget, every set of responses a   *)
(* provider may give and every number of rival commits.                    *)
(***************************************************************************)
EXTENDS AgentRunner, TLAPS

Positions == {"loop", "waiting", "tools", "execute", "result", "done"}

Usage == [model_calls : Nat, tool_calls : Nat, input_tokens : Nat,
          output_tokens : Nat, total_tokens : Nat, model_output_bytes : Nat,
          missing_token_reports : Nat]

Results == [ok : BOOLEAN, rev : Nat, event : Nat, barrier : BOOLEAN]

TypeInv ==
  /\ pc \in Positions
  /\ usage \in Usage
  /\ limit \in Nat
  /\ result \in Results
  /\ context \in Nat /\ revision \in Nat /\ rivals \in Nat
  /\ decisions \in Seq(Nat)

(* Until the turn ends, what was reported is within the budget; while the  *)
(* model works, its answer still fits the budget's output.                 *)
ReportedInv ==
  /\ pc # "done" =>
       /\ usage.input_tokens <= budget.max_input_tokens
       /\ usage.total_tokens <= budget.max_total_tokens
       /\ usage.model_output_bytes <= budget.max_model_output_bytes
       /\ budget.require_reported_tokens => usage.missing_token_reports = 0
  /\ pc = "waiting" =>
       usage.output_tokens + limit <= budget.max_output_tokens

BudgetInv == TypeInv /\ WithinBudget /\ ReportedInv

(* The revision the context will have once the last result is looked at.   *)
Seen == IF pc = "result" /\ result.ok /\ result.rev > context
        THEN result.rev ELSE context

SeenInv == pc # "done" /\ rivals = 0 => Seen = revision

(* A decision ends the tools of its turn, so it stays at the revision it   *)
(* was queued at.                                                          *)
DecisionInv ==
  decisions # <<>> =>
    /\ pc \in {"result", "done"}
    /\ pc = "result" => result.barrier
    /\ rivals = 0 => \A i \in 1..Len(decisions) : decisions[i] = revision

RunnerInv == BudgetInv /\ SeenInv /\ DecisionInv

-----------------------------------------------------------------------------
(* Checks: when no reason is named, no check failed.                       *)
LEMMA FirstExists ==
  ASSUME NEW n \in 1..6, NEW checks, DOMAIN checks = 1..n,
         NEW k \in 1..n, checks[k].over
  PROVE  \E i \in DOMAIN checks : IsFirst(checks, i)
  <1> DEFINE Over(i) == i \in 1..n /\ checks[i].over
             Least(i) == Over(i) /\ \A j \in 1..n : j < i => ~Over(j)
  <1>1. k \in {1, 2, 3, 4, 5, 6} /\ Over(k)
    OBVIOUS
  <1>2. \A j \in 1..n : j \in {1, 2, 3, 4, 5, 6}
    OBVIOUS
  <1> HIDE DEF Over
  <1>3. CASE Over(1)
    <2>1. Least(1)
      BY <1>3
    <2> QED
      BY <2>1 DEF Over, IsFirst
  <1>4. CASE Over(2) /\ ~Over(1)
    <2>1. Least(2)
      BY <1>2, <1>4
    <2> QED
      BY <2>1 DEF Over, IsFirst
  <1>5. CASE Over(3) /\ ~Over(2) /\ ~Over(1)
    <2>1. Least(3)
      BY <1>2, <1>5
    <2> QED
      BY <2>1 DEF Over, IsFirst
  <1>6. CASE Over(4) /\ ~Over(3) /\ ~Over(2) /\ ~Over(1)
    <2>1. Least(4)
      BY <1>2, <1>6
    <2> QED
      BY <2>1 DEF Over, IsFirst
  <1>7. CASE Over(5) /\ ~Over(4) /\ ~Over(3) /\ ~Over(2) /\ ~Over(1)
    <2>1. Least(5)
      BY <1>2, <1>7
    <2> QED
      BY <2>1 DEF Over, IsFirst
  <1>8. CASE /\ Over(6) /\ ~Over(5) /\ ~Over(4) /\ ~Over(3) /\ ~Over(2)
             /\ ~Over(1)
    <2>1. Least(6)
      BY <1>2, <1>8
    <2> QED
      BY <2>1 DEF Over, IsFirst
  <1> QED
    BY <1>1, <1>3, <1>4, <1>5, <1>6, <1>7, <1>8

LEMMA NoneOver ==
  ASSUME NEW n \in 1..6, NEW checks, DOMAIN checks = 1..n,
         \A i \in 1..n : checks[i].reason # "Ok",
         FirstOf(checks) = "Ok"
  PROVE  \A i \in 1..n : ~checks[i].over
  <1> SUFFICES ASSUME NEW k \in 1..n, checks[k].over PROVE FALSE
    OBVIOUS
  <1>1. PICK i \in DOMAIN checks : IsFirst(checks, i)
    BY FirstExists
  <1>2. (CHOOSE j \in DOMAIN checks : IsFirst(checks, j)) \in DOMAIN checks
    BY <1>1
  <1> QED
    BY <1>2 DEF FirstOf

LEMMA ModelAllowed ==
  ASSUME NEW u, BeforeModel(u) = "Ok"
  PROVE  ~(u.model_calls >= budget.max_model_calls)
  <1> DEFINE checks == <<Check("Deadline", Late),
                         Check("ModelCalls",
                               u.model_calls >= budget.max_model_calls)>>
  <1>1. DOMAIN checks = 1..2 /\ FirstOf(checks) = "Ok"
    BY DEF BeforeModel
  <1>2. \A i \in 1..2 : checks[i].reason # "Ok"
    BY DEF Check
  <1>3. ~checks[2].over
    BY <1>1, <1>2, NoneOver
  <1> QED
    BY <1>3 DEF Check

LEMMA ToolAllowed ==
  ASSUME NEW u, BeforeTool(u) = "Ok"
  PROVE  ~(u.tool_calls >= budget.max_tool_calls)
  <1> DEFINE checks == <<Check("Deadline", Late),
                         Check("ToolCalls",
                               u.tool_calls >= budget.max_tool_calls)>>
  <1>1. DOMAIN checks = 1..2 /\ FirstOf(checks) = "Ok"
    BY DEF BeforeTool
  <1>2. \A i \in 1..2 : checks[i].reason # "Ok"
    BY DEF Check
  <1>3. ~checks[2].over
    BY <1>1, <1>2, NoneOver
  <1> QED
    BY <1>3 DEF Check

LEMMA NotOverrun ==
  ASSUME NEW u, NEW r, Overrun(u, r) = "Ok"
  PROVE  /\ ~Late
         /\ ~(u.model_output_bytes > budget.max_model_output_bytes)
         /\ ~(r.reported = "none" /\ budget.require_reported_tokens)
         /\ ~(u.input_tokens > budget.max_input_tokens)
         /\ ~(u.total_tokens > budget.max_total_tokens)
  <1> DEFINE checks ==
        <<Check("Deadline", Late),
          Check("ModelOutputBytes",
                u.model_output_bytes > budget.max_model_output_bytes),
          Check("MissingTokenUsage",
                r.reported = "none" /\ budget.require_reported_tokens),
          Check("InputTokens", u.input_tokens > budget.max_input_tokens),
          Check("OutputTokens", u.output_tokens > budget.max_output_tokens),
          Check("TotalTokens", u.total_tokens > budget.max_total_tokens)>>
  <1>1. DOMAIN checks = 1..6 /\ FirstOf(checks) = "Ok"
    BY DEF Overrun
  <1>2. \A i \in 1..6 : checks[i].reason # "Ok"
    BY DEF Check
  <1>3. \A i \in 1..6 : ~checks[i].over
    BY <1>1, <1>2, NoneOver
  <1>4. ~checks[1].over /\ ~checks[2].over /\ ~checks[3].over
        /\ ~checks[4].over /\ ~checks[6].over
    BY <1>3
  <1> QED
    BY <1>4 DEF Check

-----------------------------------------------------------------------------
(* Usage.                                                                  *)
LEMMA BudgetTyped ==
  /\ budget.max_model_calls \in Nat /\ budget.max_tool_calls \in Nat
  /\ budget.max_input_tokens \in Nat /\ budget.max_output_tokens \in Nat
  /\ budget.max_total_tokens \in Nat /\ budget.max_model_output_bytes \in Nat
  BY RunnerAssumption DEF RunnerAssumption

LEMMA ResponseTyped ==
  ASSUME NEW r \in Responses
  PROVE  /\ r.input \in Nat /\ r.output \in Nat /\ r.bytes \in Nat
         /\ r.reported \in {"all", "none", "input only"}
  BY RunnerAssumption DEF RunnerAssumption, Response

(* What a response charges: never a call, never more output than it has,   *)
(* and a missing report only when there is none.                           *)
LEMMA ChargedBounds ==
  ASSUME NEW u \in Usage, NEW r \in Responses
  PROVE  /\ Charged(u, r) \in Usage
         /\ Charged(u, r).model_calls = u.model_calls
         /\ Charged(u, r).tool_calls = u.tool_calls
         /\ Charged(u, r).output_tokens <= u.output_tokens + r.output
         /\ r.reported # "none" =>
              Charged(u, r).missing_token_reports = u.missing_token_reports
  <1>1. /\ r.input \in Nat /\ r.output \in Nat /\ r.bytes \in Nat
        /\ u.output_tokens \in Nat
    BY ResponseTyped DEF Usage
  <1> DEFINE counted == [u EXCEPT !.model_output_bytes = @ + r.bytes]
             missed == [counted EXCEPT !.missing_token_reports = @ + 1]
             tokens == Tokens(counted, r)
  <1>2. /\ counted \in Usage
        /\ counted.model_calls = u.model_calls
        /\ counted.tool_calls = u.tool_calls
        /\ counted.output_tokens = u.output_tokens
        /\ counted.missing_token_reports = u.missing_token_reports
    BY <1>1 DEF Usage
  <1> HIDE DEF counted
  <1>3. /\ missed \in Usage
        /\ missed.model_calls = u.model_calls
        /\ missed.tool_calls = u.tool_calls
        /\ missed.output_tokens = u.output_tokens
    BY <1>2 DEF Usage
  <1>4. /\ tokens \in Usage
        /\ tokens.model_calls = u.model_calls
        /\ tokens.tool_calls = u.tool_calls
        /\ tokens.output_tokens \in {u.output_tokens,
                                     u.output_tokens + r.output}
        /\ tokens.missing_token_reports = u.missing_token_reports
    <2> DEFINE output == IF r.reported = "all" THEN r.output ELSE 0
    <2>1. output \in {0, r.output} /\ output \in Nat
      BY <1>1
    <2>2. tokens = [counted EXCEPT !.input_tokens = @ + r.input,
                                   !.output_tokens = @ + output,
                                   !.total_tokens = @ + r.input + output]
      BY DEF Tokens
    <2> HIDE DEF output, tokens
    <2>3. tokens.output_tokens = u.output_tokens + output
      BY <1>2, <2>2 DEF Usage
    <2>4. /\ counted.input_tokens + r.input \in Nat
          /\ counted.output_tokens + output \in Nat
          /\ counted.total_tokens + r.input + output \in Nat
      BY <1>1, <1>2, <2>1 DEF Usage
    <2>5. tokens \in Usage
      BY <1>2, <2>2, <2>4 DEF Usage
    <2>6. /\ tokens.model_calls = counted.model_calls
          /\ tokens.tool_calls = counted.tool_calls
          /\ tokens.missing_token_reports = counted.missing_token_reports
      BY <1>2, <2>2 DEF Usage
    <2>7. tokens.output_tokens \in {u.output_tokens,
                                    u.output_tokens + r.output}
      BY <1>1, <2>1, <2>3
    <2> QED
      BY <1>2, <2>5, <2>6, <2>7
  <1>5. /\ u.output_tokens <= u.output_tokens + r.output
        /\ u.output_tokens + r.output <= u.output_tokens + r.output
    BY <1>1
  <1> HIDE DEF missed, tokens
  <1>6. ASSUME NEW v \in {u, counted, missed, tokens}
        PROVE  /\ v \in Usage /\ v.model_calls = u.model_calls
               /\ v.tool_calls = u.tool_calls
               /\ v.output_tokens <= u.output_tokens + r.output
    BY <1>2, <1>3, <1>4, <1>5
  <1>7. ASSUME NEW v \in {u, counted, tokens}
        PROVE  v.missing_token_reports = u.missing_token_reports
    BY <1>2, <1>4
  <1>8. /\ Charged(u, r) \in {u, counted, missed, tokens}
        /\ r.reported # "none" => Charged(u, r) \in {u, counted, tokens}
    BY DEF Charged, counted, missed, tokens
  <1> QED
    BY <1>6, <1>7, <1>8

-----------------------------------------------------------------------------
(* The steps.                                                              *)
(* What an execution leaves alone, whatever the tool.                      *)
LEMMA ExecuteFrame ==
  ASSUME Execute
  PROVE  /\ pc = "execute" /\ pc' = "result"
         /\ UNCHANGED <<usage, limit, context, rivals>>
  BY DEF Execute, Rejected, Inspect, Act, CreateNpc, RequestNpcTurn,
         QueueTopology, Executed

LEMMA ExecuteTyped ==
  ASSUME TypeInv, Execute
  PROVE  result' \in Results /\ revision' \in Nat /\ decisions' \in Seq(Nat)
  <1>1. CASE Rejected
    BY <1>1 DEF Rejected, Executed, Refusal, NoResult, Results, TypeInv, queues
  <1>2. CASE Inspect
    BY <1>2 DEF Inspect, Executed, Accepted, Results, TypeInv, queues
  <1>3. CASE Act
    BY <1>3 DEF Act, Executed, Results, TypeInv, queues
  <1>4. CASE CreateNpc
    BY <1>4 DEF CreateNpc, Executed, Accepted, Results, TypeInv
  <1>5. CASE RequestNpcTurn
    BY <1>5 DEF RequestNpcTurn, Executed, Accepted, Results, TypeInv
  <1>6. CASE QueueTopology
    BY <1>6 DEF QueueTopology, Executed, Accepted, Results, TypeInv
  <1> QED
    BY <1>1, <1>2, <1>3, <1>4, <1>5, <1>6 DEF Execute

LEMMA TypeStep ==
  ASSUME TypeInv, [Next]_vars
  PROVE  TypeInv'
  <1>1. CASE StopBeforeModel \/ ModelCancelled \/ StopBeforeTool
    BY <1>1 DEF StopBeforeModel, ModelCancelled, StopBeforeTool, Finish, TypeInv,
                Positions, world, queues
  <1>2. CASE CallModel
    <2>1. usage' \in Usage
      <3>1. PICK n \in Nat : n = usage.model_calls + 1
        BY DEF TypeInv, Usage
      <3>2. usage' = [usage EXCEPT !.model_calls = n]
        BY <1>2, <3>1 DEF CallModel
      <3> QED
        BY <3>2 DEF TypeInv, Usage
    <2>2. limit' \in Nat /\ pc' \in Positions
          /\ UNCHANGED <<result, context, revision, rivals, decisions>>
      <3>1. usage.output_tokens \in Nat /\ limit \in Nat
        BY DEF TypeInv, Usage
      <3>2. CASE Finish("OutputTokens", FALSE)
        BY <1>2, <3>1, <3>2 DEF CallModel, Finish, TypeInv, Positions, world, queues
      <3>3. CASE ~Finish("OutputTokens", FALSE)
        <4>1. PICK remaining \in Nat :
                remaining = IF usage.output_tokens < budget.max_output_tokens
                            THEN budget.max_output_tokens - usage.output_tokens ELSE 0
          BY <3>1, BudgetTyped
        <4>2. limit' = IF limit < remaining THEN limit ELSE remaining
          BY <1>2, <3>3, <4>1 DEF CallModel
        <4>3. limit' \in Nat
          BY <3>1, <4>2
        <4>4. pc' \in Positions
          BY <1>2, <3>3 DEF CallModel, Positions
        <4>5. UNCHANGED <<result, context, revision, rivals, decisions>>
          BY <1>2, <3>3 DEF CallModel, world, queues
        <4> QED
          BY <4>3, <4>4, <4>5
      <3> QED
        BY <3>2, <3>3
    <2> QED
      BY <2>1, <2>2 DEF TypeInv
  <1>3. CASE ModelFailed
    BY <1>3 DEF ModelFailed, Finish, TypeInv, Positions, world, queues
  <1>4. ASSUME NEW r \in Responses, ModelAnswers(r) PROVE TypeInv'
    <2>1. usage' \in Usage
      BY <1>4, ChargedBounds DEF ModelAnswers, TypeInv
    <2>2. pc' \in Positions
          /\ UNCHANGED <<limit, result, context, revision, rivals, decisions>>
      BY <1>4 DEF ModelAnswers, Finish, Positions, world, queues
    <2> QED
      BY <2>1, <2>2 DEF TypeInv
  <1>5. CASE ToolsDone
    BY <1>5 DEF ToolsDone, TypeInv, Positions, world, queues
  <1>6. CASE CheckTool
    <2>1. PICK n \in Nat : n = usage.tool_calls + 1
      BY DEF TypeInv, Usage
    <2>2. usage' = [usage EXCEPT !.tool_calls = n]
      BY <1>6, <2>1 DEF CheckTool
    <2>3. usage' \in Usage
      BY <2>2 DEF TypeInv, Usage
    <2>4. pc' \in Positions
          /\ UNCHANGED <<limit, result, context, revision, rivals, decisions>>
      BY <1>6 DEF CheckTool, Positions, world, queues
    <2> QED
      BY <2>3, <2>4 DEF TypeInv
  <1>7. CASE Execute
    BY <1>7, ExecuteFrame, ExecuteTyped DEF TypeInv, Positions
  <1>8. CASE Collect
    <2>1. pc' \in Positions /\ result' \in Results /\ context' \in Nat
      BY <1>8 DEF Collect, Advance, TypeInv, Positions, NoResult, Results
    <2> QED
      BY <1>8, <2>1 DEF Collect, TypeInv, world, queues
  <1>9. CASE Cancel \/ Tick \/ Done \/ UNCHANGED vars
    BY <1>9 DEF Cancel, Tick, Done, vars, turn, world, queues, TypeInv
  <1>10. CASE Rival
    BY <1>10 DEF Rival, turn, queues, TypeInv
  <1> QED
    BY <1>1, <1>2, <1>3, <1>4, <1>5, <1>6, <1>7, <1>8, <1>9, <1>10
       DEF Next, Runner, Model

LEMMA BudgetStep ==
  ASSUME BudgetInv, [Next]_vars
  PROVE  WithinBudget' /\ ReportedInv'
  <1> TypeInv /\ WithinBudget /\ ReportedInv /\ usage \in Usage
    BY DEF BudgetInv, TypeInv
  <1>1. ASSUME usage' = usage, pc' # "waiting", pc = "done" => pc' = "done"
        PROVE  WithinBudget' /\ ReportedInv'
    BY <1>1 DEF WithinBudget, ReportedInv
  <1>2. ASSUME UNCHANGED <<usage, pc, limit>>
        PROVE  WithinBudget' /\ ReportedInv'
    BY <1>2 DEF WithinBudget, ReportedInv
  <1>3. CASE StopBeforeModel \/ ModelCancelled \/ ModelFailed \/ StopBeforeTool
    BY <1>1, <1>3 DEF StopBeforeModel, ModelCancelled, ModelFailed,
                      StopBeforeTool, Finish
  <1>4. CASE CallModel
    <2>1. /\ usage' = [usage EXCEPT !.model_calls = @ + 1]
          /\ usage.model_calls < budget.max_model_calls
          /\ pc = "loop"
      BY <1>4, ModelAllowed, BudgetTyped DEF CallModel, Usage
    <2>2. /\ usage'.model_calls <= budget.max_model_calls
          /\ usage'.tool_calls = usage.tool_calls
          /\ usage'.input_tokens = usage.input_tokens
          /\ usage'.output_tokens = usage.output_tokens
          /\ usage'.total_tokens = usage.total_tokens
          /\ usage'.model_output_bytes = usage.model_output_bytes
          /\ usage'.missing_token_reports = usage.missing_token_reports
      BY <2>1, BudgetTyped DEF Usage
    <2>3. ASSUME pc' = "waiting"
          PROVE  usage'.output_tokens + limit' <= budget.max_output_tokens
      <3> DEFINE remaining == IF usage.output_tokens < budget.max_output_tokens
                   THEN budget.max_output_tokens - usage.output_tokens ELSE 0
      <3>1. /\ remaining > 0 /\ usage.output_tokens \in Nat /\ limit \in Nat
            /\ limit' = IF limit < remaining THEN limit ELSE remaining
        BY <1>4, <2>3, BudgetTyped DEF CallModel, Finish, TypeInv, Usage
      <3>2. limit' <= budget.max_output_tokens - usage.output_tokens
            /\ limit' \in Nat
        BY <3>1, BudgetTyped
      <3> QED
        BY <2>2, <3>1, <3>2, BudgetTyped
    <2> QED
      BY <2>1, <2>2, <2>3 DEF WithinBudget, ReportedInv
  <1>5. ASSUME NEW r \in Responses, ModelAnswers(r)
        PROVE  WithinBudget' /\ ReportedInv'
    <2> DEFINE u == Charged(usage, r)
    <2>1. /\ usage' = u /\ pc = "waiting" /\ r.output <= limit
          /\ pc' # "done" => Overrun(u, r) = "Ok"
          /\ pc' # "waiting"
      BY <1>5 DEF ModelAnswers, Finish
    <2>2. /\ u \in Usage /\ u.model_calls = usage.model_calls
          /\ u.tool_calls = usage.tool_calls
          /\ u.output_tokens <= usage.output_tokens + r.output
          /\ r.reported # "none" =>
               u.missing_token_reports = usage.missing_token_reports
      BY ChargedBounds
    <2>3. u.output_tokens <= budget.max_output_tokens
      <3>1. /\ usage.output_tokens + limit <= budget.max_output_tokens
            /\ usage.output_tokens \in Nat /\ limit \in Nat
            /\ r.output \in Nat /\ u.output_tokens \in Nat
        BY <2>1, <2>2, ResponseTyped DEF ReportedInv, TypeInv, Usage
      <3> QED
        BY <2>1, <2>2, <3>1, BudgetTyped
    <2>4. ASSUME pc' # "done"
          PROVE  /\ u.input_tokens <= budget.max_input_tokens
                 /\ u.total_tokens <= budget.max_total_tokens
                 /\ u.model_output_bytes <= budget.max_model_output_bytes
                 /\ budget.require_reported_tokens => r.reported # "none"
      <3>1. /\ u.input_tokens \in Nat /\ u.total_tokens \in Nat
            /\ u.model_output_bytes \in Nat
        BY <2>2 DEF Usage
      <3> QED
        BY <2>1, <2>4, <3>1, NotOverrun, BudgetTyped
    <2>5. budget.require_reported_tokens => usage.missing_token_reports = 0
      BY <2>1 DEF ReportedInv
    <2> HIDE DEF u
    <2> QED
      BY <2>1, <2>2, <2>3, <2>4, <2>5 DEF WithinBudget, ReportedInv
  <1>6. CASE ToolsDone
    BY <1>1, <1>6 DEF ToolsDone
  <1>7. CASE CheckTool
    <2>1. /\ usage' = [usage EXCEPT !.tool_calls = @ + 1]
          /\ usage.tool_calls < budget.max_tool_calls
          /\ pc = "tools" /\ pc' = "execute"
      BY <1>7, ToolAllowed, BudgetTyped DEF CheckTool, Usage
    <2> QED
      BY <2>1, BudgetTyped DEF WithinBudget, ReportedInv, Usage
  <1>8. CASE Execute
    BY <1>1, <1>8, ExecuteFrame
  <1>9. CASE Collect
    BY <1>1, <1>9 DEF Collect
  <1>10. CASE Cancel \/ Tick \/ Rival \/ Done \/ UNCHANGED vars
    BY <1>2, <1>10 DEF Cancel, Tick, Rival, Done, vars, turn
  <1> QED
    BY <1>3, <1>4, <1>5, <1>6, <1>7, <1>8, <1>9, <1>10 DEF Next, Runner, Model

LEMMA SeenStep ==
  ASSUME TypeInv, SeenInv, [Next]_vars
  PROVE  SeenInv'
  <1>1. ASSUME UNCHANGED <<context, revision, rivals>>, pc' # "result",
               pc \notin {"result", "done"} \/ pc' = "done"
        PROVE  SeenInv'
    BY <1>1 DEF SeenInv, Seen
  <1>2. ASSUME UNCHANGED <<pc, result, context, revision, rivals>>
        PROVE  SeenInv'
    BY <1>2 DEF SeenInv, Seen
  <1>3. CASE StopBeforeModel \/ ModelCancelled \/ ModelFailed \/ StopBeforeTool
    BY <1>1, <1>3 DEF StopBeforeModel, ModelCancelled, ModelFailed,
                      StopBeforeTool, Finish, world
  <1>4. CASE CallModel
    BY <1>1, <1>4 DEF CallModel, Finish, world
  <1>5. ASSUME NEW r \in Responses, ModelAnswers(r) PROVE SeenInv'
    BY <1>1, <1>5 DEF ModelAnswers, Finish, world
  <1>6. CASE ToolsDone \/ CheckTool
    BY <1>1, <1>6 DEF ToolsDone, CheckTool, world
  <1>7. CASE Execute
    <2> context \in Nat /\ revision \in Nat
      BY DEF TypeInv
    <2>1. /\ pc = "execute" /\ pc' = "result" /\ UNCHANGED <<context, rivals>>
      BY <1>7, ExecuteFrame
    <2>2. CASE Rejected
      BY <2>1, <2>2
         DEF Rejected, Executed, Refusal, NoResult, SeenInv, Seen
    <2>3. CASE Act
      <3>1. context = revision /\ result'.rev = revision + 1 /\ result'.ok
            /\ revision' = revision + 1
        BY <2>3 DEF Act, Executed
      <3> QED
        BY <2>1, <3>1 DEF SeenInv, Seen
    <2>4. CASE Inspect \/ CreateNpc \/ RequestNpcTurn \/ QueueTopology
      <3>1. result'.rev \in {0, context} /\ revision' = revision
        BY <2>4 DEF Inspect, CreateNpc, RequestNpcTurn, QueueTopology,
                    Executed, Accepted
      <3> QED
        BY <2>1, <3>1 DEF SeenInv, Seen
    <2> QED
      BY <1>7, <2>2, <2>3, <2>4 DEF Execute
  <1>8. CASE Collect
    <2>1. /\ pc = "result" /\ pc' \in {"tools", "done"}
          /\ context' = Seen /\ UNCHANGED <<revision, rivals>>
      BY <1>8 DEF Collect, Advance, Seen, world
    <2> QED
      BY <2>1 DEF SeenInv, Seen
  <1>9. CASE Cancel \/ Tick \/ Done \/ UNCHANGED vars
    BY <1>2, <1>9 DEF Cancel, Tick, Done, vars, turn, world
  <1>10. CASE Rival
    BY <1>10 DEF Rival, TypeInv, SeenInv
  <1> QED
    BY <1>3, <1>4, <1>5, <1>6, <1>7, <1>8, <1>9, <1>10 DEF Next, Runner, Model

LEMMA DecisionStep ==
  ASSUME TypeInv, SeenInv, DecisionInv, [Next]_vars
  PROVE  DecisionInv'
  <1>1. ASSUME UNCHANGED decisions, pc \notin {"result", "done"}
        PROVE  DecisionInv'
    BY <1>1 DEF DecisionInv
  <1>2. ASSUME UNCHANGED <<decisions, pc, result>>,
               \/ UNCHANGED <<revision, rivals>>
               \/ rivals' # 0
        PROVE  DecisionInv'
    BY <1>2 DEF DecisionInv
  <1>3. CASE StopBeforeModel \/ ModelCancelled \/ ModelFailed \/ StopBeforeTool
             \/ CallModel \/ ToolsDone \/ CheckTool
    BY <1>1, <1>3 DEF StopBeforeModel, ModelCancelled, ModelFailed,
                      StopBeforeTool, CallModel, ToolsDone, CheckTool, queues
  <1>4. ASSUME NEW r \in Responses, ModelAnswers(r) PROVE DecisionInv'
    BY <1>1, <1>4 DEF ModelAnswers, queues
  <1>5. CASE Execute
    <2>1. pc = "execute" /\ pc' = "result"
      BY <1>5, ExecuteFrame
    <2>2. CASE CreateNpc
      <3>1. decisions = <<>> /\ context \in Nat
        BY <2>1 DEF DecisionInv, TypeInv
      <3>2. /\ decisions' = Append(decisions, context) /\ context = revision
            /\ revision' = revision /\ result'.barrier
        BY <2>2 DEF CreateNpc, Executed, Accepted
      <3>3. Len(decisions') = 1 /\ decisions'[1] = context
        BY <3>1, <3>2
      <3> QED
        BY <2>1, <3>2, <3>3 DEF DecisionInv
    <2>3. CASE Rejected \/ Inspect \/ Act \/ RequestNpcTurn \/ QueueTopology
      BY <1>1, <2>1, <2>3 DEF Rejected, Inspect, Act, RequestNpcTurn,
                              QueueTopology, queues
    <2> QED
      BY <1>5, <2>2, <2>3 DEF Execute
  <1>6. CASE Collect
    <2>1. /\ pc = "result"
          /\ result.barrier => pc' = "done"
          /\ UNCHANGED <<decisions, revision, rivals>>
      BY <1>6 DEF Collect, world, queues
    <2> QED
      BY <2>1 DEF DecisionInv
  <1>7. CASE Cancel \/ Tick \/ Done \/ UNCHANGED vars
    BY <1>2, <1>7 DEF Cancel, Tick, Done, vars, turn, world, queues
  <1>8. CASE Rival
    <2>1. rivals' # 0 /\ UNCHANGED <<decisions, pc, result>>
      BY <1>8 DEF Rival, turn, queues, TypeInv
    <2> QED
      BY <1>2, <2>1
  <1> QED
    BY <1>3, <1>4, <1>5, <1>6, <1>7, <1>8 DEF Next, Runner, Model

LEMMA RunnerInit == Init => RunnerInv
  <1> SUFFICES ASSUME Init PROVE RunnerInv
    OBVIOUS
  <1>1. TypeInv
    BY BudgetTyped
       DEF Init, TypeInv, Positions, Usage, NoResult, Results
  <1>2. WithinBudget /\ ReportedInv
    BY BudgetTyped DEF Init, WithinBudget, ReportedInv
  <1>3. SeenInv /\ DecisionInv
    BY DEF Init, SeenInv, Seen, DecisionInv
  <1> QED
    BY <1>1, <1>2, <1>3 DEF RunnerInv, BudgetInv

LEMMA RunnerStep == RunnerInv /\ [Next]_vars => RunnerInv'
  BY TypeStep, BudgetStep, SeenStep, DecisionStep DEF RunnerInv, BudgetInv

THEOREM RunnerInvariant == Spec => []RunnerInv
  BY RunnerInit, RunnerStep, PTL DEF Spec

(* TurnBudget is hard: no turn makes more calls than it allows, none runs  *)
(* a tool when a reported count is over it, and a provider that keeps to   *)
(* the output limit of each request keeps to the budget's.                 *)
THEOREM BudgetKept == Spec => []WithinBudget
  BY RunnerInvariant, PTL DEF RunnerInv, BudgetInv

(* Without other connections every tool runs at the current revision: what *)
(* advance_tool_revision takes over is all that the turn has committed.    *)
THEOREM CommitsSeen == Spec => []OwnCommitsSeen
  <1>1. RunnerInv => OwnCommitsSeen
    BY DEF RunnerInv, SeenInv, Seen, OwnCommitsSeen
  <1> QED
    BY <1>1, RunnerInvariant, PTL

(* A decision of create_npc is at the current revision when the turn ends, *)
(* unless another connection has committed.                                *)
THEOREM DecisionKept == Spec => []DecisionFresh
  <1>1. RunnerInv => DecisionFresh
    <2> SUFFICES ASSUME RunnerInv, pc = "done", rivals = 0,
                        NEW i \in 1..Len(decisions)
                 PROVE  decisions[i] = revision
      BY DEF DecisionFresh
    <2>1. decisions # <<>>
      OBVIOUS
    <2> QED
      BY <2>1 DEF RunnerInv, DecisionInv
  <1> QED
    BY <1>1, RunnerInvariant, PTL
=============================================================================
