---------------------------- MODULE MCAgentRunner ----------------------------
EXTENDS AgentRunner

CONSTANTS Partial,   \* TRUE: the provider may leave out the output count
          Require    \* require_reported_tokens

(* Small enough that every limit can be the one that ends a turn: three    *)
(* model calls, three tools, tokens for two larger answers.                *)
MCBudget == [max_model_calls |-> 3, max_tool_calls |-> 3,
             max_input_tokens |-> 4, max_output_tokens |-> 3,
             max_total_tokens |-> 6, max_model_output_bytes |-> 2,
             max_elapsed_ms |-> 0, require_reported_tokens |-> Require]

Plain(s) == [reported |-> "all", input |-> 1, output |-> 1, bytes |-> 0,
             calls |-> s]

MCResponses ==
  {Plain(<<t>>) : t \in Tools} \cup {Plain(<<s, t>>) : s, t \in Tools \ {"hidden", "inspect"}}
  \cup {[reported |-> p, input |-> i, output |-> o, bytes |-> b, calls |-> c] :
          p \in {"all", "none"} \cup (IF Partial THEN {"input only"} ELSE {}),
          i \in {0, 3}, o \in {0, 2}, b \in {0, 2},
          c \in {<<>>, <<"act">>}}
=============================================================================
