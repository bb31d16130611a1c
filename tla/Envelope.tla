------------------------------ MODULE Envelope -----------------------------
(***************************************************************************)
(* The parameters of a request on their way into the upstream's envelope:  *)
(* the Messages and Responses parameters made into chat ones, and the      *)
(* normalisation every chat body goes through.                             *)
(*                                                                         *)
(* A request starts plain and is given up to MaxAsked parameters; then it  *)
(* is translated and normalised, or refused.  A reasoning effort is its    *)
(* rung on the ladder, 0 when there is none and Odd when it is no rung.    *)
(***************************************************************************)
EXTENDS Naturals, FiniteSets, FiniteSetsExt

CONSTANTS Ladders,     \* the rungs a model may allow: sets of 1..Rungs
          Rungs,       \* "minimal" .. "ultra"
          Medium,      \* the rung "medium", High the one above it
          High,        \* also the fallback
          Budgets,     \* thinking budgets
          BudgetTops,  \* rung -> the largest budget it stands for
          MaxAsked     \* parameters of a request

\* Above High there is a rung, "xhigh"; a model allows some effort.
ASSUME EnvelopeAssumption ==
  /\ Rungs \in Nat /\ Medium \in 1..Rungs /\ High \in 1..(Rungs - 1) /\ Medium <= High
  /\ Ladders \subseteq (SUBSET (1..Rungs)) \ {{}}
  /\ Budgets \subseteq Nat /\ BudgetTops \in [1..High -> Nat]

VARIABLES
  api,       \* "chat", "messages" or "responses"
  ladder,    \* the rungs the model allows
  params,    \* what the client asks for
  asked_,    \* how many parameters it gave
  envelope   \* what is sent, Refusal or Unsent

envelopeVars == <<api, ladder, params, asked_, envelope>>

Odd == Rungs + 1
Unsent == [is |-> "unsent"]
Refusal == [is |-> "refused"]

Plain == [effort |-> 0, thinking |-> "absent", budget |-> 0, suffix |-> 0, tools |-> "absent", choice |-> "absent",
          format |-> "absent", state |-> "absent", functions |-> "absent"]

\* what may be asked on each wire; "functions" is the legacy form of tools, "state" anything that needs
\* the gateway to remember, to run later or to moderate
Askable(w, k) ==
  CASE k = "effort" -> 1..Odd
    [] k = "thinking" -> IF w = "responses" THEN {"disabled"} ELSE {"disabled", "enabled", "adaptive"}
    [] k = "budget" -> IF w = "responses" THEN {} ELSE Budgets
    [] k = "suffix" -> {1, Medium}
    [] k = "tools" -> IF w = "chat" THEN {"function"} ELSE {"function", "builtin"}
    [] k = "choice" -> IF w = "responses" THEN {"auto", "none", "required", "tool", "builtin"}
                       ELSE {"auto", "none", "required", "tool"}
    [] k = "format" -> {"json"}
    [] k = "state" -> IF w = "responses" THEN {"resume", "background", "moderation"} ELSE {}
    [] k = "functions" -> IF w = "chat" THEN {"function", "tool"} ELSE {}

EnvelopeInit ==
  /\ api \in {"chat", "messages", "responses"}
  /\ ladder \in Ladders
  /\ params = Plain /\ asked_ = 0 /\ envelope = Unsent

Ask_(k) ==
  /\ envelope = Unsent /\ asked_ < MaxAsked
  /\ \E v \in Askable(api, k) : params' = [params EXCEPT ![k] = v]
  /\ asked_' = asked_ + 1
  /\ UNCHANGED <<api, ladder, envelope>>

---------------------------------------------------------------------------
(* Messages and Responses parameters into chat parameters                  *)

budgetToEffort(b) == CHOOSE r \in 1..(High + 1) : /\ r > High \/ b <= BudgetTops[r]
                                                 /\ \A q \in 1..(r - 1) : b > BudgetTops[q]

anthropicThinkingToEffort(p) ==
  CASE p.thinking = "enabled" /\ p.budget > 0 -> budgetToEffort(p.budget)
    [] p.thinking = "enabled" /\ p.budget = 0 -> High
    [] p.thinking = "adaptive" -> High
    [] OTHER -> 0

\* output_config.effort wins; the thinking block itself does not travel on
anthropicToChatParams(p) ==
  [p EXCEPT !.effort = IF @ = 0 THEN anthropicThinkingToEffort(p) ELSE @, !.thinking = "absent", !.budget = 0]

AnthropicRefuses(p) == p.tools = "builtin"

\* the model key does not travel on: neither does an effort in its name
responsesToChatParams(p) ==
  [p EXCEPT !.effort = IF p.thinking = "disabled" THEN 0 ELSE @, !.thinking = "absent", !.suffix = 0]

ResponsesRefuses(p) == p.state # "absent" \/ p.tools = "builtin" \/ p.choice = "builtin"

---------------------------------------------------------------------------
(* normalizeReasoning *)

ExtractReasoningEffort(p) ==
  CASE p.effort # 0 -> p.effort
    [] p.effort = 0 /\ p.budget > 0 -> budgetToEffort(p.budget)
    [] p.effort = 0 /\ p.budget = 0 /\ p.thinking # "absent" -> IF p.thinking = "disabled" THEN 0 ELSE Odd
    [] OTHER -> p.suffix

clampUp(wanted, allowed) ==
  CASE wanted = Odd -> High
    [] wanted # Odd /\ (\E r \in allowed : r >= wanted) -> Min({r \in allowed : r >= wanted})
    [] OTHER -> Max(allowed)

\* down to the nearest allowed rung, up to the least when all are above
clampReasoningEffort(wanted, allowed) ==
  CASE wanted = Odd -> High
    [] wanted # Odd /\ (\E r \in allowed : r <= wanted) -> Max({r \in allowed : r <= wanted})
    [] OTHER -> Min(allowed)

Mediumless == Medium \notin ladder /\ High \in ladder /\ Cardinality(ladder) > 1

normalizeReasoning(p) ==
  LET wanted == ExtractReasoningEffort(p)
  IN  CASE p.thinking = "disabled" \/ wanted = 0 -> 0
        [] p.thinking # "disabled" /\ wanted = Medium /\ Mediumless -> High
        [] OTHER -> clampReasoningEffort(wanted, ladder)

\* legacy functions and function_call stand in for tools and tool_choice
Tools(p) == IF p.tools = "absent" /\ p.functions # "absent" THEN "function" ELSE p.tools
Choice(p) == IF p.choice = "absent" /\ p.functions = "tool" THEN "tool" ELSE p.choice

NormalizeRequestOpts(p) ==
  [is |-> "sent", effort |-> normalizeReasoning(p), tools |-> Tools(p), choice |-> Choice(p), format |-> p.format]

Translated ==
  CASE api = "chat" -> params
    [] api = "messages" -> anthropicToChatParams(params)
    [] api = "responses" -> responsesToChatParams(params)

Refuses == (api = "messages" /\ AnthropicRefuses(params)) \/ (api = "responses" /\ ResponsesRefuses(params))

Send_ ==
  /\ envelope = Unsent
  /\ envelope' = IF Refuses THEN Refusal ELSE NormalizeRequestOpts(Translated)
  /\ UNCHANGED <<api, ladder, params, asked_>>

EnvelopeNext == (\E k \in DOMAIN Plain : Ask_(k)) \/ Send_

EnvelopeSpec == EnvelopeInit /\ [][EnvelopeNext]_envelopeVars

---------------------------------------------------------------------------
(* Properties *)

Accepted_ == envelope \notin {Unsent, Refusal}
Off_ == params.thinking = "disabled"

\* The effort that reaches the upstream is one the model allows (or the fallback), and no more
\* than the client asked for wherever it asked for a rung, unless the model has nothing less or
\* "medium" is made "high" on a ladder without it; a client that turned thinking off and named no
\* effort gets none.  Nothing the gateway cannot do is accepted, and the tools, the pinned tool and
\* the output format it accepts all arrive (anthropicToChatParams, responsesToChatParams,
\* normalizeReasoning, NormalizeRequestOpts).
EnvelopeHonest ==
  Accepted_ =>
    LET e == envelope.effort
        named == IF api = "chat" /\ params.effort = 0 /\ params.budget > 0 THEN budgetToEffort(params.budget)
                 ELSE params.effort
    IN  /\ e \in ladder \cup {0, High}
        /\ named \in 1..Rungs /\ e > named => e = Min(ladder) \/ (named = Medium /\ e = High)
        /\ named \in 1..Rungs /\ ~Off_ => e # 0 /\ \A r \in ladder : r <= named => r <= e
        /\ Off_ /\ api # "messages" => e = 0
        /\ Off_ /\ params.effort = 0 /\ params.suffix = 0 => e = 0
        /\ params.state = "absent" /\ params.tools # "builtin" /\ params.choice # "builtin"
        /\ params.tools = "function" => envelope.tools = "function"
        /\ params.functions # "absent" => envelope.tools = "function"
        /\ params.choice # "absent" => envelope.choice = params.choice
        /\ envelope.format = params.format

\* "A client that explicitly disables thinking ... must win even when reasoning_effort is also present"
\* (effort.go): on every wire.
DisabledWins == Accepted_ /\ Off_ => envelope.effort = 0
===========================================================================
