------------------------------ MODULE Convert ------------------------------
(***************************************************************************)
(* The conversation of a request on its way to the upstream: the Messages  *)
(* and Responses histories made into chat messages, the strict gate over   *)
(* the calls they replay, and the compression of long conversations.       *)
(*                                                                         *)
(* A conversation is grown part by part, as a client's own history grows:  *)
(* a Messages turn has a role and parts, a Responses item is a turn of one *)
(* part.  Submit takes it through the handler.  Text is kept only as far   *)
(* as whether there is any.                                                *)
(***************************************************************************)
EXTENDS Naturals, FiniteSets, Sequences, SequencesExt, Positions

CONSTANTS CallIds,     \* ids a client gives its calls
          Cleaned,     \* id -> what sanitizeToolID leaves of it, NoId when nothing
          UseKinds,    \* block types a strict call is replayed under
          Inputs,      \* its input: "object", or "none" when absent
          KeepLasts,   \* values of CompressKeepLast, 0 when compression is off
          MaxParts     \* parts of a conversation

VARIABLES
  endpoint,      \* "messages" or "responses"
  history,  \* the client's turns: [role, shape, parts]
  sent,     \* the chat messages sent upstream
  before,   \* the same before compression
  verdict   \* "open", "sent", or why the handler refused

convertVars == <<endpoint, history, sent, before, verdict>>

NoId == "no id"
Fresh == "a fresh id"
Sizes(h) == FoldLeft(LAMBDA n, t : n + Len(t.parts), 0, h)

Text == [is |-> "text"]
Think == [is |-> "thinking"]
CallOfKinds(kinds, strict, inputs) == [is : kinds, id : CallIds, strict : {strict}, input : inputs]
Uses == {"tool_use", "server_tool_use"}    \* the converter and the gate fold the case of both

ASSUME ConvertAssumption ==
  UseKinds \subseteq Uses /\ "coerced" \notin Inputs /\ KeepLasts \subseteq Nat

CallsIn(parts) == Picked(parts, {i \in DOMAIN parts : parts[i].is \in Uses})
Results(parts) == Picked(parts, {i \in DOMAIN parts : parts[i].is = "tool_result"})
Says(parts) == \E i \in DOMAIN parts : parts[i].is = "text"
Called(h) ==
  {c \in (DOMAIN h) \X (1..MaxParts) : c[2] \in DOMAIN h[c[1]].parts /\ h[c[1]].parts[c[2]].is \in Uses}
UsedIds(h) == {h[c[1]].parts[c[2]].id : c \in Called(h)}

ConvertInit ==
  /\ endpoint \in {"messages", "responses"}
  /\ history = << >> /\ sent = << >> /\ before = << >> /\ verdict = "open"

Grow(h) == verdict = "open" /\ Sizes(h) <= MaxParts /\ history' = h /\ UNCHANGED <<endpoint, sent, before, verdict>>

\* the parts a client may write in a turn of a role; a result answers a call made before
PartsOf(role) ==
  CASE role = "assistant" ->
         {Text, Think} \cup CallOfKinds({"tool_use"}, FALSE, {"none"}) \cup CallOfKinds(UseKinds, TRUE, Inputs)
    [] role = "user" -> {Text} \cup [is : {"tool_result"}, id : UsedIds(history)]
    [] role = "system" -> {Text}

Turn(role, shape) ==
  /\ shape = "string" => role # "system"
  /\ \E p \in PartsOf(role) : Grow(Append(history, [role |-> role, shape |-> shape, parts |-> <<p>>]))
  /\ shape = "string" => Says(Last(history').parts)
  /\ endpoint = "responses" => shape = "parts"

Part ==
  /\ endpoint = "messages" /\ history # << >> /\ Last(history).shape = "parts"
  /\ \E p \in PartsOf(Last(history).role) :
       Grow([history EXCEPT ![Len(history)].parts = Append(@, p)])

---------------------------------------------------------------------------
(* Messages and Responses into chat messages: [role, content, calls, id]   *)

Message(role, content) == [role |-> role, content |-> content, calls |-> << >>, id |-> NoId]
sanitizeToolID(id) == IF Cleaned[id] = NoId THEN Fresh ELSE Cleaned[id]
Reply(id) == [role |-> "tool", content |-> "text", calls |-> << >>, id |-> id]

\* marshalJSONArgs: an absent input becomes an empty object
marshalJSONArgs(input) == IF input = "none" THEN "coerced" ELSE input
CallOf(p, id) == [id |-> id, strict |-> p.strict, args |-> marshalJSONArgs(p.input)]

anthropicUserToOpenAI(t) ==
  LET replies == [i \in DOMAIN Results(t.parts) |-> Reply(sanitizeToolID(Results(t.parts)[i].id))]
  IN  replies \o (IF Says(t.parts) THEN <<Message("user", "text")>> ELSE << >>)

\* a turn whose content is a string has no parts here
anthropicAssistantToOpenAI(t) ==
  LET parts == IF t.shape = "string" THEN << >> ELSE t.parts
      calls == [i \in DOMAIN CallsIn(parts) |-> CallOf(CallsIn(parts)[i], sanitizeToolID(CallsIn(parts)[i].id))]
      content == CASE Says(parts) -> "text"
                   [] ~Says(parts) /\ calls # << >> -> "null"
                   [] OTHER -> "empty"
  IN  <<[Message("assistant", content) EXCEPT !.calls = calls]>>

anthropicMessagesToOpenAI(h) ==
  FlattenSeq([i \in DOMAIN h |->
    CASE h[i].role = "assistant" -> anthropicAssistantToOpenAI(h[i])
      [] h[i].role = "user" -> anthropicUserToOpenAI(h[i])
      [] h[i].role = "system" -> <<Message("system", "text")>>])

\* every call is a turn of its own; reasoning items are skipped
responsesItem(t) ==
  LET p == Head(t.parts)
  IN  CASE p.is \in Uses -> <<[Message("assistant", "null") EXCEPT !.calls = <<CallOf(p, p.id)>>]>>
        [] p.is = "tool_result" -> <<Reply(p.id)>>
        [] p.is = "thinking" -> << >>
        [] p.is = "text" -> <<Message(t.role, "text")>>

responsesInputToMessages(h) == FlattenSeq([i \in DOMAIN h |-> responsesItem(h[i])])

---------------------------------------------------------------------------
(* compressMessages *)

\* tool replies, system messages and the turns that call tools stay
mustKeepPlain(m) == m.role \notin {"user", "assistant"} \/ (m.role = "assistant" /\ m.content = "null")

mustKeepMessage(m) == m.role \notin {"user", "assistant"} \/ (m.role = "assistant" /\ m.calls # << >>)

Marker(n) == [Message("system", "marker") EXCEPT !.calls = <<n>>]

compressMessages(ms, keep) ==
  LET window == Len(ms) - keep
      dropped == {i \in DOMAIN ms : i <= window /\ ~mustKeepMessage(ms[i])}
      first == CHOOSE i \in dropped : \A j \in dropped : i <= j
      marked == [ms EXCEPT ![first] = Marker(Cardinality(dropped))]
  IN  IF keep = 0 \/ Len(ms) <= keep \/ dropped = {} THEN ms
      ELSE Picked(marked, (DOMAIN ms \ dropped) \cup {first})

---------------------------------------------------------------------------
(* The handlers *)

\* validateAnthropicReplayStrictTools, validateResponsesReplayStrictTools
GateExact(p) == p.is = "tool_use" /\ p.strict /\ p.input = "none"

Gate(p) == p.is \in Uses /\ p.strict /\ p.input = "none"

GateHolds(h) ==
  \A i \in DOMAIN h : h[i].role = "assistant" /\ h[i].shape = "parts" =>
    \A j \in DOMAIN h[i].parts : ~Gate(h[i].parts[j])

\* a body that cannot be read or is no object, no messages, no model or one that is not served, a strict
\* tool whose schema is not: the handler answers before it looks at the conversation
Refused ==
  /\ verdict = "open" /\ history # << >>
  /\ verdict' = "refused"
  /\ UNCHANGED <<endpoint, history, sent, before>>

RefusedArguments ==
  /\ verdict = "open" /\ history # << >> /\ ~GateHolds(history)
  /\ verdict' = "invalid_tool_arguments"
  /\ UNCHANGED <<endpoint, history, sent, before>>

Submit(keep) ==
  /\ verdict = "open" /\ history # << >> /\ GateHolds(history)
  /\ before' = IF endpoint = "messages" THEN anthropicMessagesToOpenAI(history) ELSE responsesInputToMessages(history)
  /\ sent' = compressMessages(before', keep)
  /\ verdict' = "sent"
  /\ UNCHANGED <<endpoint, history>>

ConvertNext ==
  \/ \E role \in {"assistant", "user", "system"}, shape \in {"string", "parts"} : Turn(role, shape)
  \/ Part
  \/ Refused \/ RefusedArguments
  \/ \E keep \in KeepLasts : Submit(keep)

ConvertSpec == ConvertInit /\ [][ConvertNext]_convertVars

---------------------------------------------------------------------------
(* Properties *)

Callers(ms, i) == {j \in 1..(i - 1) : \E k \in DOMAIN ms[j].calls : ms[j].role = "assistant" /\ ms[j].calls[k].id = ms[i].id}
Replies(ms) == {i \in DOMAIN ms : ms[i].role = "tool" /\ ms[i].id # Fresh}

\* the client answers its calls in the very next turn
AnswersAtOnce(h) ==
  \A i \in DOMAIN h : \A j \in DOMAIN h[i].parts : h[i].parts[j].is = "tool_result" =>
    /\ i > 1
    /\ \E k \in DOMAIN h[i - 1].parts : h[i - 1].parts[k] \in
         [is : Uses, id : {h[i].parts[j].id}, strict : BOOLEAN, input : {"object", "none"}]

\* the message the reply at i stands behind, tool replies not counted
Behind(ms, i) == CHOOSE j \in 1..(i - 1) : ms[j].role # "tool" /\ \A k \in (j + 1)..(i - 1) : ms[k].role = "tool"

\* However the ids had to be cleaned and however much of the conversation was compressed away, a
\* reply that crosses to the upstream stands behind the assistant turn that made the call (directly
\* behind it on the Messages wire, when the client answered at once), no reply and no call is lost
\* to the compression, the marker counts what was, and the last message is the client's own
\* (compressMessages, mustKeepMessage, sanitizeToolID, anthropicUserToOpenAI).
RepliesLineUp ==
  verdict = "sent" =>
    /\ \A i \in Replies(sent) : Callers(sent, i) # {}
    /\ endpoint = "messages" /\ AnswersAtOnce(history) => \A i \in Replies(sent) : Behind(sent, i) \in Callers(sent, i)
    /\ before # << >> => Last(sent) = Last(before)
    /\ Cardinality(Replies(sent)) = Cardinality(Replies(before))
    /\ \A i \in DOMAIN sent : sent[i].content = "marker" => Len(sent) - 1 + sent[i].calls[1] = Len(before)

\* No call of a tool declared strict crosses with arguments the client never gave it: the gate sees
\* every call the converter replays (validateAnthropicReplayStrictTools against
\* anthropicAssistantToOpenAI, and the Responses pair).
StrictCallsExact ==
  verdict = "sent" =>
    \A i \in DOMAIN sent : sent[i].role = "assistant" =>
      \A k \in DOMAIN sent[i].calls : sent[i].calls[k].strict => sent[i].calls[k].args # "coerced"

\* "text parts -> content" (anthropic.go): what the assistant said reaches the upstream as content.
AssistantTextKept ==
  verdict = "sent" =>
    Cardinality({i \in DOMAIN before : before[i].role = "assistant" /\ before[i].content = "text"})
      = Cardinality({i \in DOMAIN history : history[i].role = "assistant" /\ Says(history[i].parts)})
===========================================================================
