----------------------------- MODULE MCServer -----------------------------
(* The server's chat path: the engine that serves requests, an answer on its *)
(* way to the client, the calls taken out of a text.  A behaviour is of one  *)
(* of the three, the others rest.                                            *)
EXTENDS Engine, Streams, Extractor

CONSTANTS k1, k2, r3

VARIABLE focus

serverVars == <<engineVars, streamVars, extractorVars, focus>>

Hybrid == [tokens |-> TRUE, bridge |-> TRUE, keys |-> {k1}]
ConfigsDef ==
  {Hybrid, [tokens |-> TRUE, bridge |-> FALSE, keys |-> {k1}], [tokens |-> FALSE, bridge |-> TRUE, keys |-> {}]}

\* Each gate code alone, and the refusals that change the attempt.
AnswersDef ==
  {{<<g.status, {g.code}>>} : g \in GateCodes} \cup
  {{}, {<<400, {"runid not running"}>>, <<404, {"no endpoints"}>>},
   {<<409, {"session_model_mismatch", "rate_limited"}>>, <<410, {"session_expired"}>>},
   {<<409, {"model_ip_limited"}>>}, {<<403, {"banned"}>>, <<429, {"free_mode_capacity_deferred"}>>}}

Chunk == [think |-> FALSE, text |-> "", tools |-> <<>>, fr |-> ""]
Frag(i, name, args) == [idx |-> i, name |-> name, args |-> args]
ChunksDef ==
  {[Chunk EXCEPT !.text = text] : text \in {"word", "xml", "xmlend", "openCall", "openText"}} \cup
  {[Chunk EXCEPT !.fr = fr] : fr \in {"stop", "tool_calls", "length"}} \cup
  {[Chunk EXCEPT !.think = TRUE], [Chunk EXCEPT !.think = TRUE, !.text = "word"]} \cup
  {[Chunk EXCEPT !.tools = tools] :
     tools \in {<<Frag(0, "run", TRUE)>>, <<Frag(0, "", TRUE)>>, <<Frag(0, "end_turn", TRUE)>>,
                <<Frag(1, "run", FALSE)>>, <<Frag(1, "", TRUE), Frag(0, "", TRUE)>>,
                <<Frag(0, "run", TRUE), Frag(1, "end_turn", TRUE)>>}}

CallText == <<"<", "call>", "json", "/call">>
Segments == {<<"w">>, <<"<">>, CallText, <<"<", "calls>">>, <<"<", "call>", "w", "/call">>, <<"/calls">>}
Plain == <<"w", "w", "w">>
TextsDef == {a \o b \o c : a, b, c \in Segments} \cup {a \o <<"<", "w">> \o b : a, b \in Segments}

\* Who is let in, with a service that accepts everything, and what becomes of two
\* requests of one credential when it refuses; of three when a session has expired.
EngineStarts ==
  /\ EngineInit
  /\ \A r \in Requests : request[r].tools \/ request[r].cred = NoCredential
  /\ says # {} => config = Hybrid /\ \A r \in Requests : request[r].cred = k1

EngineSteps ==
  /\ EngineNext
  /\ says # {} => reloads' = reloads
  /\ says # {<<410, {"session_expired"}>>} => request'[r3].pc = "idle"

EngineRests ==
  config = Hybrid /\ says = {} /\ \A r \in Requests : request[r].cred = NoCredential /\ ~request[r].tools

ServerInit ==
  /\ EngineStarts /\ StreamsInit /\ ExtractorInit
  /\ \/ focus = "engine" /\ relay = "openai" /\ whole = Plain /\ bound = 20
     \/ focus = "streams" /\ EngineRests /\ whole = Plain /\ bound = 20
     \/ focus = "extractor" /\ EngineRests /\ relay = "openai"

ServerNext ==
  \/ focus = "engine" /\ EngineSteps /\ UNCHANGED <<streamVars, extractorVars, focus>>
  \/ focus = "streams" /\ StreamsNext /\ UNCHANGED <<engineVars, extractorVars, focus>>
  \/ focus = "extractor" /\ ExtractorNext /\ UNCHANGED <<engineVars, streamVars, focus>>

ServerSpec == ServerInit /\ [][ServerNext]_serverVars

===========================================================================
