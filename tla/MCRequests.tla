----------------------------- MODULE MCRequests -----------------------------
(* A request on its way to the upstream and back: the order of the accounts it *)
(* is offered to, its conversion, the names of its tools, its envelope, the    *)
(* attempts of the client, and the chunks of the answer.  A behaviour is of    *)
(* one of them, the others rest.                                               *)
EXTENDS Client, Ordering, ToolNames, Chunks, Convert, Envelope

VARIABLE focus

requestsVars ==
  <<clientVars, orderingVars, toolVars, chunkVars, convertVars, envelopeVars, focus>>

\* A name is its path: the prefixes a client's tools may carry, then the tool.
OfferedDef ==
  {<<"bash">>, <<"execute">>, <<"run">>, <<"Agent">>, <<"mcp", "Agent">>, <<"mcp", "bash">>, <<"web.run">>,
   <<"mcp", "mcp", "Agent">>}
OfficialDef == [n \in {<<"bash">>, <<"execute">>} |-> <<"run">>]
SignaturesDef == {<<"run">>, <<"end_turn">>, <<"decide">>}
HarnessDef == {<<"Agent">>}
UnwireableDef == {<<"web.run">>}
MarksDef == <<"#1", "#2", "#3", "#4", "#5", "#6">>

\* Of the two ids one loses its dot, nothing is left of the other.
CleanedDef == [i \in {"b.", " :"} |-> IF i = "b." THEN "b" ELSE NoId]

\* none | low | medium | high and the like; 512 and its neighbours divide the budgets.
LaddersDef == {{2, 4, 6}, {4}, 1..7, {2, 3, 4, 5, 6}}
TopsDef == <<512, 1024, 8192, 24576>>

RequestsInit ==
  /\ focus \in {"client", "ordering", "names", "chunks", "convert", "envelope"}
  /\ ClientInit /\ OrderingInit /\ ToolNamesInit /\ ChunksInit /\ ConvertInit /\ EnvelopeInit
  /\ focus # "convert" => endpoint = "messages"
  /\ focus # "envelope" => api = "chat" /\ ladder = {4}

RequestsNext ==
  /\ UNCHANGED focus
  /\ \/ focus = "client" /\ ClientNext
        /\ UNCHANGED <<orderingVars, toolVars, chunkVars, convertVars, envelopeVars>>
     \/ focus = "ordering" /\ OrderingNext
        /\ UNCHANGED <<clientVars, toolVars, chunkVars, convertVars, envelopeVars>>
     \/ focus = "names" /\ ToolNamesNext
        /\ UNCHANGED <<clientVars, orderingVars, chunkVars, convertVars, envelopeVars>>
     \/ focus = "chunks" /\ ChunksNext
        /\ UNCHANGED <<clientVars, orderingVars, toolVars, convertVars, envelopeVars>>
     \/ focus = "convert" /\ ConvertNext
        /\ UNCHANGED <<clientVars, orderingVars, toolVars, chunkVars, envelopeVars>>
     \/ focus = "envelope" /\ EnvelopeNext
        /\ UNCHANGED <<clientVars, orderingVars, toolVars, chunkVars, convertVars>>

RequestsSpec == RequestsInit /\ [][RequestsNext]_requestsVars

-----------------------------------------------------------------------------
\* A call of a tool reaches the client under the client's name, every reply of a
\* tool stands behind its call, and a strict call carries the client's arguments.
CallsComeBack == NamesComeBack /\ RepliesLineUp /\ StrictCallsExact

\* What is sent is within what the model allows, what is relayed has the shape of
\* a chunk.
WireHonest == EnvelopeHonest /\ ChunkInShape
=============================================================================
