------------------------------ MODULE Streams ------------------------------
(***************************************************************************)
(* One answer of the model on its way to the client: the three streaming   *)
(* relays (relayStream of server/openai_stream.go, relayAnthropicStream,   *)
(* relayResponsesStream), the pipeline they share (stream_shared.go), and  *)
(* the completion the same chunks make for a client that does not stream   *)
(* (convert/accumulator.go).                                               *)
(*                                                                         *)
(* A chunk carries reasoning or not, a piece of content, fragments of tool *)
(* calls and the finish reason.  An argument is a token that says which    *)
(* call it belongs to.  Content is a word, a whole call written as XML     *)
(* ("xml", "xmlend" for the pseudo-tool), or the start of such a block     *)
(* whose closing tag never comes ("openCall", "openText").                 *)
(***************************************************************************)
EXTENDS Naturals, Sequences, FiniteSets, SequencesExt, FiniteSetsExt, TLC

CONSTANTS
  Chunks,     \* what the upstream may send: [think, text, tools, fr], a tool [idx, name, args: BOOLEAN]
  MaxChunks   \* bound on the chunks of a stream

NoBlock == 99

VARIABLES
  relay,   \* which of the relays serves the client
  got,     \* the chunks received
  trans,   \* the state of the relay
  sent,    \* what the client was sent
  phase    \* live, done, failed, gone

streamVars == <<relay, got, trans, sent, phase>>

Pseudo(name) == name \in {"end_turn", "decide"}
Named(chunk) == {t \in ToSet(chunk.tools) : t.name # ""}

\* A state of a relay with what it has sent.
Send(st, ev) == [st EXCEPT !.out = Append(@, ev)]
Event(e, i, k, args) == [e |-> e, i |-> i, k |-> k, args |-> args]

-----------------------------------------------------------------------------
(* Calls written as XML. *)

\* bumpXMLCallIndex: past the native indexes of the same chunk.
bumpXMLCallIndex(tools, index) == Max({index} \cup {t.idx + 1 : t \in ToSet(tools)})

XMLFragment(index, n) == [idx |-> index, name |-> "run", args |-> <<<<"xml", n>>>>]

\* feedXMLToolCalls: content that is a call becomes a fragment, the open block is withheld.
feedXMLToolCalls(st, chunk, n) ==
  LET found == st.held = "" /\ chunk.text \in {"xml", "xmlend"}
      index == IF found THEN bumpXMLCallIndex(chunk.tools, st.xmlCallIndex) ELSE st.xmlCallIndex
      real == found /\ chunk.text = "xml"
  IN [st |-> [st EXCEPT !.xmlCallIndex = IF real THEN index + 1 ELSE index,
                        !.held = IF @ = "" /\ chunk.text \in {"openCall", "openText"} THEN chunk.text ELSE @],
      chunk |-> [chunk EXCEPT !.text = IF @ = "word" /\ st.held = "" THEN "word" ELSE "",
                              !.tools = IF real THEN Append(@, XMLFragment(index, n)) ELSE @],
      appended |-> real]

\* drainXMLToolCalls: what the extractor still holds at the end of the stream.
drainXMLToolCalls(st, n) ==
  [think |-> FALSE, fr |-> "", text |-> IF st.held = "openText" THEN "word" ELSE "",
   tools |-> IF st.held = "openCall" THEN <<XMLFragment(st.xmlCallIndex, n)>> ELSE <<>>]

Empty(chunk) == ~chunk.think /\ chunk.text = "" /\ chunk.tools = <<>>

-----------------------------------------------------------------------------
(* The pseudo-tool end_turn. *)

\* trackToolCallIndexesInChunk
EndTurnIndexes(st, chunk) == st.endTurn \cup {t.idx : t \in {u \in Named(chunk) : Pseudo(u.name)}}

\* StripEndTurnToolCalls, and the drop of the fragments that continue a stripped call.
StripEndTurnToolCalls(chunk) ==
  LET left == SelectSeq(chunk.tools, LAMBDA t : ~Pseudo(t.name))
  IN [chunk EXCEPT !.tools = left, !.fr = IF left = <<>> /\ @ = "tool_calls" THEN "stop" ELSE @]

dropEndTurnContinuations(chunk, endTurn) ==
  [chunk EXCEPT !.tools = SelectSeq(@, LAMBDA t : t.idx \notin endTurn)]

StripOnly(st, chunk, stripAlways) ==
  LET found == \E t \in Named(chunk) : Pseudo(t.name)
  IN [found |-> found, st |-> [st EXCEPT !.endTurn = EndTurnIndexes(st, chunk)],
      chunk |-> IF stripAlways \/ found THEN StripEndTurnToolCalls(chunk) ELSE chunk]

processEndTurnCalls(st, chunk, stripAlways) ==
  LET strip == StripOnly(st, chunk, stripAlways)
  IN [strip EXCEPT !.chunk = dropEndTurnContinuations(@, strip.st.endTurn)]

-----------------------------------------------------------------------------
(* The OpenAI relay forwards the chunks, rewritten. *)

OpenAIStart == [out |-> <<>>, held |-> "", xmlCallIndex |-> 0, endTurn |-> {}, seenReal |-> FALSE,
                xmlSeen |-> FALSE, role |-> FALSE, last |-> ""]

Frame(st, chunk) ==
  Send([st EXCEPT !.role = TRUE],
       [e |-> "frame", role |-> ~st.role, tools |-> chunk.tools, fr |-> chunk.fr, text |-> chunk.text])

\* chunkRewriter.rewrite
rewrite(st, chunk, n) ==
  LET stripped == processEndTurnCalls(st, chunk, FALSE)
      fed == feedXMLToolCalls(stripped.st, stripped.chunk, n)
      seenReal == st.seenReal \/ \E t \in Named(chunk) : ~Pseudo(t.name)
      xmlSeen == st.xmlSeen \/ fed.appended
      fr1 == IF ~seenReal /\ fed.st.endTurn # {} /\ fed.chunk.fr = "tool_calls" THEN "stop" ELSE fed.chunk.fr
      fr2 == IF xmlSeen /\ fr1 = "stop" THEN "tool_calls" ELSE fr1
  IN Frame([fed.st EXCEPT !.seenReal = seenReal, !.xmlSeen = xmlSeen, !.last = IF fr2 # "" THEN fr2 ELSE @],
           [fed.chunk EXCEPT !.fr = fr2])

emitOnlyFlush(st, n) ==
  LET held == drainXMLToolCalls(st, n) IN IF Empty(held) THEN st ELSE Frame(st, held)

\* emitXMLFlush, with the terminal frame for calls that come after the finish.
emitXMLFlush(st, n) ==
  LET held == drainXMLToolCalls(st, n)
      late == (st.xmlSeen \/ held.tools # <<>>) /\ st.last = "stop" /\ ~st.seenReal
      flushed == Frame(st, held)
  IN IF Empty(held) THEN st
     ELSE IF late THEN Frame(flushed, [held EXCEPT !.tools = <<>>, !.text = "", !.fr = "tool_calls"])
     ELSE flushed

-----------------------------------------------------------------------------
(* The Anthropic relay: content blocks, one after the other. *)

AnthropicStart == [out |-> <<Event("message_start", 0, "", <<>>)>>, held |-> "", xmlCallIndex |-> 0,
                   endTurn |-> {}, think |-> NoBlock, text |-> NoBlock, calls |-> <<>>, next |-> 0,
                   saw |-> FALSE, stop |-> "end_turn"]

\* calls: the tool states in the order of their upstream indexes, [up, index, life, name, args].
CallsOf(st) == SetToSortSeq(ToSet(st.calls), LAMBDA c, d : c.up < d.up)
StopBlock(st, i) == Send(st, Event("stop", i, "", <<>>))

closeThinking(st) ==
  IF st.think = NoBlock THEN st
  ELSE [StopBlock(Send(st, Event("delta", st.think, "signature", <<>>)), st.think) EXCEPT !.think = NoBlock]

closeText(st) == IF st.text = NoBlock THEN st ELSE [StopBlock(st, st.text) EXCEPT !.text = NoBlock]

\* closeOpenToolCalls, closeOtherOpenToolCalls
closeToolCalls(st, but) ==
  LET closing(c) == c.life = "open" /\ c.up \notin but
      stops == SelectSeq(CallsOf(st), closing)
  IN [FoldLeft(LAMBDA s, c : StopBlock(s, c.index), st, stops) EXCEPT
        !.calls = [k \in DOMAIN @ |-> IF closing(@[k]) THEN [@[k] EXCEPT !.life = "closed"] ELSE @[k]]]

StartBlock(st, k, args) ==
  [Send(st, Event("start", st.next, k, args)) EXCEPT !.next = @ + 1]

ensureThinking(st) ==
  IF st.think # NoBlock THEN st
  ELSE [StartBlock(closeToolCalls(closeText(st), {}), "thinking", <<>>) EXCEPT !.think = st.next]

ensureTextOnly(st) ==
  IF st.text # NoBlock THEN st
  ELSE [StartBlock(closeThinking(st), "text", <<>>) EXCEPT !.text = st.next]

ensureText(st) ==
  IF st.text # NoBlock THEN st
  ELSE [StartBlock(closeToolCalls(closeThinking(st), {}), "text", <<>>) EXCEPT !.text = st.next]

\* toolState: the block's index is taken when the call is first seen.
toolState(st, up) ==
  IF \E c \in ToSet(st.calls) : c.up = up THEN st
  ELSE [st EXCEPT !.calls = Append(@, [up |-> up, index |-> st.next, life |-> "new", name |-> "", args |-> <<>>]),
                  !.next = @ + 1]

SetCall(st, up, change) ==
  [st EXCEPT !.calls = [k \in DOMAIN @ |-> IF @[k].up = up THEN change @@ @[k] ELSE @[k]]]
Call(st, up) == CHOOSE c \in ToSet(st.calls) : c.up = up

startedWithout(st, up) ==
  LET c == Call(st, up)
      index == IF c.life = "closed" THEN st.next ELSE c.index
      opened == SetCall([st EXCEPT !.next = IF c.life = "closed" THEN @ + 1 ELSE @], up,
                        [index |-> index, life |-> "open"])
  IN IF c.life = "open" THEN st ELSE Send(opened, Event("start", index, "tool_use", <<>>))

\* ensureStarted: a block that was closed is opened anew, with the arguments so far.
ensureStarted(st, up) ==
  LET c == Call(st, up)
      opened == startedWithout(st, up)
  IN IF c.life = "open" \/ c.args = <<>> THEN opened
     ELSE Send(opened, Event("delta", Call(opened, up).index, "tool_use", c.args))

\* One fragment of a tool call.
ToolFragment(st, t) ==
  LET known == toolState(closeToolCalls(st, {t.idx}), t.idx)
      first == t.name # "" /\ Call(known, t.idx).name = ""
      named == IF first THEN ensureStarted(SetCall(known, t.idx, [name |-> t.name]), t.idx) ELSE known
      open == ensureStarted(named, t.idx)
      grown(s) == SetCall(s, t.idx, [args |-> Call(s, t.idx).args \o t.args])
      relayed == IF t.args = <<>> THEN named
                 ELSE IF Call(named, t.idx).name = "" THEN grown(named)
                 ELSE Send(grown(open), Event("delta", Call(open, t.idx).index, "tool_use", t.args))
  IN IF Pseudo(t.name) THEN [st EXCEPT !.endTurn = @ \cup {t.idx}]
     ELSE IF t.idx \in st.endTurn THEN st
     ELSE [relayed EXCEPT !.saw = TRUE]

\* setStopReason
anthropicStop(fr) ==
  CASE fr = "tool_calls" -> "tool_use" [] fr = "stop" -> "end_turn" [] fr = "length" -> "max_tokens"

accumulateAnthropicChunk(st, chunk) ==
  LET a == IF chunk.fr = "" THEN st ELSE [st EXCEPT !.stop = anthropicStop(chunk.fr)]
      thought == ensureThinking(a)
      b == IF chunk.think THEN Send(thought, Event("delta", thought.think, "thinking", <<>>)) ELSE a
      spoken == ensureText(b)
      c == IF chunk.text # "" THEN Send(spoken, Event("delta", spoken.text, "text", <<>>)) ELSE b
  IN IF chunk.tools = <<>> THEN c ELSE FoldLeft(ToolFragment, closeText(closeThinking(c)), chunk.tools)

\* The reason given at the end follows what was relayed.
StopReason(stop, calls) ==
  IF stop = "end_turn" /\ calls THEN "tool_use" ELSE IF stop = "tool_use" /\ ~calls THEN "end_turn" ELSE stop

finalizeAnthropicStream(st) ==
  LET closed == closeToolCalls(closeText(closeThinking(st)), {})
  IN Send(Send(closed, Event("message_delta", 0, StopReason(st.stop, st.saw), <<>>)),
          Event("message_stop", 0, "", <<>>))

-----------------------------------------------------------------------------
(* The Responses relay: output items, done all together at the end. *)

ResponsesStart == [out |-> <<Event("created", 0, "", <<>>)>>, held |-> "", xmlCallIndex |-> 0,
                   endTurn |-> {}, items |-> <<>>, fr |-> ""]

\* items: [k, up, args]; a message and a reasoning item once each, a call for each upstream index.
ItemOf(st, k, up) == {i \in DOMAIN st.items : st.items[i].k = k /\ st.items[i].up = up}

Added(st, k, up) ==
  IF ItemOf(st, k, up) # {} THEN st
  ELSE Send([st EXCEPT !.items = Append(@, [k |-> k, up |-> up, args |-> <<>>])],
            Event("added", Len(st.items), k, <<>>))

Delta(st, k, up, args) ==
  LET with == Added(st, k, up)
      i == CHOOSE j \in ItemOf(with, k, up) : TRUE
  IN Send([with EXCEPT !.items[i].args = @ \o args], Event("delta", i - 1, k, args))

accumulateResponsesChunk(st, chunk) ==
  LET tool(s, t) == IF t.args = <<>> THEN Added(s, "call", t.idx) ELSE Delta(s, "call", t.idx, t.args)
      a == FoldLeft(tool, IF chunk.fr = "" THEN st ELSE [st EXCEPT !.fr = chunk.fr], chunk.tools)
      b == IF chunk.think THEN Delta(a, "reasoning", 0, <<>>) ELSE a
  IN IF chunk.text # "" THEN Delta(b, "message", 0, <<>>) ELSE b

ItemsDone(st) ==
  FoldLeft(LAMBDA s, i : Send(s, Event("item_done", i - 1, s.items[i].k, s.items[i].args)),
           st, [i \in DOMAIN st.items |-> i])

\* The items are done even if the stream failed.
endResponsesAlways(st, failed) ==
  LET full == ItemsDone(IF st.items = <<>> THEN Added(st, "message", 0) ELSE st)
  IN Send(full, Event(IF failed THEN "failed" ELSE "completed", 0, IF st.fr = "length" THEN "incomplete" ELSE "completed", <<>>))

\* endResponsesStream; an answer without items gets an empty message.
endResponsesStream(st, failed) ==
  LET full == IF st.items = <<>> THEN Added(st, "message", 0) ELSE st
  IN IF failed THEN Send(st, Event("failed", 0, "", <<>>))
     ELSE Send(ItemsDone(full), Event("completed", 0, IF st.fr = "length" THEN "incomplete" ELSE "completed", <<>>))

\* One chunk; one that the pseudo-tool leaves empty is not relayed.
relayResponsesChunk(st, chunk, n) ==
  LET fed == feedXMLToolCalls(st, chunk, n)
      cut == processEndTurnCalls(fed.st, fed.chunk, TRUE)
  IN IF cut.found /\ Empty(cut.chunk) /\ cut.chunk.fr = "" THEN cut.st
     ELSE accumulateResponsesChunk(cut.st, cut.chunk)

-----------------------------------------------------------------------------
(* The same chunks for a client that does not stream. *)

\* Accumulator.Finish: XML calls count only where there is no native one.
Finish(chunks) ==
  LET native == {t.idx : t \in UNION {ToSet(chunks[k].tools) : k \in DOMAIN chunks}}
      nameOf(i) == LET names == SelectSeq(FlattenSeq([k \in DOMAIN chunks |-> chunks[k].tools]),
                                          LAMBDA t : t.idx = i /\ t.name # "")
                   IN IF names = <<>> THEN "" ELSE Last(names).name
      written == {k \in DOMAIN chunks : chunks[k].text \in {"xml", "xmlend"}}
      reasons == SelectSeq([k \in DOMAIN chunks |-> chunks[k].fr], LAMBDA f : f # "")
      calls == IF native # {} THEN {nameOf(i) : i \in native}
               ELSE {IF chunks[k].text = "xml" THEN "run" ELSE "end_turn" : k \in written}
  IN [calls |-> calls, native |-> native # {},
      fr |-> IF reasons # <<>> THEN Last(reasons) ELSE IF calls # {} THEN "tool_calls" ELSE "stop"]

\* anthropicMessageFromCompletionStrict
MessageStop(done) == StopReason(anthropicStop(done.fr), \E name \in done.calls : ~Pseudo(name))

CompletionStopRaw(done) == done.fr

\* The two corrections of relayJSON.
CompletionStop(done) ==
  LET real == \E name \in done.calls : ~Pseudo(name)
  IN CASE ~real /\ done.fr = "tool_calls" -> "stop"
       [] real /\ done.fr = "stop" /\ ~done.native -> "tool_calls"
       [] OTHER -> done.fr

-----------------------------------------------------------------------------
RelayStart(r) == CASE r = "openai" -> OpenAIStart [] r = "anthropic" -> AnthropicStart [] r = "responses" -> ResponsesStart

StreamsInit ==
  /\ relay \in {"openai", "anthropic", "responses"}
  /\ got = <<>> /\ phase = "live"
  /\ trans = [RelayStart(relay) EXCEPT !.out = <<>>] /\ sent = RelayStart(relay).out

\* The state of the relay after a step, and what the step has sent.
Becomes(st) == trans' = [st EXCEPT !.out = <<>>] /\ sent' = sent \o st.out

Flushed(n) == CASE relay = "openai" -> emitXMLFlush(trans, n)
                [] relay = "anthropic" -> accumulateAnthropicChunk(trans, drainXMLToolCalls(trans, n))
                [] relay = "responses" -> accumulateResponsesChunk(trans, drainXMLToolCalls(trans, n))

NamedBy(chunks, i) ==
  {t.name : t \in {u \in UNION {ToSet(chunks[k].tools) : k \in DOMAIN chunks} : u.idx = i /\ u.name # ""}}

\* The upstream keeps to its own protocol: nothing after the finish, which
\* says tool_calls only of a turn with calls, and one name for a call.
ChunkComes(sample) ==
  LET n == Len(got) + 1
      stamp(t) == [t EXCEPT !.args = IF t.args THEN <<<<"native", t.idx, n>>>> ELSE <<>>]
      chunk == [sample EXCEPT !.tools = [k \in DOMAIN @ |-> stamp(@[k])]]
      fed == feedXMLToolCalls(trans, chunk, n)
  IN /\ phase = "live" /\ Len(got) < MaxChunks
     /\ \A k \in DOMAIN got : got[k].fr = ""
     /\ chunk.fr = "tool_calls" => \E k \in DOMAIN got : got[k].tools # <<>>
     /\ \A t \in ToSet(chunk.tools) : Cardinality(NamedBy(Append(got, chunk), t.idx)) < 2
     /\ trans.held # "" => chunk.text \in {"", "word"}
     /\ got' = Append(got, chunk)
     /\ Becomes(CASE relay = "openai" -> rewrite(trans, chunk, n)
                  [] relay = "anthropic" -> accumulateAnthropicChunk(fed.st, fed.chunk)
                  [] relay = "responses" -> relayResponsesChunk(trans, chunk, n))
     /\ UNCHANGED <<relay, phase>>

\* The upstream ends its stream.
StreamEnds ==
  /\ phase = "live" /\ got # <<>> /\ phase' = "done"
  /\ LET st == Flushed(Len(got) + 1)
     IN Becomes(CASE relay = "openai" -> Send(st, [e |-> "DONE"])
                  [] relay = "anthropic" -> finalizeAnthropicStream(st)
                  [] relay = "responses" -> endResponsesStream(st, FALSE))
  /\ UNCHANGED <<relay, got>>

\* The connection to the upstream breaks, or the upstream reports an error in band.
StreamBreaks(inBand) ==
  /\ phase = "live" /\ phase' = "failed"
  /\ LET st == Flushed(Len(got) + 1)
     IN Becomes(CASE relay = "openai" /\ inBand ->
                       Send(emitXMLFlush(Send(trans, [e |-> "error"]), Len(got) + 1), [e |-> "DONE"])
                  [] relay = "openai" /\ ~inBand -> Send(Send(st, [e |-> "error"]), [e |-> "DONE"])
                  [] relay = "anthropic" -> Send(st, Event("error", 0, "", <<>>))
                  [] relay = "responses" -> endResponsesStream(IF inBand THEN trans ELSE st, TRUE))
  /\ UNCHANGED <<relay, got>>

\* The client goes: nothing more is sent.
ReaderGone ==
  /\ phase = "live" /\ phase' = "gone"
  /\ UNCHANGED <<relay, got, trans, sent>>

StreamsNext ==
  \/ \E chunk \in Chunks : ChunkComes(chunk)
  \/ StreamEnds
  \/ \E inBand \in BOOLEAN : StreamBreaks(inBand)
  \/ ReaderGone

StreamsSpec == StreamsInit /\ [][StreamsNext]_streamVars

-----------------------------------------------------------------------------
Events(e) == SelectSeq(sent, LAMBDA ev : ev.e = e)
Native(i) == SelectSeq(FlattenSeq([k \in DOMAIN got |-> got[k].tools]), LAMBDA t : t.idx = i)
Indexes == {t.idx : t \in UNION {ToSet(got[k].tools) : k \in DOMAIN got}}
Ended(i) == \E t \in ToSet(Native(i)) : Pseudo(t.name)
TokensOf(i) == FlattenSeq([k \in DOMAIN Native(i) |-> Native(i)[k].args])
Written == {k \in DOMAIN got : got[k].text \in {"xml", "xmlend", "openCall"}}
Reason == IF got = <<>> THEN "" ELSE Last(got).fr

\* The first fragment of a call names it, as upstreams do.
NamedFirst == \A i \in Indexes : Head(Native(i)).name # ""
Unmixed == Indexes = {} \/ Written = {}

\* What the client was given under one index: arguments of one call, it believes.
Fragments == IF relay = "openai" THEN FlattenSeq([k \in DOMAIN Events("frame") |-> Events("frame")[k].tools]) ELSE <<>>
Given(i) ==
  IF relay = "openai"
    THEN LET own == SelectSeq(Fragments, LAMBDA t : t.idx = i) IN FlattenSeq([k \in DOMAIN own |-> own[k].args])
    ELSE LET own == SelectSeq(Events("delta"), LAMBDA ev : ev.i = i /\ ev.k \in {"tool_use", "call"})
         IN FlattenSeq([k \in DOMAIN own |-> own[k].args])
Slots == 0..(2 * MaxChunks + 3)

\* An Anthropic stream is one block after the other: a block starts when none is
\* open and under an index of its own, its deltas and its stop come while it is
\* open, and none is open when the message ends (issue #171).
BlocksSequential ==
  relay = "anthropic" =>
    LET step(open, ev) ==
          CASE ev.e = "start" /\ open = NoBlock -> ev.i
            [] ev.e = "delta" /\ open = ev.i -> open
            [] ev.e = "stop" /\ open = ev.i -> NoBlock
            [] ev.e \in {"message_delta", "message_stop"} /\ open = NoBlock -> open
            [] ev.e \in {"message_start", "error"} -> open
            [] OTHER -> NoBlock + 1
    IN /\ FoldLeft(step, NoBlock, sent) # NoBlock + 1
       /\ Cardinality({ev.i : ev \in ToSet(Events("start"))}) = Len(Events("start"))

Complete ==
  phase = "done" =>
    /\ \A i \in Indexes : ~Ended(i) /\ TokensOf(i) # <<>> => \E s \in Slots : Given(s) = TokensOf(i)
    /\ \A k \in Written : got[k].text = "xml" => \E s \in Slots : Given(s) = <<<<"xml", k>>>>

\* Every call reaches the client with all its arguments under one index, however
\* its fragments are interleaved with text, with reasoning and with other calls
\* (the replay of ensureStarted, one item for each upstream index).
WholeInput == NamedFirst /\ Unmixed => Complete

\* XML calls get indexes "so they cannot collide with upstream indexes"
\* (anthropic_stream.go:99-103, stream_shared.go:31-32).
CallsKeptApart == NamedFirst => Complete

\* Nothing of the pseudo-tool reaches a client: neither its name nor the
\* arguments that follow in later chunks under its index.
EndTurnHidden ==
  NamedFirst =>
    /\ \A t \in ToSet(Fragments) : ~Pseudo(t.name)
    /\ \A i \in Indexes : Ended(i) => \A s \in Slots : ToSet(Given(s)) \cap ToSet(TokensOf(i)) = {}

LastReason == LET said == SelectSeq(Events("frame"), LAMBDA ev : ev.fr # "") IN IF said = <<>> THEN "" ELSE Last(said).fr

\* The reason a finished stream gives is true of what the client got: a turn with
\* calls says so unless it was cut short, a turn without does not.
FinishHonest ==
  phase = "done" /\ NamedFirst /\ Reason # "" =>
    CASE relay = "anthropic" ->
           LET calls == \E ev \in ToSet(Events("start")) : ev.k = "tool_use"
           IN Last(Events("message_delta")).k =
                IF Reason = "length" THEN "max_tokens" ELSE IF calls THEN "tool_use" ELSE "end_turn"
      [] relay = "openai" ->
           /\ LastReason = "tool_calls" => Fragments # <<>>
           /\ Reason = "length" => LastReason = "length"
           /\ Reason = "stop" /\ Indexes = {} /\ Fragments # <<>> => LastReason = "tool_calls"
      [] relay = "responses" -> (Last(sent).k = "incomplete") <=> (Reason = "length")

\* The stream ends for the same reason as the one completion of the same chunks.
StreamMatchesMessage ==
  phase = "done" /\ NamedFirst /\ Unmixed /\ Reason # "" /\ (\A k \in DOMAIN got : got[k].text \notin {"openCall", "openText"}) =>
    /\ relay = "anthropic" => Last(Events("message_delta")).k = MessageStop(Finish(got))
    /\ relay = "openai" => LastReason = CompletionStop(Finish(got))

\* A Responses stream announces each item once and before its deltas, reports it
\* done once with what the deltas said, and a failed one reports none as done.
ItemsComplete ==
  relay = "responses" =>
    LET added == Events("added")
        done == Events("item_done")
    IN /\ \A k \in DOMAIN added : added[k].i = k - 1
       /\ \A k \in DOMAIN sent : sent[k].e = "delta" => \E j \in 1..(k - 1) : sent[j].e = "added" /\ sent[j].i = sent[k].i
       /\ phase \in {"failed", "gone"} => done = <<>>
       /\ phase = "done" =>
            /\ Len(done) = Len(added) /\ done # <<>>
            /\ \A k \in DOMAIN done : done[k].i = k - 1 /\ (done[k].k = "call" => done[k].args = Given(k - 1))

\* An answer is the one the upstream gave, in the shape the client's protocol
\* wants, however it was cut into chunks.
StreamFaithful ==
  /\ BlocksSequential /\ ItemsComplete /\ WholeInput
  /\ EndTurnHidden /\ FinishHonest /\ StreamMatchesMessage
============================================================================
