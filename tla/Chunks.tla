------------------------------- MODULE Chunks ------------------------------
(***************************************************************************)
(* convert's SanitizeChunk: what one chunk of the upstream's stream looks  *)
(* like when it is relayed.                                                *)
(*                                                                         *)
(* The upstream starts from a chunk in the wanted shape and departs from   *)
(* it in up to MaxQuirks places; then the chunk is sanitised, or relayed   *)
(* as it came when nothing seems to need it.  A key's value is a class:    *)
(* "own" what the upstream sent, "null", "none" when the key is absent,    *)
(* "given" what the proxy made up, "cut" a fraction made an integer.       *)
(***************************************************************************)
EXTENDS Naturals, Sequences, Positions

CONSTANTS MaxQuirks    \* how many places of a chunk may be off

VARIABLES
  chunk,     \* what the upstream sends
  quirks,    \* how often it has been changed
  relayed    \* the chunk relayed, Dropped, or NotYet

chunkVars == <<chunk, quirks, relayed>>

NotYet == [is |-> "not yet"]
Dropped == [is |-> "dropped"]

PlainDelta == [is |-> "delta", content |-> "own", reasoning_content |-> "none", reasoning |-> "none"]
NoDelta == [is |-> "none"]
PlainChoice == [index |-> "own", delta |-> PlainDelta, finish_reason |-> "null", logprobs |-> "none", other |-> "none"]
PlainChunk == [is |-> "chunk", error |-> "none", id |-> "own", object |-> "own", created |-> "own", model |-> "own",
               system_fingerprint |-> "none", service_tier |-> "none", usage |-> "none", other |-> "none",
               array |-> "own", choices |-> <<PlainChoice>>]
ScrapChoice == [PlainChoice EXCEPT !.other = "scrap"]    \* an entry of choices that is no object

Off(k) ==
  CASE k = "error" -> {"null", "text", "bare", "whole"}
    [] k \in {"id", "model", "array"} -> {"none"}   \* array: choices is no array
    [] k = "object" -> {"none", "another"}
    [] k \in {"created", "index"} -> {"none", "fraction"}
    [] k = "system_fingerprint" -> {"own", "empty"}
    [] k \in {"service_tier", "usage", "logprobs"} -> {"own", "null"}
    [] k = "other" -> {"own"}
    [] k = "finish_reason" -> {"none", "own"}
    [] k = "content" -> {"null", "none"}
    [] k \in {"reasoning", "reasoning_content"} -> {"own", "another", "empty", "bad"}
    [] k = "delta" -> {NoDelta}
    [] k = "choices" -> {<< >>, <<ScrapChoice>>, <<ScrapChoice, PlainChoice>>}

ChunkKeys == DOMAIN PlainChunk \ {"is"}
ChoiceKeys == DOMAIN PlainChoice
DeltaKeys == DOMAIN PlainDelta \ {"is"}

ChunksInit == chunk = PlainChunk /\ quirks = 0 /\ relayed = NotYet

Quirk ==
  /\ relayed = NotYet /\ quirks < MaxQuirks
  /\ quirks' = quirks + 1
  /\ UNCHANGED relayed

ChunkOff(k) == Quirk /\ \E v \in Off(k) : chunk' = [chunk EXCEPT ![k] = v]

ChunkChoices(c) == IF c.array = "none" THEN << >> ELSE c.choices
Listed(c) ==    \* choicesOf
  Picked(ChunkChoices(c), {i \in DOMAIN ChunkChoices(c) : ChunkChoices(c)[i].other # "scrap"})
HasDelta(choice) == choice.delta.is = "delta"

ChoiceOff(k) ==
  /\ Listed(chunk) # << >> /\ Listed(chunk) = ChunkChoices(chunk)
  /\ Quirk
  /\ \E v \in Off(k) : chunk' = [chunk EXCEPT !.choices[1][k] = v]

DeltaOff(k) ==
  /\ Listed(chunk) # << >> /\ Listed(chunk) = ChunkChoices(chunk) /\ HasDelta(chunk.choices[1])
  /\ Quirk
  /\ \E v \in Off(k) : chunk' = [chunk EXCEPT !.choices[1].delta[k] = v]

---------------------------------------------------------------------------
(* sanitizeChunk *)

Ensured(v) == CASE v = "none" -> "given" [] v = "fraction" -> "cut" [] OTHER -> v
Kept(v) == IF v \in {"null", "empty", "bad"} THEN "none" ELSE v

\* the reasoning of a delta: reasoning_content first, under both keys, none when empty or no string
Reasoning(d) ==
  IF Kept(d.reasoning_content) # "none" THEN d.reasoning_content ELSE Kept(d.reasoning)

FoldedInto(d, folding) == IF folding /\ Reasoning(d) # "none" THEN "folded" ELSE Kept(d.content)

CleanDelta(choice, folding) ==
  LET d == IF HasDelta(choice) THEN choice.delta ELSE [PlainDelta EXCEPT !.content = "none"]
  IN  [is |-> "delta", content |-> FoldedInto(d, folding), reasoning_content |-> Reasoning(d), reasoning |-> Reasoning(d)]

CleanChoice(choice, folding) ==
  [index |-> Ensured(choice.index), delta |-> CleanDelta(choice, folding),
   finish_reason |-> IF choice.finish_reason = "none" THEN "null" ELSE choice.finish_reason,
   logprobs |-> Kept(choice.logprobs), other |-> "none"]

IsError(c) == c.error \notin {"none", "null"}

\* an error chunk keeps its identity and its error, the message and the type ensured
CleanError(c) ==
  [PlainChunk EXCEPT !.error = IF c.error = "bare" THEN "given" ELSE c.error,
                     !.id = c.id, !.object = c.object, !.model = c.model,
                     !.created = IF c.created = "fraction" THEN "cut" ELSE c.created, !.array = "none", !.choices = << >>]

CleanChunk(c, folding) ==
  [c EXCEPT !.error = "none", !.id = Ensured(@), !.object = Ensured(@), !.created = Ensured(@), !.model = Ensured(@),
            !.system_fingerprint = Kept(@), !.service_tier = Kept(@), !.usage = Kept(@), !.other = "none", !.array = "own",
            !.choices = [i \in DOMAIN Listed(c) |-> CleanChoice(Listed(c)[i], folding)]]

Empty_(c) == Listed(c) = << >> /\ c.usage \in {"none", "null"}

sanitizeChunk(c, folding) ==
  CASE IsError(c) -> CleanError(c)
    [] ~IsError(c) /\ Empty_(c) -> Dropped
    [] OTHER -> CleanChunk(c, folding)

\* needsSanitize, for one choice
DeltaOffShape(d) ==
  \/ d.content = "null"
  \/ d.reasoning_content = "bad" \/ d.reasoning = "bad"
  \/ (d.reasoning_content = "none") # (d.reasoning = "none")

ChoiceOffShapeButFinish(x) ==
  \/ x.other # "none" \/ x.index # "own" \/ x.logprobs = "null"
  \/ ~HasDelta(x) \/ DeltaOffShape(x.delta)

ChoiceOffShape(x) ==
  \/ x.other # "none"
  \/ x.index # "own"
  \/ ~HasDelta(x) \/ DeltaOffShape(x.delta)
  \/ x.finish_reason = "none"
  \/ x.logprobs = "null"

needsSanitize(c) ==
  \/ c.error # "none"
  \/ c.id # "own" \/ c.object # "own" \/ c.created # "own" \/ c.model # "own"
  \/ c.array = "none"
  \/ c.usage = "null" \/ (ChunkChoices(c) = << >> /\ c.usage = "none")
  \/ c.system_fingerprint = "empty"
  \/ c.other # "none"
  \/ \E i \in DOMAIN ChunkChoices(c) : ChoiceOffShape(ChunkChoices(c)[i])

\* SanitizeChunkOpts; folding is REASONING_IN_CONTENT
SanitizeChunkOpts(folding) ==
  /\ relayed = NotYet
  /\ relayed' = IF ~folding /\ ~needsSanitize(chunk) THEN chunk ELSE sanitizeChunk(chunk, folding)
  /\ UNCHANGED <<chunk, quirks>>

ChunksNext ==
  \/ \E k \in ChunkKeys : ChunkOff(k)
  \/ \E k \in ChoiceKeys : ChoiceOff(k)
  \/ \E k \in DeltaKeys : DeltaOff(k)
  \/ \E folding \in BOOLEAN : SanitizeChunkOpts(folding)

ChunksSpec == ChunksInit /\ [][ChunksNext]_chunkVars

---------------------------------------------------------------------------
(* Properties *)

Sent_ == relayed \notin {NotYet, Dropped}
Spoke(c) == \E i \in DOMAIN Listed(c) : HasDelta(Listed(c)[i]) /\ Listed(c)[i].delta.content = "own"

\* Whichever path a chunk takes and whatever was off about it, the client is handed a chunk in the
\* shape it expects: identified, its choices objects with an index, a delta and a finish_reason, no
\* null where a value is due, the reasoning under both keys or neither; a chunk with text, a finish
\* reason or usage is never dropped, and an error is passed on (SanitizeChunk, needsSanitize).
ChunkInShape ==
  relayed # NotYet =>
    /\ relayed = Dropped => ~Spoke(chunk) /\ chunk.usage # "own" /\ ~IsError(chunk)
    /\ Sent_ /\ IsError(chunk) => relayed.error \in {"given", "text", "whole"}
    /\ Sent_ /\ ~IsError(chunk) =>
         /\ "none" \notin {relayed.id, relayed.object, relayed.created, relayed.model, relayed.array}
         /\ relayed.usage # "null" /\ relayed.other = "none"
         /\ relayed.created # "fraction"
         /\ \A i \in DOMAIN relayed.choices :
              LET x == relayed.choices[i]
              IN  /\ x.other = "none" /\ x.index \notin {"none", "fraction"} /\ x.finish_reason # "none"
                  /\ HasDelta(x) /\ x.logprobs # "null" /\ x.delta.content # "null"
                  /\ x.delta.reasoning = "none" <=> x.delta.reasoning_content = "none"
                  /\ x.delta.reasoning_content # "bad"
         /\ Spoke(chunk) => \E i \in DOMAIN relayed.choices : relayed.choices[i].delta.content \in {"own", "folded"}

\* "needsSanitize reports whether sanitizeChunk would change the decoded chunk in any way" (sse.go).
FastPathFaithful == relayed # NotYet /\ ~needsSanitize(chunk) => sanitizeChunk(chunk, FALSE) = chunk
===========================================================================
