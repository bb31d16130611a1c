----------------------------- MODULE Extractor -----------------------------
(***************************************************************************)
(* Tool calls a model writes into its text, taken out of the stream while  *)
(* it arrives in fragments (XMLToolCallExtractor of                        *)
(* convert/accumulator_xml_stream.go), against the extraction from the     *)
(* whole text (convert/accumulator_xml_shapes.go).                         *)
(*                                                                         *)
(* A text is a sequence of atoms: "<" and "call>" or "calls>" are the two  *)
(* halves of an opening tag (a "<" alone is a character), "/call" and      *)
(* "/calls" closing tags, "json" a payload that parses, "w" a word.        *)
(***************************************************************************)
EXTENDS Naturals, Sequences, SequencesExt, FiniteSetsExt

CONSTANTS
  Texts,   \* texts of a model
  Bounds   \* values of maxStreamXMLBuffer

VARIABLES
  whole,     \* the text
  bound,     \* maxStreamXMLBuffer
  cuts,      \* where the fragments fed so far end
  extractor, \* [buf, shape]
  released,  \* what was let through as text
  taken,     \* calls taken out
  flushed

extractorVars == <<whole, bound, cuts, extractor, released, taken, flushed>>

Idle == [buf |-> <<>>, shape |-> "none"]
Closer(kind) == IF kind = "call>" THEN "/call" ELSE "/calls"
Opens(s, p) == p \in 1..(Len(s) - 1) /\ s[p] = "<" /\ s[p + 1] \in {"call>", "calls>"}
Cut(s, from) == SubSeq(s, from, Len(s))

\* findOpener: where the first opening tag begins, 0 for nowhere.
findOpener(s) ==
  LET at == {p \in 1..Len(s) : Opens(s, p)} IN IF at = {} THEN 0 ELSE Min(at)

\* partialOpenerLen: the fragment may end within an opening tag.
partialOpenerLen(s) == IF s # <<>> /\ Last(s) = "<" THEN 1 ELSE 0

\* closerEnd: where the open block closes, 0 for not yet.
closerEnd(x) ==
  LET at == {p \in DOMAIN x.buf : x.buf[p] = Closer(x.shape)} IN IF at = {} THEN 0 ELSE Min(at)

\* The blocks of a text from one position on: the first opening tag with a
\* closing tag of its kind, up to the first such.
RECURSIVE Blocks(_, _)
Blocks(s, from) ==
  LET ends(p) == {q \in (p + 2)..Len(s) : s[q] = Closer(s[p + 1])}
      at == {p \in from..Len(s) : Opens(s, p) /\ ends(p) # {}}
      first == Min(at)
      last == Min(ends(first))
  IN IF at = {} THEN <<>>
     ELSE <<[first |-> first, last |-> last, good |-> SubSeq(s, first + 2, last - 1) = <<"json">>]>>
            \o Blocks(s, last + 1)

\* extractXMLToolCallsBytes: the calls, and the text without any block if there was a call.
extractXMLToolCalls(s) ==
  LET blocks == Blocks(s, 1)
      n == Len(SelectSeq(blocks, LAMBDA b : b.good))
      inside == UNION {b.first..b.last : b \in ToSet(blocks)}
      kept == SetToSortSeq((1..Len(s)) \ inside, <)
  IN [calls |-> n, text |-> IF n = 0 THEN s ELSE [k \in DOMAIN kept |-> s[kept[k]]]]

\* The loop of Feed over what a fragment opens and closes.
RECURSIVE Scan(_, _, _)
Scan(x, rest, out) ==
  LET p == findOpener(rest)
      y == IF x.buf # <<>> THEN [x EXCEPT !.buf = @ \o rest]
           ELSE [buf |-> Cut(rest, p), shape |-> rest[p + 1]]
      before == IF x.buf # <<>> THEN out.text ELSE out.text \o SubSeq(rest, 1, p - 1)
      end == closerEnd(y)
      block == SubSeq(y.buf, 1, end)
      parsed == extractXMLToolCalls(block)
  IN IF x.buf = <<>> /\ p = 0 THEN [out EXCEPT !.x = Idle, !.text = @ \o rest]
     ELSE IF end > 0
       THEN Scan(Idle, Cut(y.buf, end + 1),
                 [out EXCEPT !.text = before \o (IF parsed.calls = 0 THEN block ELSE <<>>),
                             !.calls = @ + parsed.calls])
     ELSE IF Len(y.buf) > bound THEN [out EXCEPT !.x = Idle, !.text = before \o y.buf]
     ELSE [out EXCEPT !.x = y, !.text = before]

Nothing == [x |-> Idle, text |-> <<>>, calls |-> 0]
HoldDrops(s) == [Nothing EXCEPT !.x = [buf |-> <<"<">>, shape |-> "pending"]]
Hold(s) == [Nothing EXCEPT !.x = [buf |-> <<"<">>, shape |-> "pending"], !.text = SubSeq(s, 1, Len(s) - 1)]

FeedUnheld(x, fragment) ==
  IF x.buf = <<>> /\ findOpener(fragment) = 0 THEN [Nothing EXCEPT !.text = fragment]
  ELSE Scan(x, fragment, Nothing)

\* Feed: a fragment that ends within a tag is held until the next one decides.
Feed(x, fragment) ==
  LET s == x.buf \o fragment
      p == findOpener(s)
  IN IF x.shape = "pending"
       THEN IF p > 0 THEN Scan(Idle, Cut(s, p), Nothing)
            ELSE IF partialOpenerLen(s) > 0 THEN Hold(s)
            ELSE [Nothing EXCEPT !.text = s]
     ELSE IF x.buf = <<>> /\ findOpener(fragment) = 0
       THEN IF partialOpenerLen(fragment) > 0 THEN Hold(fragment) ELSE [Nothing EXCEPT !.text = fragment]
     ELSE Scan(x, fragment, Nothing)

\* Flush: the calls within a block that was never closed; tags left over are scrubbed.
Flush(x) ==
  LET parsed == extractXMLToolCalls(x.buf)
      tag(k) == parsed.text[k] \in {"call>", "calls>", "/call", "/calls"}
                  \/ Opens(parsed.text, k)
      kept == SelectSeq([k \in DOMAIN parsed.text |-> <<tag(k), parsed.text[k]>>], LAMBDA a : ~a[1])
  IN [calls |-> parsed.calls,
      text |-> IF parsed.calls > 0 THEN parsed.text ELSE [k \in DOMAIN kept |-> kept[k][2]]]

-----------------------------------------------------------------------------
Fed == IF cuts = <<>> THEN 0 ELSE Last(cuts)

ExtractorInit ==
  /\ whole \in Texts /\ bound \in Bounds
  /\ cuts = <<>> /\ extractor = Idle /\ released = <<>> /\ taken = 0 /\ flushed = FALSE

FeedFragment ==
  /\ ~flushed
  /\ \E end \in (Fed + 1)..Len(whole) :
       LET r == Feed(extractor, SubSeq(whole, Fed + 1, end))
       IN /\ cuts' = Append(cuts, end)
          /\ extractor' = r.x /\ released' = released \o r.text /\ taken' = taken + r.calls
  /\ UNCHANGED <<whole, bound, flushed>>

FlushRest ==
  /\ ~flushed /\ Fed = Len(whole) /\ flushed' = TRUE
  /\ LET r == Flush(extractor)
     IN released' = released \o r.text /\ taken' = taken + r.calls
  /\ extractor' = Idle
  /\ UNCHANGED <<whole, bound, cuts>>

ExtractorNext == FeedFragment \/ FlushRest

ExtractorSpec == ExtractorInit /\ [][ExtractorNext]_extractorVars

-----------------------------------------------------------------------------
Count(s, a) == Len(SelectSeq(s, LAMBDA b : b = a))
FragmentFrom(k) == IF k = 1 THEN 1 ELSE cuts[k - 1] + 1

\* Two cuts the extractor does not see through: a fragment that closes a block
\* and ends within the next tag, and a lone "<" at the end of a fragment before
\* one that opens a block further on.
TagCutAfterBlock ==
  \E k \in 1..(Len(cuts) - 1) : Opens(whole, cuts[k]) /\
    \E p \in FragmentFrom(k)..cuts[k] : whole[p] \in {"/call", "/calls"}
StrayBeforeBlock ==
  \E k \in 1..(Len(cuts) - 1) : whole[cuts[k]] = "<" /\ ~Opens(whole, cuts[k])
    /\ findOpener(SubSeq(whole, cuts[k] + 1, cuts[k + 1])) > 0

\* However the text is cut into fragments, the stream finds the calls that are
\* found in the whole (the parity the package comment claims), unless a block
\* outgrows the buffer or a tag is cut right after a block.
CallsSurvive ==
  flushed /\ Len(whole) <= bound /\ ~TagCutAfterBlock => taken = extractXMLToolCalls(whole).calls

\* What is not released is still held, until the flush, and no call is both taken
\* and released, unless a lone "<" came before a block.
TextAccounted ==
  ~flushed /\ ~StrayBeforeBlock =>
    /\ Count(SubSeq(whole, 1, Fed), "w") = Count(released, "w") + Count(extractor.buf, "w")
    /\ Count(SubSeq(whole, 1, Fed), "json") = Count(released, "json") + Count(extractor.buf, "json") + taken

\* "the next fragment emits or completes it — never silently drops it"
\* (accumulator_xml_stream.go:101-102).
NeverDropped ==
  ~flushed => Count(SubSeq(whole, 1, Fed), "w") = Count(released, "w") + Count(extractor.buf, "w")

\* Of a text with calls in it, every call is taken out and everything else relayed.
TextKept == CallsSurvive /\ TextAccounted
============================================================================
