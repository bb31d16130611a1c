----------------------------- MODULE ToolNames -----------------------------
(***************************************************************************)
(* convert's ToolMapper: the tools of a request are renamed for the wire   *)
(* and the calls that come back are renamed for the client.                *)
(*                                                                         *)
(* A request's life here: the client offers its tools, NewToolMapper scans *)
(* the body it sent, the normaliser appends end_turn and decide, the tools *)
(* are renamed one by one in the order they were offered, and tool_choice  *)
(* last.  A name is a sequence: <<"mcp">> \o n is n in the MCP namespace   *)
(* and <<"hash">> \o n the legalised name with the digest of n as a tail.  *)
(***************************************************************************)
EXTENDS Naturals, Sequences

CONSTANTS OfferedNames,   \* the names a client may offer
          Official,       \* clientToOfficial: the names that have an official equivalent
          Signatures,     \* officialTools and CustomSignatureToolNames
          Harness,        \* names of foreign harnesses
          Unwireable,     \* names the wire's grammar refuses
          Marks,          \* the numbers a virtual name may carry: the words "#1", "#2" and so on
          MaxTools        \* bound: the tools a client offers

\* Every name has a word, the marks differ, and there are enough for the tools and
\* the two that are appended.
ASSUME ToolNamesAssumption ==
  /\ OfferedNames \subseteq Seq(STRING) \ {<< >>}
  /\ \A n \in DOMAIN Official : Official[n] \in Seq(STRING) \ {<< >>}
  /\ MaxTools \in Nat /\ Marks \in Seq(STRING) /\ Len(Marks) >= MaxTools + 2
  /\ \A i, j \in DOMAIN Marks : Marks[i] = Marks[j] => i = j

VARIABLES
  tools,    \* the request's tools: the names the client gave them
  wire,     \* the names of those already renamed
  pinned,   \* the tool tool_choice names, NoTool without one
  pin,      \* tool_choice on the wire
  toClient, \* upstreamToClient; NoMap when the scan failed
  toWire,   \* clientToUpstream; NoMap when the scan failed
  leg       \* "offer", "rename" or "sent"

toolVars == <<tools, wire, pinned, pin, toClient, toWire, leg>>

NoTool == << >>
NoMap == [n \in {NoTool} |-> NoTool]
Nothing == [n \in {} |-> NoTool]
Bind(m, k, v) == IF m = NoMap THEN m ELSE [n \in DOMAIN m \cup {k} |-> IF n = k THEN v ELSE m[n]]
Unbind(m, k) == [n \in DOMAIN m \ {k} |-> m[n]]

wireToolNameOK(n) == n \notin Unwireable /\ \A i \in DOMAIN Marks : Head(n) # Marks[i]
Namespaced(n) == Head(n) \in {"mcp", "hash"}

wireVirtualName(n) == <<IF wireToolNameOK(n) THEN "mcp" ELSE "hash">> \o n

Numbered(n, i) == <<Marks[i]>> \o n

resolveUpstreamTool(n) ==
  CASE n \in Signatures -> n
    [] n \notin Signatures /\ n \in DOMAIN Official -> Official[n]
    [] n \notin Signatures \cup DOMAIN Official /\ (~wireToolNameOK(n) \/ (n \in Harness /\ ~Namespaced(n))) ->
         wireVirtualName(n)
    [] OTHER -> n

\* what a tool may come back as, when it is renamed and when its name has an official
\* equivalent: NewToolMapper writes it down before anyone has claimed a wire name
Notes(n) == {resolveUpstreamTool(n), IF n \in DOMAIN Official THEN Official[n] ELSE n} \ {n}

\* the first to note a name has it
NewToolMapper(names) ==
  LET offered == {names[i] : i \in DOMAIN names}
      First(k) == CHOOSE i \in DOMAIN names : k \in Notes(names[i]) /\ \A j \in 1..(i - 1) : k \notin Notes(names[j])
  IN  [client |-> [k \in UNION {Notes(n) : n \in offered} |-> names[First(k)]],
       wire |-> [n \in {m \in offered : resolveUpstreamTool(m) # m} |-> resolveUpstreamTool(n)]]

\* map first; the prefix goes only where the request put it
RestoreName(n) ==
  CASE n \in DOMAIN toClient -> toClient[n]
    [] n \notin DOMAIN toClient /\ Len(n) > 1 /\ Head(n) = "mcp" /\ Tail(n) \in DOMAIN toWire
         /\ toWire[Tail(n)] = n -> Tail(n)
    [] OTHER -> n

ToolNamesInit ==
  /\ tools = << >> /\ wire = << >>
  /\ pinned = NoTool /\ pin = NoTool
  /\ toClient = Nothing /\ toWire = Nothing
  /\ leg = "offer"

Offer(n) ==
  /\ leg = "offer" /\ Len(tools) < MaxTools
  /\ tools' = Append(tools, n)
  /\ UNCHANGED <<wire, pinned, pin, toClient, toWire, leg>>

\* a name offered may also be pinned
Pin(n) ==
  /\ leg = "offer" /\ pinned = NoTool /\ n \in {tools[i] : i \in DOMAIN tools}
  /\ pinned' = n
  /\ UNCHANGED <<tools, wire, pin, toClient, toWire, leg>>

Missing(n) == IF \E i \in DOMAIN tools : tools[i] = n THEN << >> ELSE <<n>>

injectEndTurnTool == tools \o Missing(<<"end_turn">>) \o Missing(<<"decide">>)

\* the body is scanned before it is normalised; a tools array the scan cannot decode leaves both maps nil
NormalizeRequestMappedOpts ==
  /\ leg = "offer" /\ tools # << >>
  /\ LET maps == NewToolMapper(tools)
     IN  toClient' = maps.client /\ toWire' = maps.wire
  /\ tools' = injectEndTurnTool
  /\ leg' = "rename"
  /\ UNCHANGED <<wire, pinned, pin>>

ScanFails ==
  /\ leg = "offer" /\ tools # << >>
  /\ toClient' = NoMap /\ toWire' = NoMap
  /\ tools' = injectEndTurnTool
  /\ leg' = "rename"
  /\ UNCHANGED <<wire, pinned, pin>>

Used(n) == \E i \in DOMAIN wire : wire[i] = n
Wanted(n) == IF n \in DOMAIN toWire THEN toWire[n] ELSE resolveUpstreamTool(n)

\* the virtual name of a later claimant, numbered until nobody has it
Virtual(n) ==
  IF ~Used(wireVirtualName(n)) THEN wireVirtualName(n)
  ELSE LET i == CHOOSE k \in 2..(MaxTools + 2) :
                  /\ ~Used(wireVirtualName(Numbered(n, k)))
                  /\ \A j \in 2..(k - 1) : Used(wireVirtualName(Numbered(n, j)))
       IN  wireVirtualName(Numbered(n, i))

\* the reverse map once a tool has a free wire name: a tool that keeps its own name owns it
ClaimKeepsSlot(n, final) == IF n = final THEN toClient ELSE Bind(toClient, final, n)

Claim(n, final) == IF n = final THEN Unbind(toClient, n) ELSE Bind(toClient, final, n)

\* one pass of the loop of ToUpstream
ToUpstream ==
  /\ leg = "rename" /\ Len(wire) < Len(tools)
  /\ LET n == tools[Len(wire) + 1]
         final == Wanted(n)
         virt == Virtual(n)
     IN  \/ /\ Used(final)
            /\ wire' = Append(wire, virt)
            /\ toClient' = Bind(toClient, virt, n) /\ toWire' = Bind(toWire, n, virt)
         \/ /\ ~Used(final)
            /\ wire' = Append(wire, final)
            /\ toClient' = Claim(n, final)
            /\ UNCHANGED toWire
  /\ UNCHANGED <<tools, pinned, pin, leg>>

RenameRequestToolChoice ==
  /\ leg = "rename" /\ Len(wire) = Len(tools)
  /\ pin' = IF pinned = NoTool THEN NoTool ELSE Wanted(pinned)
  /\ leg' = "sent"
  /\ UNCHANGED <<tools, wire, pinned, toClient, toWire>>

ToolNamesNext ==
  \/ \E n \in OfferedNames : Offer(n) \/ Pin(n)
  \/ NormalizeRequestMappedOpts \/ ScanFails
  \/ ToUpstream \/ RenameRequestToolChoice

ToolNamesSpec == ToolNamesInit /\ [][ToolNamesNext]_toolVars

---------------------------------------------------------------------------
(* Properties *)

ScanFailed == toClient = NoMap

OwnNames == \A i \in DOMAIN tools : RestoreName(wire[i]) = tools[i]

\* Whatever the client offers, in whatever order and however often, no two tools share a name on
\* the wire, a call of any of them comes back under the name its owner gave it, and a pinned tool is
\* pinned under a name that comes back as the tool that was pinned (ToUpstream, RestoreName,
\* RenameRequestToolChoice).
NamesComeBack ==
  leg = "sent" =>
    /\ \A i, j \in DOMAIN wire : wire[i] = wire[j] => i = j
    /\ ScanFailed \/ OwnNames
    /\ pinned # NoTool => /\ \E i \in DOMAIN wire : wire[i] = pin
                          /\ ScanFailed \/ RestoreName(pin) = pinned

\* "the client only ever sees its own names" (toolmap_request.go): also when the scan of the body
\* could not decode one of the tools.
OwnNamesOnly == leg = "sent" => OwnNames
===========================================================================
