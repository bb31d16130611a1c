------------------------------- MODULE Client -------------------------------
(***************************************************************************)
(* The upstream client: every call of the proxy to the upstream goes       *)
(* through do, which repeats a request after a transport failure and       *)
(* classifies a refusal exactly once; the chat call repeats, on the same   *)
(* session, a request the upstream has queued; the control calls read a    *)
(* structured body before they believe the status code.                    *)
(*                                                                         *)
(* A call is one request of the proxy; the upstream is free to answer what *)
(* it likes, and what it has seen of a call is kept in seen.  Headers,     *)
(* payloads and the TLS profile of a connection are left out; the delays   *)
(* of the two kinds of retry are states a call waits in.                   *)
(***************************************************************************)
EXTENDS Integers, FiniteSets

CONSTANTS
  Calls,                 \* the calls a client makes
  Retries,               \* TRANSIENT_RETRIES
  WaitingRoomRetries     \* maxWaitingRoomRetries

ASSUME ClientAssumption ==
  IsFiniteSet(Calls) /\ Retries \in Nat /\ WaitingRoomRetries \in Nat

VARIABLES
  call,    \* call -> where it stands
  seen,    \* call -> what the upstream has seen of it (history)
  meter    \* the counters of the client: retries, queued retries, refusals

clientVars == <<call, seen, meter>>

Ops == {"chat", "admit", "start", "finish", "poll", "probe", "health", "end"}

\* GETs and DELETEs have no replayable body, and are never repeated.
Replayable(op) == op \in {"chat", "admit", "start", "finish"}

(***************************************************************************)
(* What the upstream may answer.  "idle" and "active" are structured       *)
(* answers with status 200, "empty" a 200 without a structure, "encoded"   *)
(* one in an encoding the client cannot undo; the others are refusals,     *)
(* "shaped" being a 429 whose body carries a session status.               *)
(***************************************************************************)
Accepted == {"active", "idle", "empty", "encoded"}
Refusals_ == {"room", "deferred", "limited", "shaped", "missing", "noMethod", "banned", "failed"}

\* The family of refusals the ledger of rate limits counts.
RateLimitFamily == {"deferred", "limited", "shaped"}

NoCall == [pc |-> "none", op |-> "chat", attempt |-> 0, queued |-> 0, rooms |-> 0,
           alive |-> TRUE, answer |-> "none", result |-> "none"]

ClientInit ==
  /\ call = [c \in Calls |-> NoCall]
  /\ seen = [c \in Calls |-> [sent |-> 0, resent |-> 0, rooms |-> 0, limits |-> {}, done |-> 0]]
  /\ meter = [retries |-> 0, queued |-> 0, ledger |-> 0]

Returns(c, r) == call' = [call EXCEPT ![c].pc = "over", ![c].result = r]

newRequest(c, op) ==
  /\ call[c].pc = "none"
  /\ call' = [call EXCEPT ![c] = [NoCall EXCEPT !.pc = "send", !.op = op, !.attempt = 1]]
  /\ UNCHANGED <<seen, meter>>

\* The caller gives up, or the deadline of the call passes.
ContextEnds(c) ==
  /\ call[c].pc \notin {"none", "over"} /\ call[c].alive
  /\ call' = [call EXCEPT ![c].alive = FALSE]
  /\ UNCHANGED <<seen, meter>>

(***************************************************************************)
(* One attempt of do.  seen keeps the numbers of the attempts whose answer *)
(* was a limit, and how many answers were a waiting room or done.          *)
(***************************************************************************)
If(b) == IF b THEN 1 ELSE 0

Sent(c, limited, rooms, done) ==
  seen' = [seen EXCEPT ![c].sent = @ + 1, ![c].rooms = @ + rooms, ![c].done = @ + done,
                       ![c].limits = @ \cup {n \in {seen[c].sent + 1} : limited},
                       ![c].resent = @ + If(call[c].attempt > 1)]

DoAnswered(c, a) ==
  /\ call[c].pc = "send" /\ call[c].alive
  /\ Sent(c, a \in RateLimitFamily, If(a = "room"), If(a \in Accepted))
  /\ IF a = "encoded" THEN Returns(c, "error")
                      ELSE call' = [call EXCEPT ![c].pc = "answered", ![c].answer = a]
  /\ meter' = [meter EXCEPT !.ledger = @ + If(a \in RateLimitFamily)]

isTransientFailure(c) ==
  /\ call[c].attempt <= Retries
  /\ call[c].alive
  /\ Replayable(call[c].op)

(***************************************************************************)
(* The connection fails.  Only failures that carry one of the transient    *)
(* markers are repeated; "connection reset" and "unexpected EOF" are among *)
(* them, and can come after the upstream has done the work (processed).    *)
(***************************************************************************)
DoBroken(c, transient, processed) ==
  /\ call[c].pc = "send"
  /\ processed => transient /\ call[c].alive
  /\ Sent(c, FALSE, 0, If(processed))
  /\ IF transient /\ isTransientFailure(c)
       THEN /\ call' = [call EXCEPT ![c].pc = "backoff"]
            /\ meter' = [meter EXCEPT !.retries = @ + 1]
       ELSE /\ Returns(c, IF call[c].alive THEN "error" ELSE "context")
            /\ UNCHANGED meter

retryDelay(c) ==
  /\ call[c].pc = "backoff"
  /\ IF call[c].alive
       THEN call' = [call EXCEPT ![c].pc = "send", ![c].attempt = @ + 1]
       ELSE Returns(c, "context")
  /\ UNCHANGED <<seen, meter>>

(***************************************************************************)
(* The chat call.  The queue of the upstream is waited for on the same     *)
(* session: a waiting room once, a deferral as often as the budget lasts.  *)
(***************************************************************************)
Queued(a) == a \in {"room", "deferred"}

mayQueueUncapped(c) ==      \* mutant: the waiting room keeps the whole budget
  /\ Queued(call[c].answer)
  /\ call[c].queued < Retries

mayQueue(c) ==
  /\ Queued(call[c].answer)
  /\ call[c].answer = "room" => call[c].rooms < WaitingRoomRetries
  /\ call[c].queued < Retries

ChatQueues(c) ==
  /\ call[c].pc = "answered" /\ call[c].op = "chat" /\ mayQueue(c)
  /\ call' = [call EXCEPT ![c].pc = "hold", ![c].queued = @ + 1,
                          ![c].rooms = @ + If(call[c].answer = "room")]
  /\ meter' = [meter EXCEPT !.queued = @ + 1]
  /\ UNCHANGED seen

\* The honoured window is over: a new request, with a budget of do of its own.
ChatRepeats(c) ==
  /\ call[c].pc = "hold"
  /\ call' = [call EXCEPT ![c].pc = "send", ![c].attempt = 1]
  /\ UNCHANGED <<seen, meter>>

ChatAborts(c) ==
  /\ call[c].pc = "hold" /\ ~call[c].alive
  /\ Returns(c, "context")
  /\ UNCHANGED <<seen, meter>>

ChatReturns(c) ==
  /\ call[c].pc = "answered" /\ call[c].op = "chat" /\ ~mayQueue(c)
  /\ Returns(c, IF call[c].answer \in Accepted THEN "stream" ELSE "refused")
  /\ UNCHANGED <<seen, meter>>

(***************************************************************************)
(* The session calls.  parseSessionResponse prefers a structured body over *)
(* the classified error; an admission answered 404 or 405 fails closed; a  *)
(* poll answered 404 has ended.  It classifies with the pure matrix: the   *)
(* ledger has counted the refusal in do.                                   *)
(***************************************************************************)
parseSessionResponse(op, a) ==
  IF a \in {"missing", "noMethod"} /\ op = "admit" THEN "unsupported"
  ELSE IF a = "missing" THEN "ended"
  ELSE IF a \in {"active", "idle", "shaped", "banned"} THEN a
  ELSE IF a = "empty" /\ op = "end" THEN "ended"
  ELSE "error"

CountsAgain(a) == If(a = "limited")   \* mutant: the wrapper that counts is used again

Counts(a) == 0

Parsed(c) ==
  /\ call[c].pc = "answered"
  /\ meter' = [meter EXCEPT !.ledger = @ + Counts(call[c].answer)]
  /\ UNCHANGED seen

sessionCall(c) ==
  /\ call[c].op \in {"admit", "poll"}
  /\ Parsed(c)
  /\ Returns(c, parseSessionResponse(call[c].op, call[c].answer))

\* A token without a session is told apart from a refused one.
ProbeAccount(c) ==
  /\ call[c].op = "probe"
  /\ Parsed(c)
  /\ Returns(c, LET s == parseSessionResponse("probe", call[c].answer)
                IN  IF s \in {"idle", "ended"} THEN "noSession" ELSE s)

probeSession(c) ==
  /\ call[c].op = "health"
  /\ Parsed(c)
  /\ Returns(c, LET s == parseSessionResponse("health", call[c].answer)
                IN  IF s \in {"idle", "ended", "active"} \/ call[c].answer = "deferred" THEN "OK"
                    ELSE IF s = "banned" THEN "BANNED"
                    ELSE IF call[c].answer \in {"limited", "shaped"} THEN "RATE_LIMITED"
                    ELSE "UNKNOWN")

EndSession(c) ==
  /\ call[c].op = "end"
  /\ Parsed(c)
  /\ Returns(c, IF call[c].answer = "missing" THEN "nothing"
                ELSE IF parseSessionResponse("end", call[c].answer) = "error" THEN "refused"
                ELSE "receipt")

\* A registration that ends on the signal of its run is a cancel.
StartRun(c) ==
  /\ call[c].pc = "answered" /\ call[c].op = "start"
  /\ Returns(c, IF call[c].answer \notin Accepted THEN "refused"
                ELSE IF call[c].answer = "active" THEN "run"
                ELSE IF ~call[c].alive THEN "context" ELSE "error")
  /\ UNCHANGED <<seen, meter>>

FinishRun(c) ==
  /\ call[c].pc = "answered" /\ call[c].op = "finish"
  /\ Returns(c, IF call[c].answer \in Accepted THEN "ok" ELSE "refused")
  /\ UNCHANGED <<seen, meter>>

ClientNext ==
  \E c \in Calls :
    \/ \E op \in Ops : newRequest(c, op)
    \/ ContextEnds(c)
    \/ \E a \in Accepted \cup Refusals_ : DoAnswered(c, a)
    \/ \E transient, processed \in BOOLEAN : DoBroken(c, transient, processed)
    \/ retryDelay(c)
    \/ ChatQueues(c) \/ ChatRepeats(c) \/ ChatAborts(c) \/ ChatReturns(c)
    \/ sessionCall(c) \/ ProbeAccount(c) \/ probeSession(c) \/ EndSession(c)
    \/ StartRun(c) \/ FinishRun(c)

ClientSpec == ClientInit /\ [][ClientNext]_clientVars

(***************************************************************************)
(* Properties.                                                             *)
(***************************************************************************)

(* A model without a serving slot is asked at most once more for the same  *)
(* request, whatever TRANSIENT_RETRIES and however the transport retries   *)
(* of do fall between the two answers (repeated 503s got accounts banned); *)
(* and calls that cannot be replayed are sent once.                        *)
AskedSparingly ==
  \A c \in Calls :
    /\ seen[c].rooms <= 1 + WaitingRoomRetries
    /\ seen[c].sent <= (1 + Retries) * (1 + Retries)
    /\ ~Replayable(call[c].op) => seen[c].sent <= 1

(* Every refusal of the rate-limit family is in the ledger once: do counts *)
(* it, and the session calls that read the same answer again do not.       *)
LimitsSeen == UNION {{<<c, n>> : n \in seen[c].limits} : c \in Calls}

LedgerCountsOnce == meter.ledger = Cardinality(LimitsSeen)

(* The client repeats a request as often as it may and no more, and counts *)
(* each refusal once.                                                      *)
RepeatsCounted == AskedSparingly /\ LedgerCountsOnce

(* What client_chat.go:256-258 says of the transport failures it repeats:  *)
(* "the request never reached the application layer, so no upstream        *)
(* quota/credits were burned and nothing was processed".                   *)
NothingProcessedTwice == \A c \in Calls : seen[c].done <= 1
=============================================================================
