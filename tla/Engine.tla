------------------------------ MODULE Engine ------------------------------
(***************************************************************************)
(* The chat engine of the server: the client's credential                  *)
(* (server/middleware_auth.go), the choice between the pool and the bridge *)
(* and the at most three attempts (chatCore of server/engine.go), one      *)
(* attempt (chatAttempt of server/engine_attempt.go) with the waits of the *)
(* upstream client (ChatCompletions of upstream/chat.go).  Requests share  *)
(* the configuration, the run and the session of a lane and the mark of a  *)
(* model the egress cannot serve.                                          *)
(***************************************************************************)
EXTENDS Refusals, FiniteSets

CONSTANTS
  Requests,         \* client requests
  Credentials,      \* credentials a client may present; NoCredential is none
  NoCredential,
  Configs,          \* configurations: [tokens, bridge: BOOLEAN, keys: SUBSET Credentials]
  Answers,          \* what the service may answer, <<status, body>>: a set for each behaviour
  MaxReloads,       \* bound on reloads of the configuration
  TransientRetries, \* TRANSIENT_RETRIES
  MaxLive,          \* bound on runs and sessions begun
  MaxWaits          \* maxWaitingRoomRetries

ASSUME EngineAssumption == IsFiniteSet(Requests) /\ MaxLive \in Nat

Lanes == {"pool", "bridge"}
Ids == 1..MaxLive

VARIABLES
  config,    \* the live configuration
  reloads,   \* how often it was reloaded
  says,      \* what the service may answer
  request,   \* the requests
  activeRun, \* the lane's run that new leases take, 0 for none
  instance,  \* the lane's cached session, 0 for none
  begun,     \* runs and sessions begun so far
  riders,    \* leases on a run
  outcome,   \* what is known of a run: live, dropped, cancelled, failed
  unfitAt,   \* when the mark of the model was made, 0 for none
  clock      \* orders acquisitions and marks

engineVars == <<config, reloads, says, request, activeRun, instance, begun, riders, outcome, unfitAt, clock>>

NoLease == [run |-> 0, instance |-> 0, at |-> 0]

Blank(cred, tools) ==
  [pc |-> "idle", cred |-> cred, tools |-> tools, view |-> 0, lane |-> "pool", lease |-> NoLease,
   stage |-> 1, queued |-> 0, rooms |-> 0, gone |-> FALSE, error |-> "none", answer |-> "none", ran |-> 0, got |-> <<>>]

EngineInit ==
  /\ config \in Configs /\ reloads = 0 /\ says \in Answers
  /\ request \in [Requests -> {Blank(c, t) : c \in Credentials \cup {NoCredential}, t \in BOOLEAN}]
  /\ activeRun = [l \in Lanes |-> 0] /\ instance = [l \in Lanes |-> 0]
  /\ begun = [run |-> 0, instance |-> 0]
  /\ riders = [u \in Ids |-> 0] /\ outcome = [u \in Ids |-> "live"]
  /\ unfitAt = 0 /\ clock = 1

settings == <<config, reloads, says>>
poolState == <<activeRun, instance, begun, riders, outcome, unfitAt, clock>>

\* A request that has been answered is remembered by its outcome alone.
End(r, answer) ==
  request' = [request EXCEPT ![r] = [Blank(NoCredential, FALSE) EXCEPT
    !.pc = "done", !.answer = answer, !.error = request[r].error, !.ran = request[r].ran]]

Update(r, q) == request' = [request EXCEPT ![r] = q]

BridgeMode(c) == ~c.tokens
HybridBridgeMode(c) == c.tokens /\ c.bridge
authorized(c, cred) == cred # NoCredential /\ cred \in c.keys

\* A reload of the configuration, between any two steps of a request.
ReloadConfig ==
  /\ reloads < MaxReloads /\ reloads' = reloads + 1
  /\ \E c \in Configs \ {config} : config' = c
  /\ UNCHANGED <<says, request, poolState>>

\* The auth wrapper: it pins the configuration it decides with.
requireAuth(r) ==
  /\ request[r].pc = "idle"
  /\ LET pass == config.keys = {} \/ BridgeMode(config) \/ HybridBridgeMode(config)
                   \/ authorized(config, request[r].cred)
     IN IF pass THEN Update(r, [request[r] EXCEPT !.pc = "route", !.view = config]) ELSE End(r, "invalid_api_key")
  /\ UNCHANGED <<settings, poolState>>

RouteBy(r, c) ==
  LET cred == request[r].cred
      lacking == cred = NoCredential /\ (BridgeMode(c) \/ (HybridBridgeMode(c) /\ c.keys # {}))
      foreign == HybridBridgeMode(c) /\ cred # NoCredential /\ c.keys # {} /\ ~authorized(c, cred)
  IN /\ request[r].pc = "route"
     /\ IF lacking
          THEN End(r, "missing_bearer_token")
          ELSE Update(r, [request[r] EXCEPT !.pc = "acquire",
                            !.lane = IF BridgeMode(c) \/ foreign THEN "bridge" ELSE "pool"])
     /\ UNCHANGED <<settings, poolState>>

RouteLive(r) == RouteBy(r, config)

\* chatCore chooses the lane from the pinned configuration.
Route(r) == RouteBy(r, request[r].view)

\* The pool lends the lane's run and session, or begins them.
AcquireLease(r) ==
  LET l == request[r].lane
      newRun == activeRun[l] = 0
      newSession == instance[l] = 0
      u == IF newRun THEN begun.run + 1 ELSE activeRun[l]
      i == IF newSession THEN begun.instance + 1 ELSE instance[l]
  IN /\ request[r].pc = "acquire" /\ ~request[r].gone
     /\ u \in Ids /\ i \in Ids
     /\ activeRun' = [activeRun EXCEPT ![l] = u]
     /\ instance' = [instance EXCEPT ![l] = i]
     /\ begun' = [run |-> IF newRun THEN u ELSE begun.run,
                  instance |-> IF newSession THEN i ELSE begun.instance]
     /\ riders' = [riders EXCEPT ![u] = @ + 1]
     /\ clock' = clock + 1
     /\ Update(r, [request[r] EXCEPT !.pc = "chat", !.lease = [run |-> u, instance |-> i, at |-> clock'],
                                      !.queued = 0, !.rooms = 0, !.ran = u])
     /\ UNCHANGED <<settings, outcome, unfitAt>>

\* Nothing to lend, or the client left: chatAttempt returns without a lease.
AcquireRefused(r) ==
  /\ request[r].pc = "acquire"
  /\ Update(r, [request[r] EXCEPT !.pc = "decide", !.error = IF request[r].gone THEN "Canceled" ELSE "RateLimit"])
  /\ UNCHANGED <<settings, poolState>>

ClearAlways(at) == unfitAt' = 0

\* A success clears the mark of the model unless the mark is younger than the lease.
ClearModelUnfitBefore(at) == unfitAt' = IF unfitAt <= at THEN 0 ELSE unfitAt

\* The chat is accepted: the lease passes to chatCore.
ChatServed(r) ==
  /\ request[r].pc = "chat" /\ ~request[r].gone
  /\ ClearModelUnfitBefore(request[r].lease.at)
  /\ Update(r, [request[r] EXCEPT !.pc = "relay", !.error = "none"])
  /\ UNCHANGED <<settings, activeRun, instance, begun, riders, outcome, clock>>

\* A queue is waited out on the same lease, within the budgets.
ChatQueued(r) ==
  \E a \in says :
    LET class == classifyError(a[1], a[2])
        room == isWaitingRoom(class)
    IN /\ request[r].pc = "chat" /\ ~request[r].gone
       /\ room \/ isCapacityDeferred(class)
       /\ room => request[r].rooms < MaxWaits
       /\ request[r].queued < TransientRetries
       /\ Update(r, [request[r] EXCEPT !.queued = @ + 1, !.rooms = @ + (IF room THEN 1 ELSE 0)])
       /\ UNCHANGED <<settings, poolState>>

\* The chat is refused for good: what is done about it before the lease goes back.
ChatRefused(r) ==
  /\ request[r].pc = "chat"
  /\ \/ \E a \in says :
          LET class == classifyError(a[1], a[2])
              room == isWaitingRoom(class)
          IN /\ ~request[r].gone
             /\ room \/ isCapacityDeferred(class) =>
                  request[r].queued >= TransientRetries \/ (room /\ request[r].rooms >= MaxWaits)
             /\ Update(r, [request[r] EXCEPT !.pc = "release", !.error = class, !.got = a])
             /\ IF Reaction(class) = "unfit"
                  THEN clock' = clock + 1 /\ unfitAt' = clock'
                  ELSE UNCHANGED <<clock, unfitAt>>
     \/ /\ Update(r, [request[r] EXCEPT !.pc = "release", !.error = IF request[r].gone THEN "Canceled" ELSE "Transport"])
        /\ UNCHANGED <<clock, unfitAt>>
  /\ UNCHANGED <<settings, activeRun, instance, begun, riders, outcome>>

\* The lease goes back; of a client that left, the last lease on a run ends it.
GiveBack(r) ==
  LET u == request[r].lease.run
      l == request[r].lane
      last == request[r].gone /\ riders[u] = 1
  IN /\ riders' = [riders EXCEPT ![u] = @ - 1]
     /\ activeRun' = IF last /\ activeRun[l] = u THEN [activeRun EXCEPT ![l] = 0] ELSE activeRun
     /\ outcome' = IF last /\ outcome[u] = "live" THEN [outcome EXCEPT ![u] = "cancelled"] ELSE outcome

\* release of a refused attempt, before the caches are invalidated.
Release(r) ==
  /\ request[r].pc = "release"
  /\ GiveBack(r)
  /\ Update(r, [request[r] EXCEPT !.pc = "invalidate"])
  /\ UNCHANGED <<settings, instance, begun, unfitAt, clock>>

InvalidateCached(l, i) == instance' = [instance EXCEPT ![l] = 0]

\* The cached session is dropped only if it is still the lease's own.
InvalidateInstance(l, i) == instance' = [instance EXCEPT ![l] = IF @ = i THEN 0 ELSE @]

\* The dead session or run is forgotten; the lease is nil from here on.
Invalidate(r) ==
  LET l == request[r].lane
      does == Reaction(request[r].error)
  IN /\ request[r].pc = "invalidate"
     /\ IF does \in {"session", "superseded"}
          THEN InvalidateInstance(l, request[r].lease.instance)
          ELSE UNCHANGED instance
     /\ IF does = "run" /\ activeRun[l] # 0
          THEN /\ activeRun' = [activeRun EXCEPT ![l] = 0]
               /\ outcome' = [outcome EXCEPT ![activeRun[l]] = "dropped"]
          ELSE UNCHANGED <<activeRun, outcome>>
     /\ Update(r, [request[r] EXCEPT !.pc = "decide", !.lease = NoLease, !.got = <<>>])
     /\ UNCHANGED <<settings, begun, riders, unfitAt, clock>>

Rotates(r) == ~request[r].gone /\ request[r].error = "RunInvalid" /\ request[r].stage = 1
Strips(r) == ~request[r].gone /\ request[r].error = "NoEndpoints" /\ request[r].stage < 3 /\ request[r].tools

\* A run that is gone is rotated once, and a request that no endpoint serves is
\* sent once without its tools.
Again(r) ==
  /\ request[r].pc = "decide"
  /\ \/ Rotates(r) /\ Update(r, [request[r] EXCEPT !.pc = "acquire", !.stage = 2])
     \/ Strips(r) /\ Update(r, [request[r] EXCEPT !.pc = "acquire", !.stage = 3, !.tools = FALSE])
  /\ UNCHANGED <<settings, poolState>>

MarkRunFailed(lease) ==
  outcome' = IF lease.run = 0 \/ outcome[lease.run] # "live" THEN outcome
             ELSE [outcome EXCEPT ![lease.run] = "failed"]

\* Otherwise the run is marked and the client is told, unless it is gone.
Fail(r) ==
  /\ request[r].pc = "decide" /\ ~Rotates(r) /\ ~Strips(r)
  /\ MarkRunFailed(request[r].lease)
  /\ End(r, IF request[r].gone \/ request[r].error = "Canceled" THEN "none"
           ELSE writeError(request[r].error).code)
  /\ UNCHANGED <<settings, activeRun, instance, begun, riders, unfitAt, clock>>

RelayDoneTwice(r) ==
  /\ request[r].pc = "relay"
  /\ riders' = [riders EXCEPT ![request[r].lease.run] = IF @ > 1 THEN @ - 2 ELSE @ - 1]
  /\ End(r, "ok")
  /\ UNCHANGED <<settings, activeRun, outcome, instance, begun, unfitAt, clock>>

\* The relay has returned, to its end or cut short; the deferred release runs once.
RelayDone(r) ==
  /\ request[r].pc = "relay"
  /\ GiveBack(r)
  /\ End(r, "ok")
  /\ UNCHANGED <<settings, instance, begun, unfitAt, clock>>

\* The client goes away at any time.
ClientGone(r) ==
  /\ request[r].pc \notin {"idle", "done"} /\ ~request[r].gone
  /\ Update(r, [request[r] EXCEPT !.gone = TRUE])
  /\ UNCHANGED <<settings, poolState>>

EngineNext ==
  \/ ReloadConfig
  \/ \E r \in Requests :
       \/ requireAuth(r) \/ Route(r) \/ AcquireLease(r) \/ AcquireRefused(r)
       \/ ChatServed(r) \/ ChatQueued(r) \/ ChatRefused(r) \/ Release(r) \/ Invalidate(r)
       \/ Again(r) \/ Fail(r) \/ RelayDone(r) \/ ClientGone(r)

EngineSpec == EngineInit /\ [][EngineNext]_engineVars

-----------------------------------------------------------------------------
Holding(r) == request[r].lease.run # 0 /\ request[r].pc \in {"chat", "relay", "release"}

\* Every lease is given back once and only once, whatever the attempt met: the
\* in-flight count of a run is the number of requests that hold it
\* (chatAttempt's release, chatCore's deferred one).
LeaseGivenBackOnce ==
  \A u \in Ids : riders[u] = Cardinality({r \in Requests : Holding(r) /\ request[r].lease.run = u})

\* The pool serves only whom the configuration that let the request in allows,
\* even if it is reloaded before chatCore chooses the lane (cfgSnapshotKey).
PoolOnlyForKeys ==
  \A r \in Requests :
    request[r].pc \notin {"idle", "route", "done"} /\ request[r].lane = "pool" =>
      \/ request[r].view.keys = {}
      \/ authorized(request[r].view, request[r].cred)

\* A late outcome does not undo what is newer than its lease: a refusal on an old
\* session leaves the session admitted since (issue #132), a success leaves the
\* mark made since (ClearModelUnfitBefore).
LateOutcomeHarmless ==
  [][/\ \A l \in Lanes : instance[l] # 0 /\ instance'[l] = 0 =>
          \E r \in Requests : request[r].pc = "invalidate" /\ request[r].lease.instance = instance[l]
     /\ unfitAt # 0 /\ unfitAt' = 0 =>
          \E r \in Requests : request[r].pc = "chat" /\ request'[r].pc = "relay"
                                /\ request[r].lease.at >= unfitAt]_engineVars

\* The codes of the service that end a session, and those it survives.
GateCodes ==
  {[code |-> "waiting_room_required",  status |-> 428, ends |-> TRUE],
   [code |-> "session_expired",        status |-> 410, ends |-> TRUE],
   [code |-> "session_superseded",     status |-> 409, ends |-> TRUE],
   [code |-> "session_model_mismatch", status |-> 409, ends |-> TRUE],
   [code |-> "session_limit_reached",  status |-> 409, ends |-> FALSE],
   [code |-> "waiting_room_queued",    status |-> 429, ends |-> FALSE],
   [code |-> "model_unavailable",      status |-> 410, ends |-> FALSE]}

\* An attempt forgets the cached session exactly when the service's table of
\* gate codes says that the session is gone (FREEBUFF_GATE_CODES, which
\* upstream/errors.go cites), and never for an answer without such a code.
SessionEndsWithGate ==
  \A r \in Requests : request[r].pc = "invalidate" /\ request[r].got # <<>> =>
    LET drops == Reaction(request[r].error) \in {"session", "superseded"}
    IN /\ \A g \in GateCodes : request[r].got = <<g.status, {g.code}>> => (drops <=> g.ends)
       /\ drops => Mentions(request[r].got[2])
                     \cap (SessionEnding \cup {"waiting_room_required", "session_superseded"}) # {}

\* A chat that died on a refusal must not leave its run to be reported as
\* completed (engine.go:253-256, pool/lifecycle.go:94-99).
FailedRunReported ==
  \A r \in Requests :
    request[r].pc = "done" /\ request[r].error \notin {"none", "Canceled"} /\ request[r].ran # 0
      => outcome[request[r].ran] # "live"

\* Every lease is given back once, nobody without a key is served from the pool,
\* and a session ends with the gate that refuses its model.
RequestsSettled == LeaseGivenBackOnce /\ PoolOnlyForKeys /\ SessionEndsWithGate
===========================================================================
