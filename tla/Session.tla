------------------------------ MODULE Session ------------------------------
(***************************************************************************)
(* The session manager of one upstream token (backend/internal/session:    *)
(* session.go, session_manager.go, session_admission.go, session_poll.go,  *)
(* grace.go, model_unavailable.go) and the seat gate the pool puts on it   *)
(* (pool/seat.go).                                                         *)
(*                                                                         *)
(* Upstream keeps one session, the seat, per account.  A request asks      *)
(* EnsureSessionForModel for an instance and chats on it; one caller at a  *)
(* time refreshes the session, the others park on its channel.  A section  *)
(* under Manager.mu is one action; an upstream call and a store write,     *)
(* during which mu is free, are actions of their own.                      *)
(*                                                                         *)
(* Time is the age of an instance: fresh, in the re-admit lead, in the     *)
(* grace drain, dead.  Whether pollAt of a queued session has passed is    *)
(* chosen where the code reads the clock.                                  *)
(***************************************************************************)
EXTENDS Naturals, FiniteSets

CONSTANTS
  Clients,     \* goroutines that serve chat turns; each counts on the seat
  Pollers,     \* goroutines of the pool's session poll
  Keepers,     \* goroutines of maintenance, maturity touch, removal, shutdown
  Passes,      \* what Keepers do
  Async,       \* the goroutine of asyncReAdmit
  Models,      \* model ids
  NoModel,     \* the empty model id
  Fallback,    \* DefaultFallbackModelFor
  Answers,     \* what upstream may answer besides what its state demands
  MaxInst,     \* bound: instances upstream creates in one behaviour
  MaxRefresh,  \* maxRefreshIterations
  MaxOuter,    \* maxOuterIterations
  HasStore,    \* SESSION_PERSIST
  MaxCrashes   \* bound: restarts in one behaviour

ASSUME SessionAssumption ==
  /\ Async \notin Clients \cup Pollers \cup Keepers
  /\ Clients \cap Pollers = {} /\ Clients \cap Keepers = {}
  /\ Pollers \cap Keepers = {} /\ IsFiniteSet(Clients)
  /\ Passes \subseteq {"advance", "touch", "end", "clear", "shutdown"}
  /\ NoModel \notin Models /\ Fallback \in Models
  /\ Answers \subseteq {"queued", "disabled", "refused", "denied", "gone",
                        "unavailable", "error", "canceled"}
  /\ MaxInst \in Nat /\ MaxRefresh \in Nat /\ MaxOuter \in Nat
  /\ MaxCrashes \in Nat /\ HasStore \in BOOLEAN

Threads  == Clients \cup Pollers \cup Keepers \cup {Async}
Insts    == 1..MaxInst
NoInst   == 0
InstRef  == Insts \cup {NoInst}
ModelRef == Models \cup {NoModel}

VARIABLES
  ninst,       \* instances created so far
  modelOf,     \* the model each is bound to
  age,         \* "queued", "fresh", "lead", "grace", "dead"
  seat,        \* upstream: the account's active instance
  state,       \* Manager.state
  refreshing,  \* Manager.refreshing
  refreshErr,  \* Manager.refreshErr
  reAdmitted,  \* Manager.reAdmitExpiry, as the instance that has it
  unavailable, \* Manager.modelUnavailable
  persist,     \* the store write of the holder of persistMu
  disk,        \* the persisted entry
  th,          \* control state of every goroutine
  tried,       \* history: re-admits triggered per instance by this process
  crashes

upstreamVars == <<ninst, modelOf, age, seat>>
flightVars   == <<refreshing, refreshErr, reAdmitted, unavailable>>
cacheVars    == <<state, persist>>
ghostVars    == <<tried, crashes>>
vars == <<upstreamVars, flightVars, cacheVars, disk, th, ghostVars>>

---------------------------------------------------------------------------
Cached == [status : {"nil", "active", "ended", "queued", "disabled"},
           inst : InstRef, model : ModelRef]
Nil      == [status |-> "nil", inst |-> NoInst, model |-> NoModel]
Disabled == [status |-> "disabled", inst |-> NoInst, model |-> NoModel]
Row(s, i, m) == [status |-> s, inst |-> i, model |-> m]

\* sessionUsable: a row that carries an expiry, up to the end of its grace.
Usable(s) == s.status \in {"active", "ended"} /\ age[s.inst] # "dead"

\* The model check of the fast path.
Serves(s, m) == m = NoModel \/ s.model = m

\* reAdmitDue: the lead window of an active session, or the grace drain.
ReAdmitDue(s) ==
  \/ s.status = "active" /\ age[s.inst] = "lead"
  \/ age[s.inst] = "grace"

PCs == {"idle", "ensure", "park", "woken", "recheck", "short", "loop", "load",
        "getp", "gotp", "getq", "release", "delete", "deleted", "create",
        "answer", "unlock", "finish", "trust", "ride", "write", "end",
        "enddel", "exit", "poll", "polled"}
Replies == {"none", "failed", "active", "grace", "locked", "queued", "disabled",
            "refused", "denied", "gone", "unavailable", "error", "canceled"}

\* A goroutine: where it is, the model its call asks for, the model refresh has
\* settled on, the instance it works on or rides, the instance that was cached
\* when the iteration began, the last reply, the two loop counters, and where
\* it goes on after a store write.
ThreadState == [pc : PCs, model : ModelRef, target : ModelRef, inst : InstRef,
                cached : InstRef, reply : Replies, iter : 0..MaxRefresh,
                outer : 0..MaxOuter, next : PCs, pass : Passes \cup {"none"}]

Idle == [pc |-> "idle", model |-> NoModel, target |-> NoModel, inst |-> NoInst,
         cached |-> NoInst, reply |-> "none", iter |-> 0, outer |-> 0,
         next |-> "idle", pass |-> "none"]

At(t, p) == th[t].pc = p
Goto(t, s) == th' = [th EXCEPT ![t] = s]
To(t, p) == [th[t] EXCEPT !.pc = p]

\* A call of EnsureSessionForModel(m) begins; a refresh begins inside call s.
Calling(m, pass) == [Idle EXCEPT !.pc = "ensure", !.model = m, !.pass = pass]
Refreshing(s) ==
  [s EXCEPT !.pc = "short", !.target = s.model, !.iter = 0, !.inst = NoInst,
            !.cached = NoInst, !.reply = "none"]

\* The call returns instance i.  The advance of a queued session wants none.
Riding(s, i) ==
  IF s.pass = "advance" THEN Idle
  ELSE [Idle EXCEPT !.pc = "ride", !.model = s.model, !.inst = i, !.pass = s.pass]

Again(s) == [Idle EXCEPT !.pc = "ensure", !.model = s.model, !.pass = s.pass,
                         !.outer = s.outer + 1]

\* refresh returns: nil, or an error of kind e.
Returns(s, e) ==
  [Idle EXCEPT !.pc = "finish", !.reply = e, !.model = s.model, !.pass = s.pass,
               !.outer = s.outer]

NoWrite == [row |-> Nil, old |-> NoInst, held |-> FALSE]

CommitUnordered(t, cs, s) ==
  /\ state' = cs
  /\ IF HasStore
     THEN /\ persist' = [row |-> cs, old |-> state.inst, held |-> TRUE]
          /\ Goto(t, [s EXCEPT !.pc = "write", !.next = s.pc])
     ELSE UNCHANGED persist /\ Goto(t, s)

\* commit(cs), after which the goroutine goes on as s.  With a store it takes
\* persistMu before it lets go of mu and writes after.
Commit(t, cs, s) ==
  /\ state' = cs
  /\ IF HasStore
     THEN /\ ~persist.held
          /\ persist' = [row |-> cs, old |-> state.inst, held |-> TRUE]
          /\ Goto(t, [s EXCEPT !.pc = "write", !.next = s.pc])
     ELSE UNCHANGED persist /\ Goto(t, s)

\* Store.Remove of an instance: no instance means any.
Without(d, i) == IF i \in {NoInst, d.inst} THEN Nil ELSE d

\* Store.Save and Store.Remove of the holder of persistMu; a row without an
\* instance is not kept.
Write(t) ==
  /\ At(t, "write")
  /\ disk' = IF persist.row.status = "nil" THEN Without(disk, persist.old)
             ELSE IF persist.row.inst = NoInst THEN Nil ELSE persist.row
  /\ persist' = NoWrite
  /\ Goto(t, [To(t, th[t].next) EXCEPT !.next = "idle"])
  /\ UNCHANGED <<upstreamVars, flightVars, state, ghostVars>>

---------------------------------------------------------------------------
(* EnsureSessionForModel.                                                  *)

\* seatCounter: the turns that have begun admission and not been released.
Seats == Cardinality({t \in Clients : th[t].pc \notin {"idle", "exit"}})

SeatIdleOffByOne == Seats <= 2

\* seatCounter.idle: nobody but the caller.
SeatIdle == Seats <= 1

\* The head of the loop, under mu: attempts are left.
Ensuring(t) == At(t, "ensure") /\ th[t].outer < MaxOuter

\* A turn takes its seat, then asks for a session.
BeginTurn(t, m) ==
  /\ At(t, "idle")
  /\ Goto(t, Calling(m, "none"))
  /\ UNCHANGED <<upstreamVars, flightVars, cacheVars, disk, ghostVars>>

FastPath(t) ==
  /\ Ensuring(t) /\ ~refreshing
  /\ Usable(state) /\ Serves(state, th[t].model)

Trigger(t) ==
  /\ reAdmitted # state.inst /\ ReAdmitDue(state) /\ SeatIdle

\* The cached instance is returned.
EnsureReuse(t) ==
  /\ FastPath(t) /\ ~Trigger(t)
  /\ Goto(t, Riding(th[t], state.inst))
  /\ UNCHANGED <<upstreamVars, flightVars, cacheVars, disk, ghostVars>>

EnsureTriggerForgets(t) ==
  /\ FastPath(t) /\ Trigger(t)
  /\ refreshing' = TRUE /\ refreshErr' = "none"
  /\ th' = [th EXCEPT ![t] = Again(@), ![Async] = Refreshing(Calling(th[t].model, "none"))]
  /\ tried' = [tried EXCEPT ![state.inst] = @ + 1]
  /\ UNCHANGED <<upstreamVars, reAdmitted, unavailable, cacheVars, disk, crashes>>

\* The session is about to expire and the seat is free: asyncReAdmit starts,
\* and the caller parks on it in its next attempt.
EnsureTrigger(t) ==
  /\ FastPath(t) /\ Trigger(t)
  /\ reAdmitted' = state.inst
  /\ refreshing' = TRUE /\ refreshErr' = "none"
  /\ th' = [th EXCEPT ![t] = Again(@), ![Async] = Refreshing(Calling(th[t].model, "none"))]
  /\ tried' = [tried EXCEPT ![state.inst] = @ + 1]
  /\ UNCHANGED <<upstreamVars, unavailable, cacheVars, disk, crashes>>

\* The upstream session is disabled, or its queue is not to be polled yet.
EnsureAnswer(t) ==
  /\ Ensuring(t) /\ ~refreshing
  /\ \/ state.status = "disabled" /\ Goto(t, Riding(th[t], NoInst))
     \/ state.status = "queued" /\ Goto(t, Idle)
  /\ UNCHANGED <<upstreamVars, flightVars, cacheVars, disk, ghostVars>>

EnsurePark(t) ==
  /\ Ensuring(t) /\ refreshing
  /\ Goto(t, To(t, "park"))
  /\ UNCHANGED <<upstreamVars, flightVars, cacheVars, disk, ghostVars>>

EnsureLeadUnguarded(t) ==
  /\ Ensuring(t)
  /\ state.status # "disabled" /\ ~FastPath(t)
  /\ refreshing' = TRUE /\ refreshErr' = "none"
  /\ Goto(t, Refreshing(th[t]))
  /\ UNCHANGED <<upstreamVars, reAdmitted, unavailable, cacheVars, disk, ghostVars>>

\* Nothing to reuse and nobody refreshes: this caller does.
EnsureLead(t) ==
  /\ Ensuring(t) /\ ~refreshing
  /\ state.status # "disabled" /\ ~FastPath(t)
  /\ refreshing' = TRUE /\ refreshErr' = "none"
  /\ Goto(t, Refreshing(th[t]))
  /\ UNCHANGED <<upstreamVars, reAdmitted, unavailable, cacheVars, disk, ghostVars>>

\* The attempts are used up.
EnsureGivesUp(t) ==
  /\ At(t, "ensure") /\ th[t].outer = MaxOuter
  /\ Goto(t, Idle)
  /\ UNCHANGED <<upstreamVars, flightVars, cacheVars, disk, ghostVars>>

\* The caller's context is done.  Nothing promises that it ever will be.
EnsureCanceled(t) ==
  /\ th[t].pc \in {"ensure", "park"} /\ "canceled" \in Answers
  /\ Goto(t, Idle)
  /\ UNCHANGED <<upstreamVars, flightVars, cacheVars, disk, ghostVars>>

\* The channel is closed: a waiter reads refreshErr.
Woken(t) ==
  /\ At(t, "woken")
  /\ \/ refreshErr \in {"none", "canceled"} /\ Goto(t, Again(th[t]))
     \/ /\ refreshErr = "failed" \/ (refreshErr = "canceled" /\ "canceled" \in Answers)
        /\ Goto(t, To(t, "recheck"))
  /\ UNCHANGED <<upstreamVars, flightVars, cacheVars, disk, ghostVars>>

\* A waiter of a failed refresh looks once more: it rides what is usable.
Recheck(t) ==
  /\ At(t, "recheck")
  /\ Goto(t, IF Usable(state) THEN Riding(th[t], state.inst) ELSE Idle)
  /\ UNCHANGED <<upstreamVars, flightVars, cacheVars, disk, ghostVars>>

FinishRefreshSignals(t) ==
  LET e == th[t].reply
      parked == {u \in Threads : At(u, "park")} IN
  /\ At(t, "finish")
  /\ refreshing' = FALSE
  /\ refreshErr' = IF e = "none" THEN refreshErr ELSE e
  /\ th' = [u \in Threads |->
             CASE u = t -> IF t = Async \/ e # "none" THEN Idle
                          ELSE To(t, "trust")
               [] u # t /\ parked # {} /\ u = (CHOOSE v \in parked : TRUE) -> To(u, "woken")
               [] OTHER -> th[u]]
  /\ UNCHANGED <<upstreamVars, reAdmitted, unavailable, cacheVars, disk, ghostVars>>

\* refresh returned: the flight is closed and its waiters are woken.
FinishRefresh(t) ==
  LET e == th[t].reply IN
  /\ At(t, "finish")
  /\ refreshing' = FALSE
  /\ refreshErr' = IF e = "none" THEN refreshErr ELSE e
  /\ th' = [u \in Threads |->
             CASE u = t -> IF t = Async \/ e # "none" THEN Idle
                          ELSE To(t, "trust")
               [] u # t /\ At(u, "park") -> To(u, "woken")
               [] OTHER -> th[u]]
  /\ UNCHANGED <<upstreamVars, reAdmitted, unavailable, cacheVars, disk, ghostVars>>

\* The refresher reads the state again and trusts it.
Trust(t) ==
  /\ At(t, "trust")
  /\ \/ state.status = "active" /\ Goto(t, Riding(th[t], state.inst))
     \/ state.status = "disabled" /\ Goto(t, Riding(th[t], NoInst))
     \/ state.status = "queued" /\ Goto(t, Idle)
     \/ state.status \in {"nil", "ended", "queued"} /\ Goto(t, Again(th[t]))
  /\ UNCHANGED <<upstreamVars, flightVars, cacheVars, disk, ghostVars>>

---------------------------------------------------------------------------
(* refresh.                                                                *)

\* modelUnavailableShortCircuit.
ShortCircuit(t) ==
  LET s == th[t] IN
  /\ At(t, "short")
  /\ IF s.target \notin unavailable \ {Fallback}
     THEN Goto(t, To(t, "loop")) /\ UNCHANGED cacheVars
     ELSE IF Usable(state) /\ state.model = Fallback
     THEN Goto(t, Returns(s, "none")) /\ UNCHANGED cacheVars
     ELSE Commit(t, Nil, [s EXCEPT !.pc = "loop", !.target = Fallback])
  /\ UNCHANGED <<upstreamVars, flightVars, disk, ghostVars>>

RefreshLoopOffByOne(t) ==
  LET s == [th[t] EXCEPT !.iter = @ + 1, !.cached = state.inst, !.inst = NoInst,
                         !.reply = "none"] IN
  /\ At(t, "loop")
  /\ \/ th[t].iter > MaxRefresh /\ Goto(t, Returns(th[t], "failed"))
     \/ "canceled" \in Answers /\ Goto(t, Returns(th[t], "canceled"))
     \/ /\ th[t].iter <= MaxRefresh
        /\ Goto(t, CASE state.status = "queued" ->
                          [s EXCEPT !.pc = "getq", !.inst = state.inst]
                     [] state.status = "nil" ->
                          [s EXCEPT !.pc = IF HasStore THEN "load" ELSE "create"]
                     [] OTHER -> [s EXCEPT !.pc = "release"])
  /\ UNCHANGED <<upstreamVars, flightVars, cacheVars, disk, ghostVars>>

\* The head of the loop: what is cached decides the call.
RefreshLoop(t) ==
  LET s == [th[t] EXCEPT !.iter = @ + 1, !.cached = state.inst, !.inst = NoInst,
                         !.reply = "none"] IN
  /\ At(t, "loop")
  /\ \/ th[t].iter = MaxRefresh /\ Goto(t, Returns(th[t], "failed"))
     \/ "canceled" \in Answers /\ Goto(t, Returns(th[t], "canceled"))
     \/ /\ th[t].iter < MaxRefresh
        /\ Goto(t, CASE state.status = "queued" ->
                          [s EXCEPT !.pc = "getq", !.inst = state.inst]
                     [] state.status = "nil" ->
                          [s EXCEPT !.pc = IF HasStore THEN "load" ELSE "create"]
                     [] OTHER -> [s EXCEPT !.pc = "release"])
  /\ UNCHANGED <<upstreamVars, flightVars, cacheVars, disk, ghostVars>>

\* pollPersisted, first part: a persisted session worth asking about.
LoadPersisted(t) ==
  LET fit == age[disk.inst] \in {"fresh", "lead"} /\ Serves(disk, th[t].target) IN
  /\ At(t, "load")
  /\ IF disk.status = "active" /\ fit
     THEN Goto(t, [To(t, "getp") EXCEPT !.inst = disk.inst]) /\ UNCHANGED disk
     ELSE /\ Goto(t, To(t, "create"))
          /\ disk' = IF disk.status = "active" THEN Nil ELSE disk
  /\ UNCHANGED <<upstreamVars, flightVars, cacheVars, ghostVars>>

\* GET of an instance (refresh of a queued row, resume, poll): upstream answers
\* by what it knows, or not at all.
Get(t) ==
  LET i == th[t].inst
      got(r) == Goto(t, [th[t] EXCEPT !.pc = CASE @ = "getp" -> "gotp"
                                               [] @ = "getq" -> "answer"
                                               [] OTHER -> "polled", !.reply = r]) IN
  /\ th[t].pc \in {"getp", "getq", "poll"}
  /\ \/ /\ got(IF age[i] = "queued" THEN "queued"
            ELSE IF i # seat \/ age[i] = "dead" THEN "refused"
            ELSE IF age[i] = "grace" THEN "grace" ELSE "active")
        /\ UNCHANGED <<age, seat>>
     \/ /\ age[i] = "queued" /\ seat = NoInst
        /\ seat' = i /\ age' = [age EXCEPT ![i] = "fresh"]
        /\ got("active")
     \/ /\ \E r \in Answers \cap {"denied", "gone", "error", "canceled"} : got(r)
        /\ UNCHANGED <<age, seat>>
  /\ UNCHANGED <<ninst, modelOf, flightVars, cacheVars, disk, ghostVars>>

\* pollPersisted, second part: adopt the slot, drop it, or leave it alone.
AnswerPersisted(t) ==
  LET s == th[t]
      create == [s EXCEPT !.pc = "create", !.inst = NoInst, !.reply = "none"] IN
  /\ At(t, "gotp")
  /\ \/ /\ s.reply = "active"
        /\ Goto(t, To(t, "answer")) /\ UNCHANGED disk
     \/ /\ s.reply \in {"grace", "refused", "denied"}
        /\ Goto(t, create) /\ disk' = Without(disk, s.inst)
     \/ /\ s.reply = "denied"
        /\ Goto(t, create) /\ UNCHANGED disk
     \/ /\ s.reply = "gone"
        /\ Goto(t, To(t, "answer")) /\ disk' = Without(disk, s.inst)
     \/ /\ s.reply \in {"error", "canceled"}
        /\ Goto(t, To(t, "answer")) /\ UNCHANGED disk
  /\ UNCHANGED <<upstreamVars, flightVars, cacheVars, ghostVars>>

\* releaseHeldSlotForTarget, its first section.
ReleaseHeld(t) ==
  /\ At(t, "release")
  /\ Goto(t, IF Usable(state) /\ state.status = "active" /\ state.model # th[t].target
             THEN [To(t, "delete") EXCEPT !.inst = state.inst]
             ELSE To(t, "create"))
  /\ UNCHANGED <<upstreamVars, flightVars, cacheVars, disk, ghostVars>>

\* DELETE of an instance, which may fail with or without an effect upstream.
Delete(t) ==
  LET s == th[t] IN
  /\ s.pc \in {"delete", "unlock", "enddel"}
  /\ seat' \in {seat, IF s.inst = seat THEN NoInst ELSE seat}
  /\ \/ /\ s.inst # seat \/ seat' = NoInst
        /\ Goto(t, CASE s.pc = "delete" -> To(t, "deleted")
                     [] s.pc = "unlock" -> To(t, "loop")
                     [] OTHER -> Idle)
     \/ /\ "error" \in Answers
        /\ Goto(t, CASE s.pc = "delete" -> [To(t, "create") EXCEPT !.inst = NoInst]
                     [] s.pc = "unlock" -> To(t, "loop")
                     [] OTHER -> Idle)
  /\ UNCHANGED <<ninst, modelOf, age, flightVars, cacheVars, disk, ghostVars>>

\* releaseHeldSlotForTarget, its second section.
ReleasedHeld(t) ==
  LET create == [To(t, "create") EXCEPT !.inst = NoInst] IN
  /\ At(t, "deleted")
  /\ IF state.inst = th[t].inst THEN Commit(t, Nil, create)
     ELSE Goto(t, create) /\ UNCHANGED cacheVars
  /\ UNCHANGED <<upstreamVars, flightVars, disk, ghostVars>>

\* POST of a new session: an instance that takes the seat (its answer may be
\* lost), a place in the queue, a lock held by another model, or a refusal.
Post(t) ==
  LET s == th[t]
      n == ninst + 1
      got(i, r) == Goto(t, [To(t, "answer") EXCEPT !.inst = i, !.reply = r])
      new(a) == /\ ninst < MaxInst /\ ninst' = n
                /\ modelOf' \in {[modelOf EXCEPT ![n] = m] :
                       m \in IF s.target = NoModel THEN Models ELSE {s.target}}
                /\ age' = [age EXCEPT ![n] = a] IN
  /\ At(t, "create")
  /\ \/ /\ new("fresh") /\ seat' = n
        /\ \/ got(n, "active")
           \/ \E r \in Answers \cap {"error", "canceled"} : got(NoInst, r)
     \/ /\ "queued" \in Answers
        /\ new("queued") /\ seat' = seat /\ got(n, "queued")
     \/ /\ \/ /\ seat # NoInst /\ age[seat] # "dead" /\ s.target # NoModel
              /\ modelOf[seat] # s.target /\ got(seat, "locked")
           \/ seat # NoInst /\ age[seat] = "grace" /\ got(seat, "grace")
           \/ s.target \in Models \ {Fallback} /\ "unavailable" \in Answers
              /\ got(NoInst, "unavailable")
           \/ \E r \in Answers \ {"queued", "unavailable"} : got(NoInst, r)
        /\ UNCHANGED upstreamVars
  /\ UNCHANGED <<flightVars, cacheVars, disk, ghostVars>>

\* The switch of refresh over the answer that ends the call.
AnswerReturns(t) ==
  LET s == th[t] IN
  /\ At(t, "answer")
  /\ \/ s.reply = "active" /\ Commit(t, Row("active", s.inst, modelOf[s.inst]), Returns(s, "none"))
     \/ s.reply = "disabled" /\ Commit(t, Disabled, Returns(s, "none"))
     \/ /\ s.reply = "queued" /\ t # Async
        /\ Commit(t, Row("queued", s.inst, modelOf[s.inst]), Returns(s, "none"))
     \/ /\ s.reply = "grace" /\ t # Async
        /\ Commit(t, Row("ended", s.inst, modelOf[s.inst]), Returns(s, "none"))
     \/ s.reply = "queued" /\ t = Async /\ Goto(t, Returns(s, "none")) /\ UNCHANGED cacheVars
     \/ /\ \/ s.reply \in {"grace", "refused"} /\ t = Async
           \/ s.reply \in {"denied", "error"}
        /\ Goto(t, Returns(s, "failed")) /\ UNCHANGED cacheVars
     \/ s.reply = "canceled" /\ Goto(t, Returns(s, "canceled")) /\ UNCHANGED cacheVars
     \/ /\ s.reply = "gone"
        /\ IF s.cached # NoInst /\ state.inst = s.cached
           THEN Commit(t, Nil, Returns(s, "failed"))
           ELSE Goto(t, Returns(s, "failed")) /\ UNCHANGED cacheVars
  /\ UNCHANGED <<upstreamVars, flightVars, disk, ghostVars>>

\* The answers after which the loop goes round again.
AnswerRetries(t) ==
  LET s == th[t]
      loop == [s EXCEPT !.pc = "loop", !.inst = NoInst, !.cached = NoInst,
                        !.reply = "none"] IN
  /\ At(t, "answer")
  /\ \/ s.reply = "refused" /\ t # Async /\ Commit(t, Nil, loop) /\ UNCHANGED unavailable
     \/ /\ s.reply = "locked"
        /\ Commit(t, Nil, [loop EXCEPT !.pc = "unlock", !.inst = s.inst])
        /\ UNCHANGED unavailable
     \/ /\ s.reply = "unavailable"
        /\ unavailable' = unavailable \cup {s.target}
        /\ Commit(t, Nil, [loop EXCEPT !.target = Fallback])
  /\ UNCHANGED <<upstreamVars, refreshing, refreshErr, reAdmitted, disk, ghostVars>>

---------------------------------------------------------------------------
(* Turns, polls and the pool's passes.                                     *)

\* The turn is over and its seat is released.
EndTurn(t) ==
  /\ At(t, "ride")
  /\ Goto(t, IF th[t].pass = "touch" THEN [Idle EXCEPT !.pc = "end"] ELSE Idle)
  /\ UNCHANGED <<upstreamVars, flightVars, cacheVars, disk, ghostVars>>

\* The chat is refused, its instance not being the account's: the turn calls
\* InvalidateInstanceWithReason and is released.
InvalidateInstance(t) ==
  /\ At(t, "ride") /\ th[t].pass = "none"
  /\ th[t].inst \in Insts \ {IF seat # NoInst /\ age[seat] # "dead" THEN seat ELSE NoInst}
  /\ IF state.inst = th[t].inst THEN Commit(t, Nil, Idle)
     ELSE Goto(t, Idle) /\ UNCHANGED cacheVars
  /\ UNCHANGED <<upstreamVars, flightVars, disk, ghostVars>>

\* Poll: a compact GET of the cached instance.
Poll(t) ==
  /\ At(t, "idle") /\ state.status \in {"active", "ended"}
  /\ Goto(t, [Idle EXCEPT !.pc = "poll", !.inst = state.inst])
  /\ UNCHANGED <<upstreamVars, flightVars, cacheVars, disk, ghostVars>>

PollAnswerUnguarded(t) ==
  LET s == th[t]
      drops == s.reply \in {"gone", "denied", "refused"} IN
  /\ At(t, "polled")
  /\ \/ drops /\ Commit(t, Nil, Idle)
     \/ ~drops /\ Goto(t, Idle) /\ UNCHANGED cacheVars
  /\ UNCHANGED <<upstreamVars, flightVars, disk, ghostVars>>

\* What Poll makes of the answer, if the instance it asked about is still the
\* cached one.
PollAnswer(t) ==
  LET s == th[t]
      mine == state.inst = s.inst
      keep == Goto(t, Idle) /\ UNCHANGED cacheVars IN
  /\ At(t, "polled")
  /\ \/ /\ s.reply \in {"gone", "denied", "refused"} /\ mine
        /\ Commit(t, Nil, Idle)
     \/ /\ s.reply = "grace" /\ mine
        /\ Commit(t, Row("ended", s.inst, state.model), Idle)
     \/ /\ s.reply \in {"active", "queued", "denied", "error", "canceled"} \/ ~mine
        /\ keep
  /\ UNCHANGED <<upstreamVars, flightVars, disk, ghostVars>>

\* Passes of the pool that take no seat: the advance of a queued session
\* (maintainToken) and the maturity touch (maturityTouchRun).
BeginPass(t) ==
  /\ At(t, "idle")
  /\ \/ "advance" \in Passes /\ state.status = "queued" /\ Goto(t, Calling(NoModel, "advance"))
     \/ "touch" \in Passes /\ \E m \in Models : Goto(t, Calling(m, "touch"))
  /\ UNCHANGED <<upstreamVars, flightVars, cacheVars, disk, ghostVars>>

\* EndSession: on removal, eviction and after a touch.
EndSession(t) ==
  /\ At(t, "end") \/ (At(t, "idle") /\ "end" \in Passes)
     \/ (At(t, "idle") /\ "shutdown" \in Passes /\ ~HasStore)
  /\ Commit(t, Nil, IF state.inst = NoInst THEN Idle
                    ELSE [Idle EXCEPT !.pc = "enddel", !.inst = state.inst])
  /\ UNCHANGED <<upstreamVars, flightVars, disk, ghostVars>>

ClearQueued(t) ==
  /\ At(t, "idle") /\ "clear" \in Passes /\ state.status = "queued"
  /\ Commit(t, Nil, Idle)
  /\ UNCHANGED <<upstreamVars, flightVars, disk, ghostVars>>

\* Shutdown with a store: the session is saved again, and kept upstream while
\* it is active.
Shutdown(t) ==
  /\ At(t, "idle") /\ "shutdown" \in Passes /\ HasStore
  /\ state.inst # NoInst
  /\ Commit(t, state,
            IF state.status = "active" /\ Usable(state) THEN Idle
            ELSE [Idle EXCEPT !.pc = "enddel", !.inst = state.inst])
  /\ UNCHANGED <<upstreamVars, flightVars, disk, ghostVars>>

---------------------------------------------------------------------------
(* Time and restarts.                                                      *)

Older(a) == CASE a = "fresh" -> "lead" [] a = "lead" -> "grace"
              [] OTHER -> "dead"

InstanceAges ==
  /\ \E i \in {seat, state.inst, disk.inst} \ {NoInst} :
       /\ age[i] \notin {"queued", "dead"}
       /\ age' = [age EXCEPT ![i] = Older(@)]
  /\ UNCHANGED <<ninst, modelOf, seat, flightVars, cacheVars, disk, th, ghostVars>>

\* A model upstream refused is worth asking for again.
UnavailableExpires ==
  /\ unavailable # {}
  /\ unavailable' = {}
  /\ UNCHANGED <<upstreamVars, refreshing, refreshErr, reAdmitted, cacheVars,
                 disk, th, ghostVars>>

Restart ==
  /\ crashes < MaxCrashes /\ crashes' = crashes + 1
  /\ state' = Nil /\ refreshing' = FALSE /\ refreshErr' = "none"
  /\ reAdmitted' = NoInst /\ unavailable' = {} /\ persist' = NoWrite
  /\ th' = [t \in Threads |-> Idle]
  /\ tried' = [i \in Insts |-> 0]
  /\ UNCHANGED <<upstreamVars, disk>>

Init ==
  /\ ninst = 0 /\ modelOf = [i \in Insts |-> NoModel]
  /\ age = [i \in InstRef |-> "dead"] /\ seat = NoInst
  /\ state = Nil /\ refreshing = FALSE /\ refreshErr = "none"
  /\ reAdmitted = NoInst /\ unavailable = {} /\ persist = NoWrite
  /\ disk = Nil
  /\ th = [t \in Threads |-> Idle]
  /\ tried = [i \in Insts |-> 0] /\ crashes = 0

Ensure(t) ==
  \/ EnsureReuse(t) \/ EnsureTrigger(t) \/ EnsureAnswer(t) \/ EnsurePark(t)
  \/ EnsureLead(t) \/ EnsureGivesUp(t) \/ Woken(t) \/ Recheck(t) \/ Trust(t)

Refresh(t) ==
  \/ ShortCircuit(t) \/ RefreshLoop(t) \/ LoadPersisted(t) \/ AnswerPersisted(t)
  \/ ReleaseHeld(t) \/ ReleasedHeld(t) \/ Post(t)
  \/ AnswerReturns(t) \/ AnswerRetries(t) \/ FinishRefresh(t)

Next ==
  \/ \E t \in Clients : \/ \E m \in Models : BeginTurn(t, m)
                        \/ EndTurn(t) \/ InvalidateInstance(t)
  \/ \E t \in Pollers : Poll(t) \/ PollAnswer(t)
  \/ \E t \in Keepers : \/ BeginPass(t) \/ EndTurn(t) \/ EndSession(t)
                        \/ ClearQueued(t) \/ Shutdown(t)
  \/ \E t \in Clients \cup Keepers : Ensure(t) \/ EnsureCanceled(t)
  \/ \E t \in Threads : Refresh(t) \/ Get(t) \/ Delete(t) \/ Write(t)
  \/ InstanceAges \/ UnavailableExpires \/ Restart

Spec == Init /\ [][Next]_vars

\* Inside a call a goroutine goes on by itself: upstream calls, waits and
\* writes have deadlines.
FairSpec ==
  /\ Spec
  /\ \A t \in Threads : WF_vars(Refresh(t) \/ Get(t) \/ Delete(t) \/ Write(t))
  /\ \A t \in Clients \cup Keepers : WF_vars(Ensure(t))

---------------------------------------------------------------------------
(* Properties.                                                             *)

InRefresh(t) == th[t].pc \in {"short", "loop", "load", "getp", "gotp", "getq",
  "release", "delete", "deleted", "create", "answer", "unlock", "finish"}
    \/ (At(t, "write") /\ th[t].next \in {"loop", "create", "unlock", "finish"})

\* Rows, writes and goroutines refer to instances upstream has created; only
\* the cached or queued rows that carry an instance carry a model.
TypeOK ==
  /\ ninst \in 0..MaxInst
  /\ modelOf \in [Insts -> ModelRef] /\ \A i \in 1..ninst : modelOf[i] \in Models
  /\ age \in [InstRef -> {"queued", "fresh", "lead", "grace", "dead"}]
  /\ seat \in 0..ninst
  /\ state \in Cached /\ disk \in Cached /\ persist.row \in Cached
  /\ persist.old \in 0..ninst /\ persist.held \in BOOLEAN
  /\ \A c \in {state, disk, persist.row} :
       /\ c.inst \in 0..ninst
       /\ c.status \in {"active", "ended", "queued"} <=> c.inst # NoInst
       /\ c.inst # NoInst => c.model = modelOf[c.inst]
  /\ refreshing \in BOOLEAN /\ refreshErr \in {"none", "failed", "canceled"}
  /\ reAdmitted \in 0..ninst /\ unavailable \subseteq Models
  /\ th \in [Threads -> ThreadState]
  /\ \A t \in Threads : th[t].inst \in 0..ninst /\ th[t].cached \in 0..ninst
  /\ tried \in [Insts -> Nat] /\ crashes \in 0..MaxCrashes

\* Admission is single-flight: one goroutine refreshes, caller or asyncReAdmit,
\* it is there whenever the flag says so, and nobody is parked on a channel
\* that has been closed.
SingleAdmission ==
  /\ \A t, u \in Threads : InRefresh(t) /\ InRefresh(u) => t = u
  /\ refreshing <=> \E t \in Threads : InRefresh(t)
  /\ \A t \in Threads : At(t, "park") => refreshing

\* persistMu "keeps them landing in the order the commits were made": when no
\* write is under way the persisted entry is the cached session, whatever
\* commits of turns, polls, re-admits and shutdowns raced.
RecordTracksSession ==
  HasStore /\ ~persist.held /\ state.status # "nil" =>
    disk = IF state.inst = NoInst THEN Nil ELSE state

\* The seat gate: a pre-emptive re-admit takes the seat from no turn that has
\* begun ("a re-admit never rotates the account's single upstream seat out from
\* under a turn that is still dispatching").
ReAdmitSpares ==
  th[Async].pc \in {"create", "delete"} /\ seat' # seat /\ th'[Async] # th[Async] =>
    \A t \in Clients : ~(At(t, "ride") /\ th[t].inst = seat)

\* One pre-emptive re-admit per session: a failed one is not repeated by every
\* request of the lead window or the grace drain (issue #132).
OncePerExpiry == \A i \in Insts : tried[i] <= 1

\* A late answer about an older instance drops nothing: when the cached session
\* is the account's and still fresh, only the refresher, the end of the session
\* or somebody who asked about this very instance replaces it.
StaleAnswersHarmless ==
  state.status = "active" /\ state.inst = seat /\ age[seat] = "fresh"
    /\ state'.inst # state.inst /\ crashes' = crashes =>
      \E t \in Threads : /\ th'[t] # th[t]
                         /\ \/ InRefresh(t) \/ t \in Keepers
                            \/ th[t].inst = state.inst

\* Nobody takes a live session away without cause.
SeatKept == [][ReAdmitSpares /\ StaleAnswersHarmless]_vars

\* EnsureSessionForModel returns: its loops are bounded and a parked caller is
\* woken by the refresher, whatever becomes of it.
EnsureReturns ==
  \A t \in Clients \cup Keepers : At(t, "ensure") ~> th[t].pc \in {"idle", "ride"}

\* EnsureSessionForModel "returns the session instance id bound to the
\* requested model" (session_manager.go), or to the fallback when upstream
\* would not have the model.
BoundModel ==
  [][\A t \in Clients :
       ~At(t, "ride") /\ th'[t].pc = "ride" /\ th'[t].inst # NoInst =>
         modelOf[th'[t].inst] = th[t].model \/ th[t].model \in unavailable]_vars

\* refresh: "a create refusal while the old instance is still authoritative
\* must NOT invalidate the cached session (the caller is riding it)".
ReAdmitKeepsSession ==
  [][state.inst # NoInst /\ InRefresh(Async) /\ th'[Async] # th[Async]
       => state'.inst # NoInst]_vars

\* commit: "the entry is only deleted while it still belongs to the session
\* being invalidated".
DropsOwnRecord ==
  [][persist.held /\ ~persist'.held /\ persist.row = Nil /\ disk.inst # NoInst /\ disk'.inst = NoInst
       => persist.old = disk.inst]_vars
============================================================================
