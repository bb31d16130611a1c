--------------------------- MODULE SessionProofs ---------------------------
(***************************************************************************)
(* Proofs about Session for any number of turns, polls, passes, models and *)
(* instances: the types and single-flight admission; then that the store   *)
(* follows the cache, that a session is re-admitted once, and that no live  *)
(* session is taken away from its turn.                                    *)
(*                                                                         *)
(* SingleAdmission is not inductive: that a refresh goes on from a store   *)
(* write to a point of refresh, that asyncReAdmit is never anywhere else,  *)
(* and that a call has an attempt left while it waits, is what CallOK      *)
(* adds for every goroutine; the types add that rows and goroutines refer  *)
(* to created instances only.                                              *)
(*                                                                         *)
(* For the second part every step is brought into one of a few shapes: a   *)
(* goroutine walks on, drops a persisted entry or commits, or it is a step *)
(* of its own kind (a call upstream, a write, a flight that opens or       *)
(* closes, time, a restart).  The invariants are carried over each shape.  *)
(***************************************************************************)
EXTENDS Session, FiniteSetTheorems, TLAPS

RefreshPoints == {"short", "loop", "load", "getp", "gotp", "getq", "release", "delete",
                  "deleted", "create", "answer", "unlock", "finish"}

\* The points of refresh that follow a commit.
CommitPoints == {"loop", "create", "unlock", "finish"}

\* Goroutine state s is inside refresh.
Refreshes(s) ==
  s.pc \in RefreshPoints \/ (s.pc = "write" /\ s.next \in CommitPoints)

\* What is known of a goroutine t in state s, by where it is.
CallOK(t, s) ==
  /\ s.pc = "write" => s.next \in CommitPoints \cup {"idle", "enddel"}
  /\ s.pc \in {"getp", "getq", "poll", "gotp", "polled"} => s.inst # NoInst
  /\ s.pc = "answer" /\ s.reply \in {"active", "queued", "grace", "locked"} => s.inst # NoInst
  /\ s.pc = "answer" /\ s.reply = "unavailable" => s.target \in Models
  /\ s.pc = "finish" \/ (s.pc = "write" /\ s.next = "finish") =>
       s.reply \in {"none", "failed", "canceled"}
  /\ t # Async /\ (s.pc \in {"park", "woken", "trust"} \/ Refreshes(s)) => s.outer < MaxOuter
  /\ t = Async => s.pc = "idle" \/ Refreshes(s)

ThreadOK(t, s) ==
  s \in ThreadState /\ s.inst \in 0..ninst /\ s.cached \in 0..ninst /\ CallOK(t, s)

ThreadsOK ==
  th = [t \in Threads |-> th[t]] /\ \A t \in Threads : ThreadOK(t, th[t])

UpstreamOK ==
  /\ ninst \in 0..MaxInst
  /\ modelOf \in [Insts -> ModelRef] /\ \A i \in 1..ninst : modelOf[i] \in Models
  /\ age \in [InstRef -> {"queued", "fresh", "lead", "grace", "dead"}]
  /\ seat \in 0..ninst

RowOK(c) ==
  /\ c \in Cached /\ c.inst \in 0..ninst
  /\ c.status \in {"active", "ended", "queued"} <=> c.inst # NoInst
  /\ c.inst # NoInst => c.model = modelOf[c.inst]

RowsOK ==
  /\ RowOK(state) /\ RowOK(disk)
  /\ RowOK(persist.row) /\ persist.old \in 0..ninst /\ persist.held \in BOOLEAN

FlightOK ==
  /\ refreshing \in BOOLEAN /\ refreshErr \in {"none", "failed", "canceled"}
  /\ reAdmitted \in 0..ninst /\ unavailable \subseteq Models

GhostOK == tried \in [Insts -> Nat] /\ crashes \in 0..MaxCrashes

SInv == UpstreamOK /\ RowsOK /\ FlightOK /\ GhostOK /\ ThreadsOK /\ SingleAdmission

----------------------------------------------------------------------------
(* Goroutine states.                                                       *)

\* What the fields of a goroutine's state may be set to.
LEMMA FieldValues ==
  /\ PCs = {"idle", "ensure", "park", "woken", "recheck", "short", "loop", "load",
            "getp", "gotp", "getq", "release", "delete", "deleted", "create",
            "answer", "unlock", "finish", "trust", "ride", "write", "end",
            "enddel", "exit", "poll", "polled"}
  /\ NoInst \in InstRef /\ NoModel \in ModelRef /\ Fallback \in ModelRef
  /\ Replies = {"none", "failed", "active", "grace", "locked", "queued", "disabled",
                "refused", "denied", "gone", "unavailable", "error", "canceled"}
  /\ 0 \in 0..MaxRefresh /\ 0 \in 0..MaxOuter /\ "none" \in Passes \cup {"none"}
  BY SessionAssumption DEF PCs, ModelRef, InstRef, NoInst, Replies

LEMMA IdleOK ==
  ASSUME NEW t, ninst \in Nat
  PROVE  /\ ThreadOK(t, Idle) /\ ~Refreshes(Idle)
         /\ Idle.pc = "idle" /\ Idle.inst = NoInst /\ Idle.cached = NoInst
<1> USE SessionAssumption
<1>1. Idle \in ThreadState
  BY FieldValues DEF Idle, ThreadState
<1>2. ~Refreshes(Idle)
  BY DEF Idle, Refreshes, RefreshPoints
<1> QED
  BY <1>1, <1>2 DEF Idle, ThreadOK, CallOK, NoInst

\* A call begins.
LEMMA CallingOK ==
  ASSUME NEW t, t # Async, NEW m \in ModelRef, NEW p \in Passes \cup {"none"}, ninst \in Nat
  PROVE  /\ ThreadOK(t, Calling(m, p)) /\ ~Refreshes(Calling(m, p))
         /\ Calling(m, p).pc = "ensure" /\ Calling(m, p).outer = 0
<1> USE SessionAssumption
<1>1. Calling(m, p) \in ThreadState
  BY FieldValues DEF Calling, Idle, ThreadState
<1>2. ~Refreshes(Calling(m, p))
  BY DEF Calling, Idle, Refreshes, RefreshPoints
<1> QED
  BY <1>1, <1>2 DEF Calling, Idle, ThreadOK, CallOK, NoInst

\* A call returns an instance.
LEMMA RidingOK ==
  ASSUME NEW t, t # Async, NEW s \in ThreadState, NEW i \in InstRef, i \in 0..ninst, ninst \in Nat
  PROVE  /\ ThreadOK(t, Riding(s, i)) /\ ~Refreshes(Riding(s, i))
         /\ Riding(s, i).pc \in {"idle", "ride"}
<1>1. CASE s.pass = "advance"
  BY <1>1, IdleOK DEF Riding
<1>2. CASE s.pass # "advance"
  <2>1. PICK r : r = [Idle EXCEPT !.pc = "ride", !.model = s.model, !.inst = i, !.pass = s.pass]
    OBVIOUS
  <2>2. r \in ThreadState /\ r.pc = "ride" /\ r.inst = i /\ r.cached = NoInst
    BY <2>1, FieldValues DEF Idle, ThreadState
  <2>3. ~Refreshes(r)
    BY <2>2 DEF Refreshes, RefreshPoints
  <2>4. ThreadOK(t, r)
    BY <2>2, <2>3 DEF ThreadOK, CallOK, NoInst
  <2> QED
    BY <1>2, <2>1, <2>2, <2>3, <2>4 DEF Riding
<1> QED
  BY <1>1, <1>2

\* A call makes its next attempt.
LEMMA AgainOK ==
  ASSUME NEW t, t # Async, NEW s \in ThreadState, s.outer < MaxOuter, ninst \in Nat
  PROVE  ThreadOK(t, Again(s)) /\ ~Refreshes(Again(s)) /\ Again(s).pc = "ensure"
<1> USE SessionAssumption
<1>1. s.outer + 1 \in 0..MaxOuter
  BY DEF ThreadState
<1>2. Again(s) \in ThreadState
  BY <1>1, FieldValues DEF Again, Idle, ThreadState
<1>3. ~Refreshes(Again(s))
  BY DEF Again, Idle, Refreshes, RefreshPoints
<1> QED
  BY <1>2, <1>3 DEF Again, Idle, ThreadOK, CallOK, NoInst

\* refresh begins and ends.
LEMMA RefreshingOK ==
  ASSUME NEW t, NEW s \in ThreadState, t # Async => s.outer < MaxOuter, ninst \in Nat
  PROVE  /\ ThreadOK(t, Refreshing(s)) /\ Refreshes(Refreshing(s))
         /\ Refreshing(s).pc = "short" /\ Refreshing(s).inst = NoInst
<1> USE SessionAssumption
<1>1. Refreshing(s) \in ThreadState
  BY FieldValues DEF Refreshing, ThreadState
<1>2. /\ Refreshing(s).pc = "short" /\ Refreshing(s).inst = NoInst
      /\ Refreshing(s).cached = NoInst /\ Refreshing(s).outer = s.outer
  BY DEF Refreshing, ThreadState
<1>3. Refreshes(Refreshing(s))
  BY <1>2 DEF Refreshes, RefreshPoints
<1> QED
  BY <1>1, <1>2, <1>3 DEF ThreadOK, CallOK, NoInst

LEMMA ReturnsOK ==
  ASSUME NEW t, NEW s \in ThreadState, t # Async => s.outer < MaxOuter, ninst \in Nat,
         NEW e \in {"none", "failed", "canceled"}
  PROVE  /\ ThreadOK(t, Returns(s, e)) /\ Refreshes(Returns(s, e))
         /\ Returns(s, e).pc = "finish" /\ Returns(s, e).inst = NoInst
<1> USE SessionAssumption
<1>0. e \in Replies
  BY FieldValues
<1>1. Returns(s, e) \in ThreadState
  <2>1. Idle \in ThreadState /\ s.model \in ModelRef /\ s.pass \in Passes \cup {"none"}
        /\ s.outer \in 0..MaxOuter /\ "finish" \in PCs
    BY IdleOK, FieldValues DEF ThreadOK, ThreadState
  <2> QED
    BY <1>0, <2>1 DEF Returns, ThreadState
<1>2. /\ Returns(s, e).pc = "finish" /\ Returns(s, e).inst = NoInst
      /\ Returns(s, e).cached = NoInst /\ Returns(s, e).outer = s.outer
      /\ Returns(s, e).reply = e
  BY DEF Returns, Idle
<1>3. Refreshes(Returns(s, e))
  BY <1>2 DEF Refreshes, RefreshPoints
<1> QED
  BY <1>1, <1>2, <1>3 DEF ThreadOK, CallOK, NoInst

----------------------------------------------------------------------------
(* One goroutine moves.                                                    *)

LEMMA Points == \A t \in Threads : InRefresh(t) <=> Refreshes(th[t])
BY DEF InRefresh, Refreshes, RefreshPoints, CommitPoints, At

LEMMA TypesFollow == SInv => TypeOK
<1> SUFFICES ASSUME SInv PROVE TypeOK
  OBVIOUS
<1>1. th \in [Threads -> ThreadState]
  BY DEF SInv, ThreadsOK, ThreadOK
<1>2. \A t \in Threads : th[t].inst \in 0..ninst /\ th[t].cached \in 0..ninst
  BY DEF SInv, ThreadsOK, ThreadOK
<1>3. \A c \in {state, disk, persist.row} :
        /\ c.inst \in 0..ninst
        /\ c.status \in {"active", "ended", "queued"} <=> c.inst # NoInst
        /\ c.inst # NoInst => c.model = modelOf[c.inst]
  BY DEF SInv, RowsOK, RowOK
<1>4. state \in Cached /\ disk \in Cached /\ persist.row \in Cached
      /\ persist.old \in 0..ninst /\ persist.held \in BOOLEAN
  BY DEF SInv, RowsOK, RowOK
<1> QED
  BY <1>1, <1>2, <1>3, <1>4 DEF SInv, UpstreamOK, FlightOK, GhostOK, TypeOK

\* Goroutine t goes on as s, in or out of refresh as before.
LEMMA Moves ==
  ASSUME SInv, NEW t \in Threads, NEW s, Goto(t, s), UNCHANGED refreshing,
         ninst' \in Nat, ninst <= ninst',
         s \in ThreadState, s.inst \in 0..ninst', s.cached \in 0..ninst', CallOK(t, s),
         Refreshes(s) <=> Refreshes(th[t]), s.pc = "park" => refreshing
  PROVE  ThreadsOK' /\ SingleAdmission'
<1>1. ninst \in Nat
  BY SessionAssumption DEF SInv, UpstreamOK
<1>2. \A u \in Threads : th'[u] = IF u = t THEN s ELSE th[u]
  BY DEF Goto, SInv, ThreadsOK
<1>3. th' = [u \in Threads |-> th'[u]]
  BY DEF Goto, SInv, ThreadsOK
<1>4. \A u \in Threads : ThreadOK(u, th[u])'
  <2> TAKE u \in Threads
  <2>1. CASE u = t
    BY <1>2, <2>1 DEF ThreadOK, CallOK, Refreshes
  <2>2. CASE u # t
    <3>1. ThreadOK(u, th[u]) /\ th'[u] = th[u]
      BY <1>2, <2>2 DEF SInv, ThreadsOK
    <3>2. th'[u].inst \in 0..ninst' /\ th'[u].cached \in 0..ninst'
      BY <1>1, <3>1 DEF ThreadOK
    <3> QED
      BY <3>1, <3>2 DEF ThreadOK, CallOK, Refreshes
  <2> QED
    BY <2>1, <2>2
<1>5. \A u \in Threads : InRefresh(u)' <=> InRefresh(u)
  <2> TAKE u \in Threads
  <2>1. InRefresh(u)' <=> Refreshes(th'[u])
    BY DEF InRefresh, Refreshes, RefreshPoints, CommitPoints, At
  <2> QED
    BY <1>2, <2>1, Points
<1>6. \A u \in Threads : At(u, "park")' => refreshing'
  BY <1>2 DEF At, SInv, SingleAdmission
<1> QED
  BY <1>3, <1>4, <1>5, <1>6 DEF ThreadsOK, SInv, SingleAdmission

\* Goroutine t commits cs and goes on as s.
LEMMA Commits ==
  ASSUME SInv, NEW t \in Threads, NEW cs, NEW s, Commit(t, cs, s), RowOK(cs), ThreadOK(t, s),
         s.pc \in CommitPoints \cup {"idle", "enddel"}, Refreshes(s) <=> Refreshes(th[t]),
         t = Async => Refreshes(th[t]), UNCHANGED <<refreshing, upstreamVars, disk>>
  PROVE  RowsOK' /\ ThreadsOK' /\ SingleAdmission'
<1>1. ninst \in Nat
  BY SessionAssumption DEF SInv, UpstreamOK
<1>2. PICK w : Goto(t, w) /\ w \in {s, [s EXCEPT !.pc = "write", !.next = s.pc]}
  BY DEF Commit
<1>3. s \in ThreadState /\ s.inst \in 0..ninst /\ s.cached \in 0..ninst /\ CallOK(t, s)
  BY DEF ThreadOK
<1>4. ASSUME w = s PROVE ThreadsOK' /\ SingleAdmission'
  <2>1. s.pc # "park"
    BY DEF CommitPoints
  <2>2. ninst' = ninst /\ UNCHANGED refreshing
    BY DEF upstreamVars
  <2>3. ninst' \in Nat /\ ninst <= ninst'
    BY <1>1, <2>2
  <2>4. Goto(t, s) /\ s.inst \in 0..ninst' /\ s.cached \in 0..ninst'
    BY <1>2, <1>3, <1>4, <2>2
  <2> QED
    BY <1>3, <2>1, <2>2, <2>3, <2>4, Moves
<1>5. ASSUME w = [s EXCEPT !.pc = "write", !.next = s.pc]
      PROVE  ThreadsOK' /\ SingleAdmission'
  <2>1. w \in ThreadState
    <3>1. "write" \in PCs
      BY FieldValues
    <3>2. s.pc \in PCs
      BY <1>3 DEF ThreadState
    <3> QED
      BY <1>3, <1>5, <3>1, <3>2 DEF ThreadState
  <2>2. /\ w.pc = "write" /\ w.next = s.pc /\ w.inst = s.inst /\ w.cached = s.cached
        /\ w.reply = s.reply /\ w.outer = s.outer
    BY <1>3, <1>5 DEF ThreadState
  <2>3. Refreshes(w) <=> Refreshes(s)
    BY <2>2 DEF Refreshes, RefreshPoints, CommitPoints
  <2>4. CallOK(t, w)
    BY <1>3, <2>2, <2>3 DEF CallOK, CommitPoints
  <2>5. ninst' = ninst /\ UNCHANGED refreshing
    BY DEF upstreamVars
  <2>6. ninst' \in Nat /\ ninst <= ninst'
    BY <1>1, <2>5
  <2>7. w.inst \in 0..ninst' /\ w.cached \in 0..ninst' /\ w.pc # "park"
    BY <1>3, <2>2, <2>5
  <2>8. Refreshes(w) <=> Refreshes(th[t])
    BY <2>3
  <2> QED
    BY <1>2, <2>1, <2>4, <2>5, <2>6, <2>7, <2>8, Moves
<1>6. ThreadsOK' /\ SingleAdmission'
  BY <1>2, <1>4, <1>5
<1>7. RowOK(state') /\ RowOK(persist'.row) /\ persist'.old \in 0..ninst /\ persist'.held \in BOOLEAN
  <2>1. CASE HasStore
    <3>1. state' = cs /\ persist' = [row |-> cs, old |-> state.inst, held |-> TRUE]
      BY <2>1 DEF Commit
    <3> QED
      BY <3>1 DEF SInv, RowsOK, RowOK
  <2>2. CASE ~HasStore
    BY <2>2 DEF Commit, SInv, RowsOK
  <2> QED
    BY <2>1, <2>2
<1>8. RowsOK'
  BY <1>7 DEF SInv, RowsOK, RowOK, upstreamVars
<1> QED
  BY <1>6, <1>8

LEMMA NoRow == ASSUME ninst \in Nat PROVE RowOK(Nil) /\ RowOK(Disabled) /\ RowOK(NoWrite.row)
BY FieldValues DEF Nil, Disabled, NoWrite, RowOK, Cached, NoInst
LEMMA StaysPut ==
  ASSUME SInv, NEW t \in Threads, NEW s, Goto(t, s), ThreadOK(t, s),
         Refreshes(s) <=> Refreshes(th[t]), s.pc = "park" => refreshing,
         UNCHANGED <<upstreamVars, flightVars, cacheVars, ghostVars>>, RowOK(disk')
  PROVE  SInv'
<1>1. ninst \in Nat
  BY SessionAssumption DEF SInv, UpstreamOK
<1>2. ninst' = ninst /\ modelOf' = modelOf /\ UNCHANGED refreshing
  BY DEF upstreamVars, flightVars
<1>3. /\ s \in ThreadState /\ s.inst \in 0..ninst' /\ s.cached \in 0..ninst' /\ CallOK(t, s)
      /\ ninst' \in Nat /\ ninst <= ninst'
  BY <1>1, <1>2 DEF ThreadOK
<1>4. ThreadsOK' /\ SingleAdmission'
  BY <1>2, <1>3, Moves
<1>5. UpstreamOK' /\ FlightOK' /\ GhostOK'
  BY DEF SInv, UpstreamOK, FlightOK, GhostOK, upstreamVars, flightVars, ghostVars
<1>6. RowsOK'
  BY <1>2 DEF SInv, RowsOK, RowOK, cacheVars
<1> QED
  BY <1>4, <1>5, <1>6 DEF SInv

LEMMA CommitKeeps ==
  ASSUME SInv, NEW t \in Threads, NEW cs, NEW s, Commit(t, cs, s), RowOK(cs), ThreadOK(t, s),
         s.pc \in CommitPoints \cup {"idle", "enddel"}, Refreshes(s) <=> Refreshes(th[t]),
         t = Async => Refreshes(th[t]), unavailable' \subseteq Models,
         UNCHANGED <<upstreamVars, refreshing, refreshErr, reAdmitted, disk, ghostVars>>
  PROVE  SInv'
<1>1. UNCHANGED <<refreshing, upstreamVars, disk>>
  OBVIOUS
<1>2. RowsOK' /\ ThreadsOK' /\ SingleAdmission'
  BY <1>1, Commits
<1>3. UpstreamOK' /\ FlightOK' /\ GhostOK'
  BY DEF SInv, UpstreamOK, FlightOK, GhostOK, upstreamVars, ghostVars
<1> QED
  BY <1>2, <1>3 DEF SInv

\* The flight is opened for goroutine l, or closed.
LEMMA FlightOpens ==
  ASSUME SInv, NEW l \in Threads, ~refreshing, refreshing' = TRUE, ninst' = ninst,
         th' = [u \in Threads |-> th'[u]], \A u \in Threads : ThreadOK(u, th'[u]),
         Refreshes(th'[l]), \A u \in Threads \ {l} : ~Refreshes(th'[u])
  PROVE  ThreadsOK' /\ SingleAdmission'
<1>1. \A u \in Threads : InRefresh(u)' <=> Refreshes(th'[u])
  BY DEF InRefresh, Refreshes, RefreshPoints, CommitPoints, At
<1>2. \A u \in Threads : ThreadOK(u, th[u])'
  BY DEF ThreadOK, CallOK, Refreshes
<1> QED
  BY <1>1, <1>2 DEF ThreadsOK, SingleAdmission

LEMMA FlightCloses ==
  ASSUME SInv, refreshing' = FALSE, ninst' = ninst,
         th' = [u \in Threads |-> th'[u]], \A u \in Threads : ThreadOK(u, th'[u]),
         \A u \in Threads : ~Refreshes(th'[u]) /\ th'[u].pc # "park"
  PROVE  ThreadsOK' /\ SingleAdmission'
<1>1. \A u \in Threads : InRefresh(u)' <=> Refreshes(th'[u])
  BY DEF InRefresh, Refreshes, RefreshPoints, CommitPoints, At
<1>2. \A u \in Threads : ThreadOK(u, th[u])'
  BY DEF ThreadOK, CallOK, Refreshes
<1> QED
  BY <1>1, <1>2 DEF ThreadsOK, SingleAdmission, At

\* What a step of goroutine t may use.
LEMMA Known ==
  ASSUME SInv, NEW t \in Threads
  PROVE  /\ ninst \in Nat /\ ninst <= MaxInst /\ MaxOuter \in Nat
         /\ ThreadOK(t, th[t]) /\ th[t] \in ThreadState
         /\ RowOK(state) /\ RowOK(disk)
         /\ state.inst \in InstRef /\ state.inst \in 0..ninst
         /\ th[t].pc \notin RefreshPoints \cup {"write"} => ~Refreshes(th[t])
         /\ th[t].pc \in RefreshPoints => Refreshes(th[t])
<1>1. ninst \in 0..MaxInst /\ MaxInst \in Nat /\ MaxOuter \in Nat
  BY SessionAssumption DEF SInv, UpstreamOK
<1>2. RowOK(state) /\ RowOK(disk) /\ ThreadOK(t, th[t])
  BY DEF SInv, RowsOK, ThreadsOK
<1>3. state.inst \in InstRef /\ state.inst \in 0..ninst
  BY <1>1, <1>2 DEF RowOK, InstRef, Insts, NoInst
<1> QED
  BY <1>1, <1>2, <1>3 DEF ThreadOK, Refreshes
----------------------------------------------------------------------------
(* EnsureSessionForModel.                                                  *)

LEMMA EnsureKeeps ==
  ASSUME SInv, NEW t \in Clients \cup Keepers, Ensure(t) \/ EnsureCanceled(t)
  PROVE  SInv'
<1> DEFINE x == th[t]
<1> USE DEF At
<1>1. t \in Threads /\ t # Async /\ Async \in Threads
  BY SessionAssumption DEF Threads
<1>2. /\ ninst \in Nat /\ MaxOuter \in Nat /\ ThreadOK(t, x) /\ x \in ThreadState
      /\ RowOK(state) /\ RowOK(disk) /\ state.inst \in InstRef /\ state.inst \in 0..ninst
      /\ x.pc \notin RefreshPoints \cup {"write"} => ~Refreshes(x)
  BY <1>1, Known
<1>3. CallOK(t, x) /\ x.outer \in 0..MaxOuter /\ x.model \in ModelRef /\ NoInst \in InstRef
      /\ NoInst \in 0..ninst
  BY <1>2, FieldValues DEF ThreadOK, ThreadState, NoInst
\* A call that stays outside refresh, whatever it does next.
<1>4. ASSUME NEW s, Goto(t, s), ThreadOK(t, s), ~Refreshes(s), s.pc # "park",
             x.pc \in {"ensure", "park", "woken", "recheck", "trust"},
             UNCHANGED <<upstreamVars, flightVars, cacheVars, disk, ghostVars>>
      PROVE  SInv'
  <2>1. ~Refreshes(x)
    BY <1>2, <1>4 DEF RefreshPoints
  <2>2. RowOK(disk') /\ UNCHANGED <<upstreamVars, flightVars, cacheVars, ghostVars>>
    BY <1>2, <1>4
  <2>3. Refreshes(s) <=> Refreshes(th[t])
    BY <1>4, <2>1
  <2> QED
    BY <1>1, <1>4, <2>2, <2>3, StaysPut
<1>5. CASE EnsureReuse(t)
  BY <1>1, <1>2, <1>4, <1>5, RidingOK DEF EnsureReuse, FastPath, Ensuring
<1>6. CASE EnsureTrigger(t)
  <2> DEFINE c == Calling(x.model, "none")
  <2>1. /\ x.pc = "ensure" /\ x.outer < MaxOuter /\ ~refreshing /\ refreshing' = TRUE
        /\ refreshErr' = "none" /\ reAdmitted' = state.inst
        /\ th' = [th EXCEPT ![t] = Again(@), ![Async] = Refreshing(c)]
        /\ tried' = [tried EXCEPT ![state.inst] = @ + 1]
        /\ UNCHANGED <<upstreamVars, unavailable, cacheVars, disk, crashes>>
    BY <1>6 DEF EnsureTrigger, FastPath, Ensuring
  <2>2. ThreadOK(t, Again(x)) /\ ~Refreshes(Again(x))
    BY <1>1, <1>2, <2>1, AgainOK
  <2>3. c \in ThreadState
    BY <1>1, <1>2, <1>3, CallingOK DEF ThreadOK
  <2>4. ThreadOK(Async, Refreshing(c)) /\ Refreshes(Refreshing(c))
    BY <1>2, <2>3, RefreshingOK
  <2>5. \A u \in Threads : th'[u] = IF u = t THEN Again(x) ELSE IF u = Async THEN Refreshing(c) ELSE th[u]
    BY <1>1, <2>1 DEF SInv, ThreadsOK
  <2>6. th' = [u \in Threads |-> th'[u]]
    BY <2>1 DEF SInv, ThreadsOK
  <2>7. \A u \in Threads : ThreadOK(u, th[u]) /\ ~Refreshes(th[u])
    BY <2>1, Points DEF SInv, ThreadsOK, SingleAdmission
  <2>8. \A u \in Threads : ThreadOK(u, th'[u])
    BY <2>2, <2>4, <2>5, <2>7
  <2>9. Refreshes(th'[Async]) /\ \A u \in Threads \ {Async} : ~Refreshes(th'[u])
    BY <1>1, <2>2, <2>4, <2>5, <2>7
  <2>10. ninst' = ninst
    BY <2>1 DEF upstreamVars
  <2>11. ThreadsOK' /\ SingleAdmission'
    BY <1>1, <2>1, <2>6, <2>8, <2>9, <2>10, FlightOpens
  <2>12. UpstreamOK' /\ RowsOK'
    BY <2>1 DEF SInv, UpstreamOK, RowsOK, RowOK, upstreamVars, cacheVars
  <2>13. FlightOK'
    BY <1>2, <2>1, <2>10 DEF SInv, FlightOK
  <2>14. GhostOK'
    <3>1. tried \in [Insts -> Nat] /\ crashes \in 0..MaxCrashes
      BY DEF SInv, GhostOK
    <3>2. tried' = [i \in Insts |-> IF i = state.inst THEN tried[i] + 1 ELSE tried[i]]
      BY <2>1, <3>1
    <3>3. \A i \in Insts : (IF i = state.inst THEN tried[i] + 1 ELSE tried[i]) \in Nat
      BY <3>1
    <3>4. crashes' = crashes
      BY <2>1
    <3> QED
      BY <3>1, <3>2, <3>3, <3>4 DEF GhostOK
  <2> QED
    BY <2>11, <2>12, <2>13, <2>14 DEF SInv
<1>7. CASE EnsureAnswer(t)
  BY <1>1, <1>2, <1>3, <1>4, <1>7, RidingOK, IdleOK DEF EnsureAnswer, Ensuring
<1>8. CASE EnsurePark(t)
  <2>1. PICK s : s = To(t, "park")
    OBVIOUS
  <2>2. /\ Goto(t, s) /\ refreshing /\ x.pc = "ensure" /\ x.outer < MaxOuter
        /\ UNCHANGED <<upstreamVars, flightVars, cacheVars, disk, ghostVars>>
    BY <1>8, <2>1 DEF EnsurePark, Ensuring
  <2>3. s \in ThreadState
    BY <1>2, <2>1, FieldValues DEF To, ThreadState
  <2>4. s.pc = "park" /\ s.outer = x.outer /\ s.inst = x.inst /\ s.cached = x.cached
    BY <1>2, <2>1 DEF To, ThreadState
  <2>5. ~Refreshes(s) /\ ~Refreshes(x)
    BY <1>2, <2>2, <2>4 DEF Refreshes, RefreshPoints
  <2>6. ThreadOK(t, s)
    BY <1>1, <1>2, <2>2, <2>3, <2>4, <2>5 DEF ThreadOK, CallOK
  <2>7. RowOK(disk') /\ UNCHANGED <<upstreamVars, flightVars, cacheVars, ghostVars>>
    BY <1>2, <2>2
  <2> QED
    BY <1>1, <2>2, <2>5, <2>6, <2>7, StaysPut
<1>9. CASE EnsureLead(t)
  <2>1. /\ x.pc = "ensure" /\ x.outer < MaxOuter /\ ~refreshing /\ refreshing' = TRUE
        /\ refreshErr' = "none" /\ Goto(t, Refreshing(x))
        /\ UNCHANGED <<upstreamVars, reAdmitted, unavailable, cacheVars, disk, ghostVars>>
    BY <1>9 DEF EnsureLead, Ensuring
  <2>2. ThreadOK(t, Refreshing(x)) /\ Refreshes(Refreshing(x))
    BY <1>2, <2>1, RefreshingOK
  <2>3. \A u \in Threads : th'[u] = IF u = t THEN Refreshing(x) ELSE th[u]
    BY <1>1, <2>1 DEF SInv, ThreadsOK, Goto
  <2>4. th' = [u \in Threads |-> th'[u]]
    BY <2>1 DEF SInv, ThreadsOK, Goto
  <2>5. \A u \in Threads : ThreadOK(u, th[u]) /\ ~Refreshes(th[u])
    BY <2>1, Points DEF SInv, ThreadsOK, SingleAdmission
  <2>6. \A u \in Threads : ThreadOK(u, th'[u])
    BY <2>2, <2>3, <2>5
  <2>7. Refreshes(th'[t]) /\ \A u \in Threads \ {t} : ~Refreshes(th'[u])
    BY <1>1, <2>2, <2>3, <2>5
  <2>8. ninst' = ninst
    BY <2>1 DEF upstreamVars
  <2>9. ThreadsOK' /\ SingleAdmission'
    BY <1>1, <2>1, <2>4, <2>6, <2>7, <2>8, FlightOpens
  <2>10. UpstreamOK' /\ RowsOK'
    BY <2>1 DEF SInv, UpstreamOK, RowsOK, RowOK, upstreamVars, cacheVars
  <2>11. FlightOK' /\ GhostOK'
    BY <2>1, <2>8 DEF SInv, FlightOK, GhostOK, ghostVars
  <2> QED
    BY <2>9, <2>10, <2>11 DEF SInv
<1>10. CASE EnsureGivesUp(t)
  BY <1>2, <1>4, <1>10, IdleOK DEF EnsureGivesUp
<1>11. CASE EnsureCanceled(t)
  BY <1>2, <1>4, <1>11, IdleOK DEF EnsureCanceled
<1>12. CASE Woken(t)
  <2>1. x.pc = "woken" /\ x.outer < MaxOuter
        /\ UNCHANGED <<upstreamVars, flightVars, cacheVars, disk, ghostVars>>
    BY <1>1, <1>3, <1>12 DEF Woken, CallOK
  <2>2. CASE Goto(t, Again(x))
    BY <1>1, <1>2, <1>4, <2>1, <2>2, AgainOK
  <2>3. CASE Goto(t, To(t, "recheck"))
    <3>1. PICK s : s = To(t, "recheck")
      OBVIOUS
    <3>2. s \in ThreadState
      BY <1>2, <3>1, FieldValues DEF To, ThreadState
    <3>3. s.pc = "recheck" /\ s.inst = x.inst /\ s.cached = x.cached
      BY <1>2, <3>1 DEF To, ThreadState
    <3>4. ~Refreshes(s)
      BY <3>3 DEF Refreshes, RefreshPoints
    <3>5. ThreadOK(t, s)
      BY <1>1, <1>2, <3>2, <3>3, <3>4 DEF ThreadOK, CallOK
    <3> QED
      BY <1>4, <2>1, <2>3, <3>1, <3>3, <3>4, <3>5
  <2> QED
    BY <1>12, <2>2, <2>3 DEF Woken
<1>13. CASE Recheck(t)
  BY <1>1, <1>2, <1>4, <1>13, RidingOK, IdleOK DEF Recheck
<1>14. CASE Trust(t)
  <2>1. x.pc = "trust" /\ x.outer < MaxOuter
    BY <1>1, <1>3, <1>14 DEF Trust, CallOK
  <2>2. UNCHANGED <<upstreamVars, flightVars, cacheVars, disk, ghostVars>>
    BY <1>14 DEF Trust
  <2>3. ASSUME NEW i \in {state.inst, NoInst}, Goto(t, Riding(x, i)) PROVE SInv'
    <3>1. /\ ThreadOK(t, Riding(x, i)) /\ ~Refreshes(Riding(x, i))
          /\ Riding(x, i).pc \in {"idle", "ride"}
      BY <1>1, <1>2, <1>3, RidingOK
    <3> QED
      BY <1>4, <2>1, <2>2, <2>3, <3>1
  <2>4. CASE Goto(t, Idle)
    BY <1>2, <1>4, <2>1, <2>2, <2>4, IdleOK
  <2>5. CASE Goto(t, Again(x))
    BY <1>1, <1>2, <1>4, <2>1, <2>2, <2>5, AgainOK
  <2> QED
    BY <1>14, <2>3, <2>4, <2>5 DEF Trust
<1> QED
  BY <1>5, <1>6, <1>7, <1>8, <1>9, <1>10, <1>11, <1>12, <1>13, <1>14 DEF Ensure
----------------------------------------------------------------------------
(* refresh.                                                                *)

\* What a goroutine inside refresh may go on as.
Onward(t, s) ==
  /\ s \in ThreadState /\ s.inst \in 0..ninst /\ s.cached \in 0..ninst
  /\ s.outer = th[t].outer /\ s.pc \in RefreshPoints
  /\ s.pc \in {"getp", "gotp", "getq"} => s.inst # NoInst
  /\ s.pc = "answer" /\ s.reply \in {"active", "queued", "grace", "locked"} => s.inst # NoInst
  /\ s.pc = "answer" /\ s.reply = "unavailable" => s.target \in Models
  /\ s.pc = "finish" => s.reply \in {"none", "failed", "canceled"}

LEMMA OnwardOK ==
  ASSUME SInv, NEW t \in Threads, Refreshes(th[t]), NEW s, Onward(t, s)
  PROVE  ThreadOK(t, s) /\ Refreshes(s)
<1>1. t # Async => s.outer < MaxOuter
  BY DEF SInv, ThreadsOK, ThreadOK, CallOK, Onward
<1>2. Refreshes(s) /\ s.pc \notin {"write", "poll", "polled"}
  BY DEF Onward, Refreshes, RefreshPoints
<1> QED
  BY <1>1, <1>2 DEF Onward, ThreadOK, CallOK

LEMMA RefreshMoves ==
  ASSUME SInv, NEW t \in Threads, th[t].pc \in RefreshPoints, NEW s, Goto(t, s), Onward(t, s),
         UNCHANGED <<upstreamVars, flightVars, cacheVars, ghostVars>>, RowOK(disk')
  PROVE  SInv'
<1>1. Refreshes(th[t])
  BY DEF Refreshes
<1>2. ThreadOK(t, s) /\ Refreshes(s) /\ s.pc # "park"
  BY <1>1, OnwardOK DEF Onward, RefreshPoints
<1> QED
  BY <1>1, <1>2, StaysPut

LEMMA RefreshCommits ==
  ASSUME SInv, NEW t \in Threads, th[t].pc \in RefreshPoints, NEW s, NEW cs,
         Commit(t, cs, s), Onward(t, s), s.pc \in CommitPoints, RowOK(cs),
         unavailable' \subseteq Models,
         UNCHANGED <<upstreamVars, refreshing, refreshErr, reAdmitted, disk, ghostVars>>
  PROVE  SInv'
<1>1. Refreshes(th[t])
  BY DEF Refreshes
<1>2. ThreadOK(t, s) /\ Refreshes(s)
  BY <1>1, OnwardOK
<1> QED
  BY <1>1, <1>2, CommitKeeps

LEMMA RefreshKeeps ==
  ASSUME SInv, NEW t \in Threads,
         \/ ShortCircuit(t) \/ RefreshLoop(t) \/ LoadPersisted(t) \/ AnswerPersisted(t)
         \/ ReleaseHeld(t) \/ ReleasedHeld(t) \/ AnswerReturns(t) \/ AnswerRetries(t)
  PROVE  SInv'
<1> DEFINE x == th[t]
           still == UNCHANGED <<upstreamVars, flightVars, cacheVars, ghostVars>>
           commits == UNCHANGED <<upstreamVars, refreshing, refreshErr, reAdmitted, disk, ghostVars>>
<1> USE DEF At
<1>1. /\ ninst \in Nat /\ ThreadOK(t, x) /\ x \in ThreadState
      /\ RowOK(state) /\ RowOK(disk) /\ state.inst \in InstRef /\ state.inst \in 0..ninst
      /\ x.pc \in RefreshPoints => Refreshes(x)
  BY Known
<1>2. /\ CallOK(t, x) /\ x.inst \in 0..ninst /\ x.cached \in 0..ninst
      /\ t # Async /\ Refreshes(x) => x.outer < MaxOuter
      /\ NoInst \in 0..ninst /\ unavailable \subseteq Models
  BY <1>1 DEF ThreadOK, CallOK, NoInst, SInv, FlightOK
<1>3. RowOK(Nil) /\ RowOK(Disabled)
  BY <1>1, NoRow
\* refresh returns with e.
<1>4. \A e \in {"none", "failed", "canceled"} :
        x.pc \in RefreshPoints => /\ Onward(t, Returns(x, e)) /\ Returns(x, e).pc \in CommitPoints
  <2> SUFFICES ASSUME NEW e \in {"none", "failed", "canceled"}, x.pc \in RefreshPoints
               PROVE  Onward(t, Returns(x, e)) /\ Returns(x, e).pc \in CommitPoints
    OBVIOUS
  <2>1. ThreadOK(t, Returns(x, e)) /\ Returns(x, e).pc = "finish" /\ Returns(x, e).inst = NoInst
    BY <1>1, <1>2, ReturnsOK
  <2>2. Returns(x, e).reply = e /\ Returns(x, e).outer = x.outer
    BY DEF Returns, Idle
  <2> QED
    BY <2>1, <2>2 DEF Onward, ThreadOK, RefreshPoints, CommitPoints
<1>5. CASE ShortCircuit(t)
  <2> HIDE DEF x
  <2>1. x.pc = "short" /\ x.pc \in RefreshPoints /\ unavailable' = unavailable
        /\ UNCHANGED <<upstreamVars, flightVars, disk, ghostVars>> /\ commits
    BY <1>5 DEF ShortCircuit, flightVars, RefreshPoints, x
  <2>2. CASE Goto(t, To(t, "loop")) /\ UNCHANGED cacheVars
    <3>1. PICK s : s = To(t, "loop")
      OBVIOUS
    <3>2. s \in ThreadState
      BY <1>1, <3>1, FieldValues DEF To, ThreadState, x
    <3>3. s.pc = "loop" /\ s.inst = x.inst /\ s.cached = x.cached /\ s.outer = x.outer
      BY <1>1, <3>1 DEF To, ThreadState, x
    <3>4. Onward(t, s)
      BY <1>2, <3>2, <3>3 DEF Onward, RefreshPoints, x
    <3> QED
      BY <1>1, <2>1, <2>2, <3>1, <3>4, RefreshMoves DEF x
  <2>3. CASE Goto(t, Returns(x, "none")) /\ UNCHANGED cacheVars
    BY <1>1, <1>4, <2>1, <2>3, RefreshMoves DEF x
  <2>4. CASE Commit(t, Nil, [x EXCEPT !.pc = "loop", !.target = Fallback])
    <3>1. PICK s : s = [x EXCEPT !.pc = "loop", !.target = Fallback]
      OBVIOUS
    <3>2. s \in ThreadState
      BY <1>1, <3>1, FieldValues DEF ThreadState
    <3>3. s.pc = "loop" /\ s.inst = x.inst /\ s.cached = x.cached /\ s.outer = x.outer
      BY <1>1, <3>1 DEF ThreadState
    <3>4. Onward(t, s) /\ s.pc \in CommitPoints
      BY <1>2, <3>2, <3>3 DEF Onward, RefreshPoints, CommitPoints, x
    <3> QED
      BY <1>2, <1>3, <2>1, <2>4, <3>1, <3>4, RefreshCommits DEF x
  <2> QED
    BY <1>5, <2>2, <2>3, <2>4 DEF ShortCircuit, x
<1>6. CASE RefreshLoop(t)
  <2> DEFINE r == [x EXCEPT !.iter = @ + 1, !.cached = state.inst, !.inst = NoInst, !.reply = "none"]
  <2>1. x.pc = "loop" /\ x.pc \in RefreshPoints /\ still /\ RowOK(disk')
    BY <1>1, <1>6 DEF RefreshLoop, RefreshPoints
  <2>2. ASSUME NEW e \in {"none", "failed", "canceled"}, Goto(t, Returns(x, e)) PROVE SInv'
    BY <1>4, <2>1, <2>2, RefreshMoves
  <2>3. ASSUME NEW p \in {"getq", "load", "create", "release"}, NEW i \in {NoInst, state.inst},
               p = "getq" => i # NoInst, x.iter < MaxRefresh,
               NEW s, s = [r EXCEPT !.pc = p, !.inst = i], Goto(t, s)
        PROVE  SInv'
    <3>1. x.iter + 1 \in 0..MaxRefresh
      BY <1>1, <2>3, SessionAssumption DEF ThreadState
    <3>2. s = [x EXCEPT !.iter = x.iter + 1, !.cached = state.inst, !.inst = i, !.reply = "none", !.pc = p]
      BY <1>1, <2>3 DEF ThreadState
    <3>3. p \in PCs /\ i \in InstRef /\ "none" \in Replies
      BY <1>1, FieldValues
    <3>4. s \in ThreadState
      BY <1>1, <3>1, <3>2, <3>3 DEF ThreadState
    <3>5. s.pc = p /\ s.inst = i /\ s.cached = state.inst /\ s.outer = x.outer /\ s.reply = "none"
      BY <1>1, <3>2 DEF ThreadState
    <3>6. Onward(t, s)
      BY <1>1, <1>2, <2>3, <3>4, <3>5 DEF Onward, RefreshPoints
    <3> QED
      BY <2>1, <2>3, <3>6, RefreshMoves
  <2>4. state.status = "queued" => state.inst # NoInst
    BY <1>1 DEF RowOK
  <2>5. ASSUME x.iter < MaxRefresh,
               Goto(t, CASE state.status = "queued" -> [r EXCEPT !.pc = "getq", !.inst = state.inst]
                         [] state.status = "nil" ->
                              [r EXCEPT !.pc = IF HasStore THEN "load" ELSE "create"]
                         [] OTHER -> [r EXCEPT !.pc = "release"])
        PROVE  SInv'
    <3>1. r.inst = NoInst /\ \A p : [r EXCEPT !.pc = p] = [r EXCEPT !.pc = p, !.inst = NoInst]
      BY <1>1 DEF ThreadState
    <3>2. CASE state.status = "queued"
      BY <2>3, <2>4, <2>5, <3>2
    <3>3. CASE state.status = "nil"
      BY <2>3, <2>5, <3>1, <3>3
    <3>4. CASE state.status \notin {"queued", "nil"}
      BY <2>3, <2>5, <3>1, <3>4
    <3> QED
      BY <3>2, <3>3, <3>4
  <2> QED
    BY <1>6, <2>2, <2>5 DEF RefreshLoop
\* On to another point of refresh, with another instance or without one.
<1>7. ASSUME x.pc \in RefreshPoints, NEW s, NEW p \in RefreshPoints \ {"finish", "getq"},
             NEW i \in 0..ninst, NEW e \in {x.reply, "none"},
             s = [x EXCEPT !.pc = p, !.inst = i, !.reply = e],
             p \in {"getp", "gotp"} => i # NoInst,
             p = "answer" => /\ e \in {"active", "queued", "grace", "locked"} => i # NoInst
                             /\ e = "unavailable" => x.target \in Models
      PROVE  Onward(t, s)
  <2>1. p \in PCs /\ e \in Replies
    BY <1>1, <1>7, FieldValues DEF RefreshPoints, ThreadState
  <2>4. i \in InstRef
    BY <1>1, <1>7, Known, SessionAssumption DEF InstRef, Insts, NoInst
  <2>2. s \in ThreadState
    BY <1>1, <1>7, <2>1, <2>4 DEF ThreadState
  <2>3. s.pc = p /\ s.inst = i /\ s.reply = e /\ s.cached = x.cached /\ s.outer = x.outer
        /\ s.target = x.target
    BY <1>1, <1>7 DEF ThreadState
  <2> QED
    BY <1>2, <1>7, <2>2, <2>3 DEF Onward
<1>8. /\ \A p : [x EXCEPT !.pc = p] = [x EXCEPT !.pc = p, !.inst = x.inst, !.reply = x.reply]
      /\ \A p, i : [[x EXCEPT !.pc = p] EXCEPT !.inst = i]
                     = [x EXCEPT !.pc = p, !.inst = i, !.reply = x.reply]
      /\ x.reply \in Replies
  BY <1>1 DEF ThreadState
<1>16. \A p \in {"create", "delete"}, i \in {NoInst, x.inst, state.inst}, e \in {x.reply, "none"} :
         x.pc \in RefreshPoints => Onward(t, [x EXCEPT !.pc = p, !.inst = i, !.reply = e])
  <2> SUFFICES ASSUME NEW p \in {"create", "delete"}, NEW i \in {NoInst, x.inst, state.inst},
                      NEW e \in {x.reply, "none"}, x.pc \in RefreshPoints
               PROVE  Onward(t, [x EXCEPT !.pc = p, !.inst = i, !.reply = e])
    OBVIOUS
  <2>1. p \in RefreshPoints \ {"finish", "getq"} /\ i \in 0..ninst
    BY <1>1, <1>2 DEF RefreshPoints
  <2> QED
    BY <1>7, <2>1
<1>9. \A i : RowOK(Without(disk, i))
  BY <1>1, <1>3 DEF Without
<1>10. CASE LoadPersisted(t)
  <2>1. x.pc = "load" /\ x.pc \in RefreshPoints /\ still
    BY <1>10 DEF LoadPersisted, RefreshPoints
  <2>2. CASE disk.status = "active" /\ Goto(t, [To(t, "getp") EXCEPT !.inst = disk.inst])
             /\ UNCHANGED disk
    <3>1. PICK s : s = [x EXCEPT !.pc = "getp", !.inst = disk.inst, !.reply = x.reply]
      OBVIOUS
    <3>2. disk.inst # NoInst /\ disk.inst \in 0..ninst
      BY <1>1, <2>2 DEF RowOK
    <3>3. Onward(t, s)
      BY <1>7, <2>1, <3>1, <3>2 DEF RefreshPoints
    <3>4. Goto(t, s)
      BY <1>8, <2>2, <3>1 DEF To
    <3> QED
      BY <1>1, <2>1, <2>2, <3>3, <3>4, RefreshMoves
  <2>3. CASE Goto(t, To(t, "create")) /\ disk' \in {Nil, disk}
    <3>1. PICK s : s = [x EXCEPT !.pc = "create", !.inst = x.inst, !.reply = x.reply]
      OBVIOUS
    <3>2. Onward(t, s)
      BY <1>16, <2>1, <3>1
    <3>3. Goto(t, s)
      BY <1>8, <2>3, <3>1 DEF To
    <3> QED
      BY <1>1, <1>3, <2>1, <2>3, <3>2, <3>3, RefreshMoves
  <2> QED
    BY <1>10, <2>2, <2>3 DEF LoadPersisted
<1>11. CASE AnswerPersisted(t)
  <2>1. x.pc = "gotp" /\ x.pc \in RefreshPoints /\ still /\ x.inst # NoInst
    BY <1>2, <1>11 DEF AnswerPersisted, RefreshPoints, CallOK
  <2>2. RowOK(disk')
    BY <1>1, <1>9, <1>11 DEF AnswerPersisted
  <2>3. CASE Goto(t, [x EXCEPT !.pc = "create", !.inst = NoInst, !.reply = "none"])
    <3>1. PICK s : s = [x EXCEPT !.pc = "create", !.inst = NoInst, !.reply = "none"]
      OBVIOUS
    <3>2. Onward(t, s)
      BY <1>16, <2>1, <3>1
    <3> QED
      BY <2>1, <2>2, <2>3, <3>1, <3>2, RefreshMoves
  <2>4. CASE Goto(t, To(t, "answer")) /\ x.reply # "unavailable"
    <3>1. PICK s : s = [x EXCEPT !.pc = "answer", !.inst = x.inst, !.reply = x.reply]
      OBVIOUS
    <3>2. Onward(t, s)
      BY <1>2, <1>7, <2>1, <2>4, <3>1 DEF RefreshPoints
    <3>3. Goto(t, s)
      BY <1>8, <2>4, <3>1 DEF To
    <3> QED
      BY <2>1, <2>2, <3>2, <3>3, RefreshMoves
  <2> QED
    BY <1>11, <2>3, <2>4 DEF AnswerPersisted
<1>12. CASE ReleaseHeld(t)
  <2>1. x.pc = "release" /\ x.pc \in RefreshPoints /\ still /\ RowOK(disk')
    BY <1>1, <1>12 DEF ReleaseHeld, RefreshPoints
  <2>2. CASE Goto(t, [To(t, "delete") EXCEPT !.inst = state.inst])
    <3>1. PICK s : s = [x EXCEPT !.pc = "delete", !.inst = state.inst, !.reply = x.reply]
      OBVIOUS
    <3>2. Onward(t, s)
      BY <1>16, <2>1, <3>1
    <3>3. Goto(t, s)
      BY <1>8, <2>2, <3>1 DEF To
    <3> QED
      BY <2>1, <3>2, <3>3, RefreshMoves
  <2>3. CASE Goto(t, To(t, "create"))
    <3>1. PICK s : s = [x EXCEPT !.pc = "create", !.inst = x.inst, !.reply = x.reply]
      OBVIOUS
    <3>2. Onward(t, s)
      BY <1>16, <2>1, <3>1
    <3>3. Goto(t, s)
      BY <1>8, <2>3, <3>1 DEF To
    <3> QED
      BY <2>1, <3>2, <3>3, RefreshMoves
  <2> QED
    BY <1>12, <2>2, <2>3 DEF ReleaseHeld
<1>13. CASE ReleasedHeld(t)
  <2>1. /\ x.pc = "deleted" /\ x.pc \in RefreshPoints /\ unavailable' = unavailable
        /\ UNCHANGED <<upstreamVars, flightVars, disk, ghostVars>> /\ commits
    BY <1>13 DEF ReleasedHeld, flightVars, RefreshPoints
  <2>2. PICK s : s = [x EXCEPT !.pc = "create", !.inst = NoInst, !.reply = x.reply]
    OBVIOUS
  <2>3. s = [To(t, "create") EXCEPT !.inst = NoInst]
    BY <1>8, <2>2 DEF To
  <2>4. Onward(t, s)
    BY <1>16, <2>1, <2>2
  <2>5. s.pc \in CommitPoints
    BY <1>1, <2>2 DEF CommitPoints, ThreadState
  <2>6. CASE Commit(t, Nil, s)
    BY <1>2, <1>3, <2>1, <2>4, <2>5, <2>6, RefreshCommits
  <2>7. CASE Goto(t, s) /\ UNCHANGED cacheVars
    BY <1>1, <2>1, <2>4, <2>7, RefreshMoves
  <2> QED
    BY <1>13, <2>3, <2>6, <2>7 DEF ReleasedHeld
<1>14. CASE AnswerReturns(t)
  <2>1. /\ x.pc = "answer" /\ x.pc \in RefreshPoints /\ unavailable' = unavailable
        /\ UNCHANGED <<upstreamVars, flightVars, disk, ghostVars>> /\ commits
    BY <1>14 DEF AnswerReturns, flightVars, RefreshPoints
  <2>2. \A st \in {"active", "queued", "ended"} :
          x.reply \in {"active", "queued", "grace"} => RowOK(Row(st, x.inst, modelOf[x.inst]))
    <3>1. x.reply \in {"active", "queued", "grace"} => x.inst \in Insts /\ modelOf[x.inst] \in ModelRef
      BY <1>1, <1>2, <2>1, SessionAssumption DEF CallOK, SInv, UpstreamOK, Insts, NoInst
    <3> QED
      BY <1>2, <3>1 DEF RowOK, Row, Cached, InstRef, Insts, NoInst
  <2>3. ASSUME NEW e \in {"none", "failed", "canceled"}, NEW cs, RowOK(cs), Commit(t, cs, Returns(x, e))
        PROVE  SInv'
    BY <1>2, <1>4, <2>1, <2>3, RefreshCommits
  <2>4. ASSUME NEW e \in {"none", "failed", "canceled"}, Goto(t, Returns(x, e)), UNCHANGED cacheVars
        PROVE  SInv'
    BY <1>1, <1>4, <2>1, <2>4, RefreshMoves
  <2> QED
    BY <1>3, <1>14, <2>2, <2>3, <2>4 DEF AnswerReturns
<1>15. CASE AnswerRetries(t)
  <2> DEFINE r == [x EXCEPT !.pc = "loop", !.inst = NoInst, !.cached = NoInst, !.reply = "none"]
  <2>1. x.pc = "answer" /\ x.pc \in RefreshPoints /\ commits
    BY <1>15 DEF AnswerRetries, RefreshPoints
  <2>2. ASSUME NEW p \in {"loop", "unlock"}, NEW i \in {NoInst, x.inst}, NEW m \in {x.target, Fallback},
               NEW s, s = [r EXCEPT !.pc = p, !.inst = i, !.target = m],
               Commit(t, Nil, s), unavailable' \subseteq Models
        PROVE  SInv'
    <3>1. p \in PCs /\ i \in InstRef /\ "none" \in Replies /\ m \in ModelRef /\ NoInst \in InstRef
      BY <1>1, FieldValues DEF ThreadState
    <3>2. s = [x EXCEPT !.pc = p, !.inst = i, !.cached = NoInst, !.reply = "none", !.target = m]
      BY <1>1, <2>2 DEF ThreadState
    <3>3. s \in ThreadState
      BY <1>1, <3>1, <3>2 DEF ThreadState
    <3>4. s.pc = p /\ s.inst = i /\ s.cached = NoInst /\ s.outer = x.outer
      BY <1>1, <3>2 DEF ThreadState
    <3>5. Onward(t, s) /\ s.pc \in CommitPoints
      BY <1>2, <2>2, <3>3, <3>4 DEF Onward, RefreshPoints, CommitPoints
    <3> QED
      BY <1>3, <2>1, <2>2, <3>5, RefreshCommits
  <2>3. /\ r = [r EXCEPT !.pc = "loop", !.inst = NoInst, !.target = x.target]
        /\ [r EXCEPT !.pc = "unlock", !.inst = x.inst]
             = [r EXCEPT !.pc = "unlock", !.inst = x.inst, !.target = x.target]
        /\ [r EXCEPT !.target = Fallback] = [r EXCEPT !.pc = "loop", !.inst = NoInst, !.target = Fallback]
    BY <1>1 DEF ThreadState
  <2>4. CASE Commit(t, Nil, r) /\ UNCHANGED unavailable
    BY <1>2, <2>2, <2>3, <2>4
  <2>5. CASE Commit(t, Nil, [r EXCEPT !.pc = "unlock", !.inst = x.inst]) /\ UNCHANGED unavailable
    BY <1>2, <2>2, <2>3, <2>5
  <2>6. CASE /\ x.reply = "unavailable" /\ unavailable' = unavailable \cup {x.target}
             /\ Commit(t, Nil, [r EXCEPT !.target = Fallback])
    <3>1. unavailable' \subseteq Models
      BY <1>2, <2>1, <2>6 DEF CallOK
    <3> QED
      BY <2>2, <2>3, <2>6, <3>1
  <2> QED
    BY <1>15, <2>4, <2>5, <2>6 DEF AnswerRetries
<1> QED
  BY <1>5, <1>6, <1>10, <1>11, <1>12, <1>13, <1>14, <1>15
----------------------------------------------------------------------------
(* Calls upstream and writes to the store.                                 *)

\* A call that comes back: upstream has changed, the process has not.
LEMMA CallReturns ==
  ASSUME SInv, NEW t \in Threads, NEW s, Goto(t, s),
         s \in ThreadState, s.inst \in 0..ninst', s.cached \in 0..ninst', CallOK(t, s),
         Refreshes(s) <=> Refreshes(th[t]), s.pc # "park",
         UpstreamOK', ninst <= ninst', \A i \in 1..ninst : modelOf'[i] = modelOf[i],
         UNCHANGED <<flightVars, cacheVars, disk, ghostVars>>
  PROVE  SInv'
<1>1. ninst \in Nat /\ ninst' \in Nat /\ UNCHANGED refreshing
  BY SessionAssumption DEF SInv, UpstreamOK, flightVars
<1>2. ThreadsOK' /\ SingleAdmission'
  BY <1>1, Moves
<1>3. ASSUME NEW c, RowOK(c)
      PROVE  /\ c \in Cached /\ c.inst \in 0..ninst'
             /\ c.status \in {"active", "ended", "queued"} <=> c.inst # NoInst
             /\ c.inst # NoInst => c.model = modelOf'[c.inst]
  BY <1>1, <1>3 DEF RowOK, NoInst
<1>4. RowOK(state)' /\ RowOK(disk)' /\ RowOK(persist.row)'
  <2>1. state' = state /\ disk' = disk /\ persist' = persist
    BY DEF cacheVars
  <2>2. RowOK(state) /\ RowOK(disk) /\ RowOK(persist.row)
    BY DEF SInv, RowsOK
  <2> QED
    BY <1>3, <2>1, <2>2 DEF RowOK
<1>5. persist'.old \in 0..ninst' /\ persist'.held \in BOOLEAN
  BY <1>1 DEF SInv, RowsOK, cacheVars
<1>6. FlightOK'
  BY <1>1 DEF SInv, FlightOK, flightVars
<1>7. GhostOK'
  BY DEF SInv, GhostOK, ghostVars
<1> QED
  BY <1>2, <1>4, <1>5, <1>6, <1>7 DEF SInv, RowsOK

LEMMA CallsKeep ==
  ASSUME SInv, NEW t \in Threads, Get(t) \/ Delete(t) \/ Post(t)
  PROVE  SInv'
<1> DEFINE x == th[t]
           silent == UNCHANGED <<flightVars, cacheVars, disk, ghostVars>>
<1> USE DEF At
<1>1. /\ ninst \in Nat /\ ThreadOK(t, x) /\ x \in ThreadState
      /\ x.pc \in RefreshPoints => Refreshes(x)
      /\ x.pc \notin RefreshPoints \cup {"write"} => ~Refreshes(x)
      /\ MaxInst \in Nat /\ ninst <= MaxInst
  BY Known, SessionAssumption
<1>2. /\ CallOK(t, x) /\ x.inst \in 0..ninst /\ x.cached \in 0..ninst
      /\ t # Async /\ Refreshes(x) => x.outer < MaxOuter
      /\ NoInst \in 0..ninst
  BY <1>1 DEF ThreadOK, CallOK, NoInst
<1>3. /\ ninst \in 0..MaxInst
      /\ modelOf \in [Insts -> ModelRef] /\ \A i \in 1..ninst : modelOf[i] \in Models
      /\ age \in [InstRef -> {"queued", "fresh", "lead", "grace", "dead"}]
      /\ seat \in 0..ninst
  BY DEF SInv, UpstreamOK
<1>4. CASE Get(t)
  <2>1. x.pc \in {"getp", "getq", "poll"} /\ x.inst # NoInst /\ silent
        /\ ninst' = ninst /\ modelOf' = modelOf
    BY <1>2, <1>4 DEF Get, CallOK
  <2>2. UpstreamOK'
    <3>1. age' \in [InstRef -> {"queued", "fresh", "lead", "grace", "dead"}] /\ seat' \in 0..ninst
      BY <1>2, <1>3, <1>4 DEF Get
    <3> QED
      BY <1>3, <2>1, <3>1 DEF UpstreamOK
  <2>3. PICK p \in {"gotp", "answer", "polled"}, e \in Replies \ {"unavailable"} :
          /\ Goto(t, [x EXCEPT !.pc = p, !.reply = e])
          /\ x.pc = "poll" <=> p = "polled"
    <3>1. {"queued", "refused", "grace", "active"}
            \cup (Answers \cap {"denied", "gone", "error", "canceled"}) \subseteq Replies \ {"unavailable"}
      BY FieldValues
    <3> DEFINE p == CASE x.pc = "getp" -> "gotp" [] x.pc = "getq" -> "answer" [] OTHER -> "polled"
    <3>2. p \in {"gotp", "answer", "polled"} /\ (x.pc = "poll" <=> p = "polled")
      BY <2>1
    <3>3. \E e \in Replies \ {"unavailable"} : Goto(t, [x EXCEPT !.pc = p, !.reply = e])
      <4>1. \A e : [x EXCEPT !.pc = CASE @ = "getp" -> "gotp" [] @ = "getq" -> "answer"
                                      [] OTHER -> "polled", !.reply = e]
                     = [x EXCEPT !.pc = p, !.reply = e]
        BY <1>1 DEF ThreadState
      <4> HIDE DEF p
      <4>2. \E e \in {"queued", "refused", "grace", "active"}
                       \cup (Answers \cap {"denied", "gone", "error", "canceled"}) :
              Goto(t, [x EXCEPT !.pc = p, !.reply = e])
        BY <1>4, <4>1 DEF Get
      <4> QED
        BY <3>1, <4>2
    <3> QED
      BY <3>2, <3>3
  <2>4. PICK s : s = [x EXCEPT !.pc = p, !.reply = e]
    OBVIOUS
  <2>11. p \in PCs /\ e \in Replies
    BY <2>3, FieldValues
  <2>5. s \in ThreadState
    BY <1>1, <2>4, <2>11 DEF ThreadState
  <2>6. s.pc = p /\ s.reply = e /\ s.inst = x.inst /\ s.cached = x.cached /\ s.outer = x.outer
    BY <1>1, <2>4 DEF ThreadState
  <2>7. Refreshes(s) <=> Refreshes(x)
    BY <1>1, <2>1, <2>3, <2>6 DEF Refreshes, RefreshPoints
  <2>8. CallOK(t, s)
    BY <1>2, <2>1, <2>3, <2>6, <2>7 DEF CallOK
  <2>9. s.inst \in 0..ninst' /\ s.cached \in 0..ninst' /\ s.pc # "park" /\ ninst <= ninst'
    BY <1>1, <1>2, <2>1, <2>3, <2>6
  <2>10. \A i \in 1..ninst : modelOf'[i] = modelOf[i]
    BY <2>1
  <2> QED
    BY <2>1, <2>2, <2>3, <2>4, <2>5, <2>7, <2>8, <2>9, <2>10, CallReturns
<1>5. CASE Delete(t)
  <2>1. /\ x.pc \in {"delete", "unlock", "enddel"} /\ silent
        /\ ninst' = ninst /\ modelOf' = modelOf /\ age' = age /\ seat' \in {seat, NoInst}
    BY <1>5 DEF Delete
  <2>2. UpstreamOK'
    BY <1>2, <1>3, <2>1 DEF UpstreamOK
  <2>3. ninst <= ninst' /\ \A i \in 1..ninst : modelOf'[i] = modelOf[i]
    BY <1>1, <2>1
  <2>4. CASE Goto(t, Idle) /\ x.pc = "enddel"
    <3>1. ThreadOK(t, Idle) /\ ~Refreshes(Idle) /\ Idle.pc # "park" /\ ~Refreshes(x)
      BY <1>1, <2>4, IdleOK DEF RefreshPoints
    <3>2. Idle \in ThreadState /\ Idle.inst \in 0..ninst' /\ Idle.cached \in 0..ninst' /\ CallOK(t, Idle)
      BY <2>1, <3>1 DEF ThreadOK
    <3> QED
      BY <2>1, <2>2, <2>3, <2>4, <3>1, <3>2, CallReturns
  <2>5. ASSUME x.pc # "enddel", NEW p \in {"deleted", "loop", "create"}, NEW i \in {x.inst, NoInst},
               NEW s, s = [x EXCEPT !.pc = p, !.inst = i], Goto(t, s)
        PROVE  SInv'
    <3>1. Refreshes(x)
      BY <1>1, <2>1, <2>5 DEF RefreshPoints
    <3>2. p \in PCs /\ i \in InstRef
      BY <1>1, <2>5, FieldValues DEF ThreadState
    <3>3. s \in ThreadState
      BY <1>1, <2>5, <3>2 DEF ThreadState
    <3>4. s.pc = p /\ s.inst = i /\ s.cached = x.cached /\ s.outer = x.outer
      BY <1>1, <2>5 DEF ThreadState
    <3>5. Onward(t, s)
      BY <1>2, <2>5, <3>3, <3>4 DEF Onward, RefreshPoints
    <3>6. Refreshes(s) /\ CallOK(t, s)
      BY <3>1, <3>5, OnwardOK DEF ThreadOK
    <3>7. s.inst \in 0..ninst' /\ s.cached \in 0..ninst' /\ s.pc # "park"
      BY <1>2, <2>1, <2>5, <3>4
    <3> QED
      BY <2>1, <2>2, <2>3, <2>5, <3>1, <3>3, <3>6, <3>7, CallReturns
  <2>6. \A p : [x EXCEPT !.pc = p] = [x EXCEPT !.pc = p, !.inst = x.inst]
    BY <1>1 DEF ThreadState
  <2>7. CASE x.pc = "enddel"
    BY <1>5, <2>4, <2>7 DEF Delete
  <2>8. CASE x.pc = "unlock"
    <3>1. Goto(t, [x EXCEPT !.pc = "loop"])
      BY <1>5, <2>8 DEF Delete, To
    <3> QED
      BY <2>5, <2>6, <2>8, <3>1
  <2>9. CASE x.pc = "delete"
    <3>1. \/ Goto(t, [x EXCEPT !.pc = "deleted"])
          \/ Goto(t, [[x EXCEPT !.pc = "create"] EXCEPT !.inst = NoInst])
      BY <1>5, <2>9 DEF Delete, To
    <3>2. [[x EXCEPT !.pc = "create"] EXCEPT !.inst = NoInst] = [x EXCEPT !.pc = "create", !.inst = NoInst]
      BY <1>1 DEF ThreadState
    <3> QED
      BY <2>5, <2>6, <2>9, <3>1, <3>2
  <2> QED
    BY <2>1, <2>7, <2>8, <2>9
<1>6. CASE Post(t)
  <2>1. x.pc = "create" /\ Refreshes(x) /\ silent
    BY <1>1, <1>6 DEF Post, RefreshPoints
  <2>2. ASSUME NEW i \in 0..ninst', NEW e \in Replies, Goto(t, [To(t, "answer") EXCEPT !.inst = i, !.reply = e]),
               e \in {"active", "queued", "grace", "locked"} => i # NoInst,
               e = "unavailable" => x.target \in Models,
               UpstreamOK', ninst <= ninst', \A j \in 1..ninst : modelOf'[j] = modelOf[j]
        PROVE  SInv'
    <3>1. PICK s : s = [x EXCEPT !.pc = "answer", !.inst = i, !.reply = e]
      OBVIOUS
    <3>2. Goto(t, s)
      <4>1. [To(t, "answer") EXCEPT !.inst = i, !.reply = e] = s
        BY <1>1, <3>1 DEF To, ThreadState
      <4> QED
        BY <2>2, <4>1
    <3>3. i \in InstRef
      BY <2>2, SessionAssumption DEF UpstreamOK, InstRef, Insts, NoInst
    <3>9. "answer" \in PCs
      BY FieldValues
    <3>4. s \in ThreadState
      BY <1>1, <2>2, <3>1, <3>3, <3>9 DEF ThreadState
    <3>5. /\ s.pc = "answer" /\ s.inst = i /\ s.reply = e /\ s.cached = x.cached /\ s.outer = x.outer
          /\ s.target = x.target
      BY <1>1, <3>1 DEF ThreadState
    <3>6. Refreshes(s)
      BY <3>5 DEF Refreshes, RefreshPoints
    <3>7. CallOK(t, s)
      BY <1>2, <2>1, <2>2, <3>5, <3>6 DEF CallOK
    <3>8. s.inst \in 0..ninst' /\ s.cached \in 0..ninst' /\ s.pc # "park"
      BY <1>1, <1>2, <2>2, <3>5, SessionAssumption DEF UpstreamOK
    <3> QED
      BY <2>1, <2>2, <3>2, <3>4, <3>6, <3>7, <3>8, CallReturns
  <2>3. ASSUME NEW a \in {"fresh", "queued"}, ninst < MaxInst, ninst' = ninst + 1,
               NEW m \in Models, modelOf' = [modelOf EXCEPT ![ninst + 1] = m],
               age' = [age EXCEPT ![ninst + 1] = a], seat' \in {seat, ninst + 1}
        PROVE  /\ UpstreamOK' /\ ninst <= ninst' /\ \A j \in 1..ninst : modelOf'[j] = modelOf[j]
               /\ ninst + 1 \in 0..ninst' /\ ninst + 1 # NoInst /\ NoInst \in 0..ninst'
    <3>1. ninst + 1 \in Insts /\ ninst' \in 0..MaxInst /\ seat' \in 0..ninst'
      BY <1>1, <1>3, <2>3 DEF Insts
    <3>2. modelOf' \in [Insts -> ModelRef] /\ \A j \in 1..ninst' : modelOf'[j] \in Models
      BY <1>1, <1>3, <2>3, <3>1 DEF Insts, ModelRef
    <3>3. age' \in [InstRef -> {"queued", "fresh", "lead", "grace", "dead"}]
      BY <1>3, <2>3
    <3>4. \A j \in 1..ninst : modelOf'[j] = modelOf[j]
      BY <1>1, <1>3, <2>3 DEF Insts
    <3> QED
      BY <1>1, <2>3, <3>1, <3>2, <3>3, <3>4 DEF UpstreamOK, NoInst
  <2>4. \A m \in (IF x.target = NoModel THEN Models ELSE {x.target}) : m \in Models
    BY <1>1 DEF ThreadState, ModelRef
  <2>5. ASSUME UNCHANGED upstreamVars
        PROVE  UpstreamOK' /\ ninst' = ninst /\ ninst <= ninst' /\ \A j \in 1..ninst : modelOf'[j] = modelOf[j]
    BY <1>1, <1>3, <2>5 DEF UpstreamOK, upstreamVars
  <2>6. CASE \E m \in Models : 
               /\ ninst < MaxInst /\ ninst' = ninst + 1
               /\ modelOf' = [modelOf EXCEPT ![ninst + 1] = m]
               /\ \/ /\ age' = [age EXCEPT ![ninst + 1] = "fresh"] /\ seat' = ninst + 1
                     /\ \/ Goto(t, [To(t, "answer") EXCEPT !.inst = ninst + 1, !.reply = "active"])
                        \/ \E r \in Answers \cap {"error", "canceled"} :
                             Goto(t, [To(t, "answer") EXCEPT !.inst = NoInst, !.reply = r])
                  \/ /\ age' = [age EXCEPT ![ninst + 1] = "queued"] /\ seat' = seat
                     /\ Goto(t, [To(t, "answer") EXCEPT !.inst = ninst + 1, !.reply = "queued"])
    <3>1. {"active", "error", "canceled", "queued"} \subseteq Replies
      BY FieldValues
    <3> QED
      BY <2>2, <2>3, <2>6, <3>1
  <2>7. CASE /\ \/ \E e \in {"locked", "grace"} :
                     seat # NoInst /\ Goto(t, [To(t, "answer") EXCEPT !.inst = seat, !.reply = e])
                \/ x.target \in Models /\ Goto(t, [To(t, "answer") EXCEPT !.inst = NoInst, !.reply = "unavailable"])
                \/ \E r \in Answers \ {"queued", "unavailable"} :
                     Goto(t, [To(t, "answer") EXCEPT !.inst = NoInst, !.reply = r])
             /\ UNCHANGED upstreamVars
    <3>1. {"locked", "grace", "unavailable"} \subseteq Replies
          /\ \A r \in Answers \ {"queued", "unavailable"} :
               r \in Replies \ {"active", "queued", "grace", "locked", "unavailable"}
      BY FieldValues, SessionAssumption
    <3> QED
      BY <1>2, <1>3, <2>2, <2>5, <2>7, <3>1
  <2> QED
    BY <1>6, <2>4, <2>6, <2>7 DEF Post
<1> QED
  BY <1>4, <1>5, <1>6
LEMMA WriteKeeps ==
  ASSUME SInv, NEW t \in Threads, Write(t)
  PROVE  SInv'
<1> DEFINE x == th[t]
<1> USE DEF At
<1>1. /\ ninst \in Nat /\ ThreadOK(t, x) /\ x \in ThreadState /\ RowOK(disk)
  BY Known
<1>2. /\ x.pc = "write" /\ x.next \in CommitPoints \cup {"idle", "enddel"}
      /\ CallOK(t, x) /\ x.inst \in 0..ninst /\ x.cached \in 0..ninst
      /\ UNCHANGED <<upstreamVars, flightVars, state, ghostVars>> /\ persist' = NoWrite
  BY <1>1, SessionAssumption DEF Write, ThreadOK, CallOK
<1>3. PICK s : s = [x EXCEPT !.pc = x.next, !.next = "idle"]
  OBVIOUS
<1>4. [To(t, x.next) EXCEPT !.next = "idle"] = s
  BY <1>1, <1>3 DEF To, ThreadState
<1>5. Goto(t, s)
  BY <1>4 DEF Write
<1>6. s \in ThreadState
  BY <1>1, <1>3, FieldValues DEF ThreadState
<1>7. /\ s.pc = x.next /\ s.next = "idle" /\ s.inst = x.inst /\ s.cached = x.cached
      /\ s.outer = x.outer /\ s.reply = x.reply
  BY <1>1, <1>3 DEF ThreadState
<1>8. Refreshes(s) <=> Refreshes(x)
  BY <1>2, <1>7 DEF Refreshes, RefreshPoints, CommitPoints
<1>9. CallOK(t, s)
  <2>1. t = Async => s.pc = "idle" \/ Refreshes(s)
    BY <1>2, <1>8 DEF CallOK
  <2>2. t # Async /\ (s.pc \in {"park", "woken", "trust"} \/ Refreshes(s)) => s.outer < MaxOuter
    BY <1>2, <1>7, <1>8 DEF CallOK, CommitPoints
  <2>3. s.pc \in {"loop", "create", "unlock", "finish", "idle", "enddel"}
    BY <1>2, <1>7 DEF CommitPoints
  <2>4. s.pc = "finish" => s.reply \in {"none", "failed", "canceled"}
    BY <1>2, <1>7 DEF CallOK
  <2> QED
    BY <2>1, <2>2, <2>3, <2>4 DEF CallOK
<1>10. ninst' = ninst /\ modelOf' = modelOf /\ UNCHANGED refreshing /\ ninst' \in Nat /\ ninst <= ninst'
       /\ s.inst \in 0..ninst' /\ s.cached \in 0..ninst' /\ s.pc # "park"
  BY <1>1, <1>2, <1>7 DEF upstreamVars, flightVars, CommitPoints
<1>11. ThreadsOK' /\ SingleAdmission'
  BY <1>5, <1>6, <1>8, <1>9, <1>10, Moves
<1>12. UpstreamOK' /\ FlightOK' /\ GhostOK'
  BY <1>2 DEF SInv, UpstreamOK, FlightOK, GhostOK, upstreamVars, flightVars, ghostVars
<1>13. RowOK(Nil) /\ RowOK(NoWrite.row) /\ NoWrite.old \in 0..ninst /\ NoWrite.held \in BOOLEAN
  BY <1>1, NoRow DEF NoWrite, NoInst
<1>14. RowOK(disk')
  BY <1>1, <1>13 DEF Write, Without, SInv, RowsOK
<1>15. RowsOK'
  BY <1>2, <1>10, <1>13, <1>14 DEF SInv, RowsOK, RowOK
<1> QED
  BY <1>11, <1>12, <1>15 DEF SInv

LEMMA FinishKeeps ==
  ASSUME SInv, NEW t \in Threads, FinishRefresh(t)
  PROVE  SInv'
<1> DEFINE x == th[t]
<1> USE DEF At
<1>1. /\ ninst \in Nat /\ ThreadOK(t, x) /\ x \in ThreadState
      /\ x.pc \in RefreshPoints => Refreshes(x)
  BY Known
<1>2. /\ x.pc = "finish" /\ x.reply \in {"none", "failed", "canceled"} /\ Refreshes(x)
      /\ refreshing' = FALSE /\ refreshErr' = IF x.reply = "none" THEN refreshErr ELSE x.reply
      /\ UNCHANGED <<upstreamVars, reAdmitted, unavailable, cacheVars, disk, ghostVars>>
      /\ t # Async => x.outer < MaxOuter
  BY <1>1 DEF FinishRefresh, ThreadOK, CallOK, RefreshPoints
<1>3. \A u \in Threads :
        th'[u] = IF u = t THEN (IF t = Async \/ x.reply # "none" THEN Idle ELSE To(t, "trust"))
                 ELSE IF th[u].pc = "park" THEN To(u, "woken") ELSE th[u]
  BY DEF FinishRefresh
<1>4. ASSUME NEW u \in Threads
      PROVE  ThreadOK(u, th'[u]) /\ ~Refreshes(th'[u]) /\ th'[u].pc # "park"
  <2>1. ThreadOK(u, th[u]) /\ th[u] \in ThreadState /\ CallOK(u, th[u])
    BY DEF SInv, ThreadsOK, ThreadOK
  <2>2. u # t => ~Refreshes(th[u])
    BY <1>2, Points DEF SInv, SingleAdmission
  <2>3. ASSUME NEW p \in {"trust", "woken"}, u # Async, th[u].outer < MaxOuter, th'[u] = To(u, p)
        PROVE  ThreadOK(u, th'[u]) /\ ~Refreshes(th'[u]) /\ th'[u].pc # "park"
    <3>1. PICK s : s = [th[u] EXCEPT !.pc = p]
      OBVIOUS
    <3>2. s \in ThreadState
      BY <2>1, <3>1, FieldValues DEF ThreadState
    <3>3. s.pc = p /\ s.inst = th[u].inst /\ s.cached = th[u].cached /\ s.outer = th[u].outer
      BY <2>1, <3>1 DEF ThreadState
    <3>4. ~Refreshes(s)
      BY <3>3 DEF Refreshes, RefreshPoints
    <3>5. ThreadOK(u, s)
      BY <2>1, <2>3, <3>2, <3>3, <3>4 DEF ThreadOK, CallOK
    <3> QED
      BY <2>3, <3>1, <3>3, <3>4, <3>5 DEF To
  <2>4. CASE u = t /\ (t = Async \/ x.reply # "none")
    BY <1>1, <1>3, <2>4, IdleOK
  <2>5. CASE u = t /\ ~(t = Async \/ x.reply # "none")
    BY <1>2, <1>3, <2>3, <2>5
  <2>6. CASE u # t /\ th[u].pc = "park"
    <3>1. u # Async /\ th[u].outer < MaxOuter
      BY <2>1, <2>2, <2>6 DEF CallOK
    <3> QED
      BY <1>3, <2>3, <2>6, <3>1
  <2>7. CASE u # t /\ th[u].pc # "park"
    BY <1>3, <2>1, <2>2, <2>7
  <2> QED
    BY <2>4, <2>5, <2>6, <2>7
<1>5. th' = [u \in Threads |-> th'[u]]
  BY DEF FinishRefresh
<1>6. ninst' = ninst
  BY <1>2 DEF upstreamVars
<1>7. ThreadsOK' /\ SingleAdmission'
  BY <1>2, <1>4, <1>5, <1>6, FlightCloses
<1>8. UpstreamOK' /\ RowsOK'
  BY <1>2 DEF SInv, UpstreamOK, RowsOK, RowOK, upstreamVars, cacheVars
<1>9. FlightOK' /\ GhostOK'
  BY <1>2, <1>6 DEF SInv, FlightOK, GhostOK, ghostVars
<1> QED
  BY <1>7, <1>8, <1>9 DEF SInv
----------------------------------------------------------------------------
(* Turns, polls and the pool's passes.                                     *)

LEMMA PassesKeep ==
  ASSUME SInv, NEW t \in Clients \cup Pollers \cup Keepers,
         \/ \E m \in Models : BeginTurn(t, m)
         \/ EndTurn(t) \/ InvalidateInstance(t) \/ Poll(t) \/ PollAnswer(t)
         \/ BeginPass(t) \/ EndSession(t) \/ ClearQueued(t) \/ Shutdown(t)
  PROVE  SInv'
<1> DEFINE x == th[t]
           Outside == {"idle", "ride", "polled", "end"}
           commits == UNCHANGED <<upstreamVars, flightVars, disk, ghostVars>>
<1> USE DEF At
<1>1. t \in Threads /\ t # Async
  BY SessionAssumption DEF Threads
<1>2. /\ ninst \in Nat /\ ThreadOK(t, x) /\ x \in ThreadState /\ RowOK(state) /\ RowOK(disk)
      /\ state.inst \in InstRef /\ state.inst \in 0..ninst
      /\ x.pc \notin RefreshPoints \cup {"write"} => ~Refreshes(x)
  BY <1>1, Known
<1>3. /\ x.pc \in Outside => ~Refreshes(x)
      /\ CallOK(t, x) /\ x.inst \in 0..ninst
      /\ RowOK(Nil) /\ unavailable \subseteq Models
      /\ ThreadOK(t, Idle) /\ ~Refreshes(Idle) /\ Idle.pc = "idle"
  BY <1>2, NoRow, IdleOK DEF ThreadOK, RefreshPoints, SInv, FlightOK
<1>4. ASSUME NEW s, Goto(t, s), ThreadOK(t, s), ~Refreshes(s), s.pc # "park", x.pc \in Outside,
             UNCHANGED <<upstreamVars, flightVars, cacheVars, disk, ghostVars>>
      PROVE  SInv'
  BY <1>1, <1>2, <1>3, <1>4, StaysPut
<1>5. ASSUME NEW cs, NEW s, Commit(t, cs, s), RowOK(cs), ThreadOK(t, s), ~Refreshes(s),
             s.pc \in {"idle", "enddel"}, x.pc \in Outside,
             UNCHANGED <<upstreamVars, flightVars, disk, ghostVars>>
      PROVE  SInv'
  <2>1. unavailable' \subseteq Models
        /\ UNCHANGED <<upstreamVars, refreshing, refreshErr, reAdmitted, disk, ghostVars>>
    BY <1>3, <1>5 DEF flightVars
  <2>2. (Refreshes(s) <=> Refreshes(th[t])) /\ (t = Async => Refreshes(th[t]))
    BY <1>1, <1>3, <1>5
  <2> QED
    BY <1>1, <1>5, <2>1, <2>2, CommitKeeps
\* A goroutine that begins anew at p, about instance i.
<1>6. \A p \in {"end", "enddel", "poll"}, i \in 0..ninst :
        LET s == [Idle EXCEPT !.pc = p, !.inst = i] IN
        (p = "poll" => i # NoInst) => ThreadOK(t, s) /\ ~Refreshes(s) /\ s.pc = p
  <2> SUFFICES ASSUME NEW p \in {"end", "enddel", "poll"}, NEW i \in 0..ninst, p = "poll" => i # NoInst,
                      NEW s, s = [Idle EXCEPT !.pc = p, !.inst = i]
               PROVE  ThreadOK(t, s) /\ ~Refreshes(s) /\ s.pc = p
    OBVIOUS
  <2>1. Idle \in ThreadState /\ p \in PCs /\ i \in InstRef
    BY <1>1, <1>2, <1>3, FieldValues, Known, SessionAssumption DEF ThreadOK, InstRef, Insts, NoInst
  <2>2. s \in ThreadState
    BY <2>1 DEF ThreadState
  <2>5. Idle.cached = NoInst
    BY <1>2, IdleOK
  <2>3. s.pc = p /\ s.inst = i /\ s.cached = NoInst
    BY <2>1, <2>5 DEF ThreadState
  <2>4. ~Refreshes(s)
    BY <2>3 DEF Refreshes, RefreshPoints
  <2> QED
    BY <1>1, <1>2, <2>2, <2>3, <2>4 DEF ThreadOK, CallOK, NoInst
<1>7. CASE \E m \in Models : BeginTurn(t, m)
  <2>1. PICK m \in Models : BeginTurn(t, m)
    BY <1>7
  <2>2. m \in ModelRef /\ "none" \in Passes \cup {"none"}
    BY DEF ModelRef
  <2> QED
    BY <1>1, <1>2, <1>4, <2>1, <2>2, CallingOK DEF BeginTurn
<1>8. CASE EndTurn(t)
  <2>1. [Idle EXCEPT !.pc = "end"] = [Idle EXCEPT !.pc = "end", !.inst = NoInst]
    <3>1. Idle \in ThreadState /\ Idle.inst = NoInst
      BY <1>1, <1>2, IdleOK DEF ThreadOK
    <3> QED
      BY <3>1 DEF ThreadState
  <2>2. NoInst \in 0..ninst
    BY <1>2 DEF NoInst
  <2> QED
    BY <1>3, <1>4, <1>6, <1>8, <2>1, <2>2 DEF EndTurn
<1>9. CASE InvalidateInstance(t)
  BY <1>3, <1>4, <1>5, <1>9 DEF InvalidateInstance
<1>10. CASE Poll(t)
  <2>1. state.inst # NoInst
    BY <1>2, <1>10 DEF Poll, RowOK
  <2> QED
    BY <1>2, <1>4, <1>6, <1>10, <2>1 DEF Poll
<1>11. CASE PollAnswer(t)
  <2>1. x.pc = "polled" /\ x.inst # NoInst
        /\ UNCHANGED <<upstreamVars, flightVars, disk, ghostVars>>
    BY <1>3, <1>11 DEF PollAnswer, CallOK
  <2>2. state.inst = x.inst => RowOK(Row("ended", x.inst, state.model))
    BY <1>2, <1>3, <2>1 DEF RowOK, Row, Cached
  <2> QED
    BY <1>3, <1>4, <1>5, <1>11, <2>1, <2>2 DEF PollAnswer
<1>12. CASE BeginPass(t)
  <2>1. NoModel \in ModelRef /\ Models \subseteq ModelRef
    BY DEF ModelRef
  <2>2. x.pc = "idle" /\ UNCHANGED <<upstreamVars, flightVars, cacheVars, disk, ghostVars>>
    BY <1>12 DEF BeginPass, At
  <2>3. PICK m \in ModelRef, p \in Passes \cup {"none"} : Goto(t, Calling(m, p))
    BY <1>12, <2>1 DEF BeginPass
  <2>4. ThreadOK(t, Calling(m, p)) /\ ~Refreshes(Calling(m, p)) /\ Calling(m, p).pc = "ensure"
    BY <1>1, <1>2, CallingOK
  <2> QED
    BY <1>4, <2>2, <2>3, <2>4
<1>13. CASE EndSession(t)
  BY <1>2, <1>3, <1>5, <1>6, <1>13 DEF EndSession
<1>14. CASE ClearQueued(t)
  BY <1>3, <1>5, <1>14 DEF ClearQueued
<1>15. CASE Shutdown(t)
  BY <1>2, <1>3, <1>5, <1>6, <1>15 DEF Shutdown
<1> QED
  BY <1>7, <1>8, <1>9, <1>10, <1>11, <1>12, <1>13, <1>14, <1>15

----------------------------------------------------------------------------
(* Time, restarts and the start.                                           *)

\* A process with nothing cached and nobody inside a call.
Blank ==
  /\ state = Nil /\ persist = NoWrite /\ refreshing = FALSE /\ refreshErr = "none"
  /\ reAdmitted = NoInst /\ unavailable = {} /\ th = [t \in Threads |-> Idle]
  /\ tried = [i \in Insts |-> 0]

LEMMA BlankOK ==
  ASSUME UpstreamOK, RowOK(disk), crashes \in 0..MaxCrashes, Blank
  PROVE  SInv
<1>1. ninst \in Nat /\ NoInst \in 0..ninst
  BY SessionAssumption DEF UpstreamOK, NoInst
<1>2. RowsOK
  BY <1>1, NoRow DEF RowsOK, Blank, NoWrite
<1>3. FlightOK /\ GhostOK
  BY <1>1 DEF FlightOK, GhostOK, Blank
<1>4. \A t \in Threads : ThreadOK(t, th[t]) /\ ~Refreshes(th[t]) /\ th[t].pc = "idle"
  BY <1>1, IdleOK DEF Blank
<1>5. ThreadsOK
  BY <1>4 DEF ThreadsOK, Blank
<1>6. SingleAdmission
  BY <1>4, Points DEF SingleAdmission, Blank, At
<1> QED
  BY <1>2, <1>3, <1>5, <1>6 DEF SInv

LEMMA TimeKeeps ==
  ASSUME SInv, InstanceAges \/ UnavailableExpires \/ UNCHANGED vars
  PROVE  SInv'
<1>1. /\ UNCHANGED <<th, state, persist, disk, ninst, modelOf, seat, refreshing, refreshErr,
                     reAdmitted, tried, crashes>>
      /\ unavailable' \in {unavailable, {}}
  BY DEF InstanceAges, UnavailableExpires, vars, flightVars, cacheVars, ghostVars, upstreamVars
<1>2. age' \in [InstRef -> {"queued", "fresh", "lead", "grace", "dead"}]
  BY DEF InstanceAges, UnavailableExpires, vars, upstreamVars, SInv, UpstreamOK, Older
<1>3. UpstreamOK' /\ RowsOK' /\ FlightOK' /\ GhostOK'
  BY <1>1, <1>2 DEF SInv, UpstreamOK, RowsOK, RowOK, FlightOK, GhostOK
<1>4. ThreadsOK'
  BY <1>1 DEF SInv, ThreadsOK, ThreadOK, CallOK, Refreshes
<1>5. SingleAdmission'
  BY <1>1 DEF SInv, SingleAdmission, InRefresh, At
<1> QED
  BY <1>3, <1>4, <1>5 DEF SInv

LEMMA StartsOK == Init => SInv
<1> SUFFICES ASSUME Init PROVE SInv
  OBVIOUS
<1>1. UpstreamOK
  BY SessionAssumption DEF Init, UpstreamOK, NoInst, ModelRef
<1>2. RowOK(disk) /\ crashes \in 0..MaxCrashes
  BY SessionAssumption, NoRow DEF Init
<1>3. Blank
  BY DEF Init, Blank
<1> QED
  BY <1>1, <1>2, <1>3, BlankOK

LEMMA RestartOK == ASSUME SInv, Restart PROVE SInv'
<1>1. UpstreamOK'
  BY DEF SInv, UpstreamOK, Restart, upstreamVars
<1>2. RowOK(disk)'
  BY DEF SInv, RowsOK, RowOK, Restart, upstreamVars
<1>3. (crashes \in 0..MaxCrashes)'
  BY SessionAssumption DEF SInv, GhostOK, Restart
<1>4. Blank'
  BY DEF Restart, Blank
<1>5. UpstreamOK /\ RowOK(disk) /\ crashes \in 0..MaxCrashes /\ Blank => SInv
  BY BlankOK
<1>6. UpstreamOK' /\ RowOK(disk)' /\ (crashes \in 0..MaxCrashes)' /\ Blank' => SInv'
  BY BlankOK, PTL
<1> QED
  BY <1>1, <1>2, <1>3, <1>4, <1>6

LEMMA StepKeeps == SInv /\ [Next]_vars => SInv'
<1> SUFFICES ASSUME SInv, [Next]_vars PROVE SInv'
  OBVIOUS
<1>1. CASE \E t \in Clients : \/ \E m \in Models : BeginTurn(t, m)
                             \/ EndTurn(t) \/ InvalidateInstance(t)
  BY <1>1, PassesKeep
<1>2. CASE \E t \in Pollers : Poll(t) \/ PollAnswer(t)
  BY <1>2, PassesKeep
<1>3. CASE \E t \in Keepers : \/ BeginPass(t) \/ EndTurn(t) \/ EndSession(t)
                             \/ ClearQueued(t) \/ Shutdown(t)
  BY <1>3, PassesKeep
<1>4. CASE \E t \in Clients \cup Keepers : Ensure(t) \/ EnsureCanceled(t)
  BY <1>4, EnsureKeeps
<1>5. CASE \E t \in Threads : Refresh(t) \/ Get(t) \/ Delete(t) \/ Write(t)
  <2>1. PICK t \in Threads : Refresh(t) \/ Get(t) \/ Delete(t) \/ Write(t)
    BY <1>5
  <2>2. CASE Post(t) \/ Get(t) \/ Delete(t)
    BY <2>2, CallsKeep
  <2>3. CASE Write(t)
    BY <2>3, WriteKeeps
  <2>4. CASE FinishRefresh(t)
    BY <2>4, FinishKeeps
  <2>5. CASE \/ ShortCircuit(t) \/ RefreshLoop(t) \/ LoadPersisted(t) \/ AnswerPersisted(t)
             \/ ReleaseHeld(t) \/ ReleasedHeld(t) \/ AnswerReturns(t) \/ AnswerRetries(t)
    BY <2>5, RefreshKeeps
  <2> QED
    BY <2>1, <2>2, <2>3, <2>4, <2>5 DEF Refresh
<1>6. CASE InstanceAges \/ UnavailableExpires \/ UNCHANGED vars
  BY <1>6, TimeKeeps
<1>7. CASE Restart
  BY <1>7, RestartOK
<1> QED
  BY <1>1, <1>2, <1>3, <1>4, <1>5, <1>6, <1>7 DEF Next

\* The invariant: every goroutine is where the calls of the session manager can
\* have brought it, over rows and instances that exist, and one at most is
\* inside refresh.
THEOREM SessionKept == Spec => []SInv
BY StartsOK, StepKeeps, PTL DEF Spec

\* Rows of the cache, of the store and of a write under way, and the instances
\* that goroutines hold, are ones upstream has created, with their model.
THEOREM SessionTypeCorrect == Spec => []TypeOK
BY SessionKept, TypesFollow, PTL

\* EnsureSessionForModel and asyncReAdmit are single-flight: one goroutine
\* refreshes, exactly while the flag says so, and nobody is parked on a channel
\* that has been closed.
THEOREM AdmissionIsSingle == Spec => []SingleAdmission
<1>1. SInv => SingleAdmission
  BY DEF SInv
<1> QED
  BY SessionKept, <1>1, PTL

-----------------------------------------------------------------------------
\* Only goroutine t moves.
Alone(t) == \A u \in Threads \ {t} : th'[u] = th[u]

\* Goroutine t walks on, and changes nothing else.
Walks(t) ==
  LET x == th[t]
      y == th'[t] IN
  /\ Alone(t) /\ UNCHANGED <<upstreamVars, flightVars, cacheVars, disk, ghostVars>>
  /\ x.pc \notin {"write", "poll", "enddel", "end", "exit"}
  /\ t \in Keepers /\ x.pc = "idle" => Passes \cap {"advance", "touch"} # {}
  /\ \/ /\ ~Refreshes(x) /\ y.pc \in {"idle", "ensure", "park", "recheck", "ride", "end"}
        /\ refreshing /\ x.pc \in {"idle", "ensure", "park"} => y.pc \in {"idle", "ensure", "park"}
     \/ /\ ~Refreshes(x) /\ t \in Pollers /\ y.pc = "poll"
        /\ y.inst = state.inst /\ state.status \in {"active", "ended"}
     \/ /\ x.pc \in RefreshPoints /\ y.pc \in {"loop", "create", "release", "delete", "finish"}
        /\ y.inst \in {NoInst, x.inst, state.inst}
     \/ x.pc = "loop" /\ y.pc = "load" /\ y.inst = NoInst /\ state.status = "nil" /\ HasStore
     \/ x.pc = "loop" /\ y.pc = "getq" /\ y.inst = state.inst /\ state.status = "queued"

\* Goroutine t looks at the persisted entry, and may drop it.
Drops(t) ==
  LET x == th[t]
      y == th'[t] IN
  /\ Alone(t) /\ UNCHANGED <<upstreamVars, flightVars, cacheVars, ghostVars>>
  /\ \/ /\ x.pc = "load" /\ y.pc = "getp" /\ disk' = disk
        /\ y.inst = disk.inst /\ disk.status = "active" /\ age[disk.inst] \in {"fresh", "lead"}
     \/ /\ x.pc \in {"load", "gotp"} /\ y.pc = "create" /\ disk' \in {disk, Nil}
        /\ y.inst \in {NoInst, x.inst}
     \/ /\ x.pc = "gotp" /\ y.pc = "answer" /\ disk' \in {disk, Nil}
        /\ y.inst = x.inst /\ y.reply = x.reply /\ x.reply # "queued"

\* Goroutine t commits, inside refresh or outside.
Stores(t) ==
  LET x == th[t]
      y == th'[t]
      p == IF HasStore THEN y.next ELSE y.pc IN
  /\ Alone(t)
  /\ IF HasStore
     THEN /\ ~persist.held /\ y.pc = "write"
          /\ persist' = [row |-> state', old |-> state.inst, held |-> TRUE]
     ELSE persist' = persist
  /\ UNCHANGED <<upstreamVars, refreshing, refreshErr, reAdmitted, disk, ghostVars>>
  /\ \/ /\ x.pc \in {"short", "deleted", "answer"} /\ p \in CommitPoints /\ y.inst \in {NoInst, x.inst}
        /\ \/ state' \in {Nil, Disabled}
           \/ /\ x.pc = "answer" /\ state'.inst = x.inst
              /\ \/ state'.status = "active" /\ x.reply = "active"
                 \/ state'.status = "ended" /\ x.reply = "grace"
                 \/ state'.status = "queued" /\ x.reply = "queued"
     \/ /\ x.pc \in {"ride", "polled", "idle", "end"} /\ p \in {"idle", "enddel"}
        /\ t \in Keepers \/ (x.pc \in {"ride", "polled"} /\ x.inst = state.inst)
        /\ x.pc = p /\ state.status = "active" => state' = state
        /\ \/ state' \in {Nil, state}
           \/ x.pc = "polled" /\ state'.status = "ended" /\ state'.inst = x.inst /\ x.inst = state.inst

\* Goroutine t becomes the refresher.
Leads(t) ==
  /\ Alone(t) /\ th[t].pc = "ensure" /\ th'[t].pc = "short" /\ th'[t].inst = NoInst
  /\ ~refreshing /\ refreshing'
  /\ UNCHANGED <<upstreamVars, reAdmitted, unavailable, cacheVars, disk, ghostVars>>

Shape ==
  \/ \E t \in Threads : \/ Walks(t) \/ Drops(t) \/ Stores(t) \/ Leads(t) \/ FinishRefresh(t)
                        \/ Get(t) \/ Delete(t) \/ Post(t) \/ Write(t)
  \/ \E t \in Clients \cup Keepers : EnsureTrigger(t)
  \/ InstanceAges \/ UnavailableExpires \/ Restart \/ UNCHANGED vars

----------------------------------------------------------------------------
LEMMA GoesOn ==
  ASSUME SInv, NEW t \in Threads, NEW s, Goto(t, s)
  PROVE  th'[t] = s /\ Alone(t)
BY DEF Goto, Alone, SInv, ThreadsOK

LEMMA Committing ==
  ASSUME SInv, NEW t \in Threads, NEW cs, NEW s, s \in ThreadState, Commit(t, cs, s)
  PROVE  /\ Alone(t) /\ state' = cs /\ th'[t].inst = s.inst
         /\ IF HasStore
            THEN /\ ~persist.held /\ th'[t].pc = "write" /\ th'[t].next = s.pc
                 /\ persist' = [row |-> state', old |-> state.inst, held |-> TRUE]
            ELSE persist' = persist /\ th'[t].pc = s.pc
<1>1. CASE HasStore
  <2>1. PICK w : w = [s EXCEPT !.pc = "write", !.next = s.pc]
    OBVIOUS
  <2>2. w.pc = "write" /\ w.next = s.pc /\ w.inst = s.inst
    BY <2>1 DEF ThreadState
  <2>3. Goto(t, w)
    BY <1>1, <2>1 DEF Commit
  <2> QED
    BY <1>1, <2>2, <2>3, GoesOn DEF Commit
<1>2. CASE ~HasStore
  <2>1. Goto(t, s) /\ state' = cs /\ persist' = persist
    BY <1>2 DEF Commit
  <2> QED
    BY <1>2, <2>1, GoesOn
<1> QED
  BY <1>1, <1>2
LEMMA EnsureShape ==
  ASSUME SInv, NEW t \in Clients \cup Keepers, Ensure(t) \/ EnsureCanceled(t)
  PROVE  Shape
<1> DEFINE x == th[t]
           quiet == UNCHANGED <<upstreamVars, flightVars, cacheVars, disk, ghostVars>>
<1> USE DEF At
<1>1. t \in Threads
  BY DEF Threads
<1>2. x \in ThreadState /\ state.inst \in InstRef /\ (x.pc \notin RefreshPoints \cup {"write"} => ~Refreshes(x))
  BY <1>1, Known
<1>3. \A i \in InstRef : Riding(x, i).pc \in {"idle", "ride"}
  BY IdleOK, Known DEF Riding, Idle
<1>4. Idle.pc = "idle" /\ Again(x).pc = "ensure"
  BY DEF Idle, Again
<1>5. ASSUME NEW s, Goto(t, s), quiet, x.pc \in {"ensure", "park", "woken", "recheck", "trust"},
             s.pc \in {"idle", "ensure", "park", "recheck", "ride"},
             refreshing /\ x.pc \in {"ensure", "park"} => s.pc \in {"idle", "park"}
      PROVE  Walks(t)
  <2>1. ~Refreshes(x)
    BY <1>2, <1>5 DEF RefreshPoints
  <2>2. th'[t] = s /\ Alone(t)
    BY <1>1, <1>5, GoesOn
  <2> QED
    BY <1>5, <2>1, <2>2 DEF Walks
<1>6. CASE EnsureReuse(t)
  BY <1>2, <1>3, <1>5, <1>6, <1>1 DEF EnsureReuse, FastPath, Ensuring, Shape
<1>7. CASE EnsureTrigger(t)
  BY <1>7 DEF Shape
<1>8. CASE EnsureAnswer(t)
  <2>1. NoInst \in InstRef
    BY FieldValues
  <2> QED
    BY <1>1, <1>3, <1>4, <1>5, <1>8, <2>1 DEF EnsureAnswer, Ensuring, Shape
<1>9. CASE EnsurePark(t)
  <2>1. To(t, "park").pc = "park"
    BY <1>2 DEF To, ThreadState
  <2> QED
    BY <1>1, <1>5, <1>9, <2>1 DEF EnsurePark, Ensuring, Shape
<1>10. CASE EnsureLead(t)
  <2>1. Refreshing(x).pc = "short" /\ Refreshing(x).inst = NoInst
    BY <1>2 DEF Refreshing, ThreadState
  <2>2. th'[t] = Refreshing(x) /\ Alone(t)
    BY <1>1, <1>10, GoesOn DEF EnsureLead
  <2> QED
    BY <1>1, <1>10, <2>1, <2>2 DEF EnsureLead, Ensuring, Leads, Shape
<1>11. CASE EnsureGivesUp(t)
  BY <1>1, <1>4, <1>5, <1>11 DEF EnsureGivesUp, Shape
<1>12. CASE EnsureCanceled(t)
  BY <1>1, <1>4, <1>5, <1>12 DEF EnsureCanceled, Shape
<1>13. CASE Woken(t)
  <2>1. To(t, "recheck").pc = "recheck"
    BY <1>2 DEF To, ThreadState
  <2> QED
    BY <1>1, <1>4, <1>5, <1>13, <2>1 DEF Woken, Shape
<1>14. CASE Recheck(t)
  BY <1>1, <1>2, <1>3, <1>4, <1>5, <1>14 DEF Recheck, Shape
<1>15. CASE Trust(t)
  <2>1. NoInst \in InstRef
    BY FieldValues
  <2> QED
    BY <1>1, <1>2, <1>3, <1>4, <1>5, <1>15, <2>1 DEF Trust, Shape
<1> QED
  BY <1>6, <1>7, <1>8, <1>9, <1>10, <1>11, <1>12, <1>13, <1>14, <1>15 DEF Ensure

LEMMA RefreshShape ==
  ASSUME SInv, NEW t \in Threads,
         \/ ShortCircuit(t) \/ RefreshLoop(t) \/ LoadPersisted(t) \/ AnswerPersisted(t)
         \/ ReleaseHeld(t) \/ ReleasedHeld(t) \/ AnswerReturns(t) \/ AnswerRetries(t)
  PROVE  Walks(t) \/ Drops(t) \/ Stores(t)
<1> DEFINE x == th[t]
           quiet == UNCHANGED <<upstreamVars, flightVars, cacheVars, disk, ghostVars>>
           held == UNCHANGED <<upstreamVars, refreshing, refreshErr, reAdmitted, disk, ghostVars>>
<1> USE DEF At
<1>1. x \in ThreadState /\ RowOK(state) /\ RowOK(disk)
  BY Known
<1>2. \A e : Returns(x, e).pc = "finish" /\ Returns(x, e).inst = NoInst
  BY DEF Returns, Idle
<1>3. \A e \in {"none", "failed", "canceled"} : x.pc \in RefreshPoints => Returns(x, e) \in ThreadState
  <2> SUFFICES ASSUME NEW e \in {"none", "failed", "canceled"}, x.pc \in RefreshPoints
               PROVE  Returns(x, e) \in ThreadState
    OBVIOUS
  <2>1. ninst \in Nat /\ (t # Async => x.outer < MaxOuter)
    BY Known DEF ThreadOK, CallOK, Refreshes
  <2> QED
    BY <1>1, <2>1, ReturnsOK DEF ThreadOK
\* Inside refresh, on to p with instance i.
<1>4. ASSUME NEW s, Goto(t, s), quiet, x.pc \in RefreshPoints,
             s.pc \in {"loop", "create", "release", "delete", "finish"},
             s.inst \in {NoInst, x.inst, state.inst}
      PROVE  Walks(t)
  <2>1. th'[t] = s /\ Alone(t)
    BY <1>4, GoesOn
  <2>2. x.pc \notin {"write", "poll", "enddel", "end", "exit", "idle"}
    BY <1>4 DEF RefreshPoints
  <2> QED
    BY <1>4, <2>1, <2>2 DEF Walks
<1>5. ASSUME NEW s, NEW cs, s \in ThreadState, Commit(t, cs, s), held,
             x.pc \in {"short", "deleted", "answer"},
             s.pc \in CommitPoints, s.inst \in {NoInst, x.inst},
             \/ cs \in {Nil, Disabled}
             \/ /\ x.pc = "answer" /\ cs.inst = x.inst
                /\ \/ cs.status = "active" /\ x.reply = "active"
                   \/ cs.status = "ended" /\ x.reply = "grace"
                   \/ cs.status = "queued" /\ x.reply = "queued"
      PROVE  Stores(t)
  <2>1. /\ Alone(t) /\ state' = cs /\ th'[t].inst = s.inst
        /\ IF HasStore
           THEN /\ ~persist.held /\ th'[t].pc = "write" /\ th'[t].next = s.pc
                /\ persist' = [row |-> state', old |-> state.inst, held |-> TRUE]
           ELSE persist' = persist /\ th'[t].pc = s.pc
    BY <1>5, Committing
  <2>2. s.pc = IF HasStore THEN th'[t].next ELSE th'[t].pc
    BY <2>1
  <2> HIDE DEF held
  <2>3. \/ state' \in {Nil, Disabled}
        \/ /\ x.pc = "answer" /\ state'.inst = x.inst
           /\ \/ state'.status = "active" /\ x.reply = "active"
              \/ state'.status = "ended" /\ x.reply = "grace"
              \/ state'.status = "queued" /\ x.reply = "queued"
    BY <1>5, <2>1
  <2> QED
    BY <1>5, <2>1, <2>2, <2>3 DEF Stores, held
<1>6. /\ \A p \in PCs : To(t, p).pc = p /\ To(t, p).inst = x.inst /\ To(t, p).reply = x.reply
      /\ \A p \in PCs : \A i :
           /\ [To(t, p) EXCEPT !.inst = i].pc = p
           /\ [To(t, p) EXCEPT !.inst = i].inst = i
  BY <1>1 DEF To, ThreadState
<1>7. CASE ShortCircuit(t)
  <2>1. x.pc = "short" /\ x.pc \in RefreshPoints /\ UNCHANGED <<upstreamVars, flightVars, disk, ghostVars>>
    BY <1>7 DEF ShortCircuit, RefreshPoints
  <2>2. held
    BY <2>1 DEF flightVars
  <2>3. CASE Goto(t, To(t, "loop")) /\ UNCHANGED cacheVars
    BY <1>4, <1>6, <2>1, <2>3, FieldValues
  <2>4. CASE Goto(t, Returns(x, "none")) /\ UNCHANGED cacheVars
    BY <1>2, <1>4, <2>1, <2>4
  <2>5. CASE Commit(t, Nil, [x EXCEPT !.pc = "loop", !.target = Fallback])
    <3>1. PICK s : s = [x EXCEPT !.pc = "loop", !.target = Fallback]
      OBVIOUS
    <3>2. "loop" \in PCs /\ Fallback \in ModelRef
      BY FieldValues
    <3>3. s \in ThreadState /\ s.pc = "loop" /\ s.inst = x.inst
      BY <1>1, <3>1, <3>2 DEF ThreadState
    <3>4. s.pc \in CommitPoints
      BY <3>3 DEF CommitPoints
    <3> QED
      BY <1>5, <2>1, <2>2, <2>5, <3>1, <3>3, <3>4
  <2> QED
    BY <1>7, <2>3, <2>4, <2>5 DEF ShortCircuit
<1>8. CASE RefreshLoop(t)
  <2> DEFINE r == [x EXCEPT !.iter = @ + 1, !.cached = state.inst, !.inst = NoInst, !.reply = "none"]
  <2>1. x.pc = "loop" /\ x.pc \in RefreshPoints /\ quiet
    BY <1>8 DEF RefreshLoop, RefreshPoints
  <2>2. ASSUME NEW e, Goto(t, Returns(x, e)) PROVE Walks(t)
    BY <1>2, <1>4, <2>1, <2>2
  <2>3. ASSUME Goto(t, CASE state.status = "queued" -> [r EXCEPT !.pc = "getq", !.inst = state.inst]
                         [] state.status = "nil" ->
                              [r EXCEPT !.pc = IF HasStore THEN "load" ELSE "create"]
                         [] OTHER -> [r EXCEPT !.pc = "release"])
        PROVE  Walks(t)
    <3>1. /\ \A p : [r EXCEPT !.pc = p].pc = p /\ [r EXCEPT !.pc = p].inst = NoInst
          /\ \A p, i : [r EXCEPT !.pc = p, !.inst = i].pc = p /\ [r EXCEPT !.pc = p, !.inst = i].inst = i
      BY <1>1 DEF ThreadState
    <3> HIDE DEF r
    <3>2. CASE state.status = "queued"
      <4>1. th'[t] = [r EXCEPT !.pc = "getq", !.inst = state.inst] /\ Alone(t)
        BY <2>3, <3>2, GoesOn
      <4> QED
        BY <2>1, <3>1, <3>2, <4>1 DEF Walks
    <3>3. CASE state.status = "nil" /\ HasStore
      <4>1. th'[t] = [r EXCEPT !.pc = "load"] /\ Alone(t)
        BY <2>3, <3>3, GoesOn
      <4> QED
        BY <2>1, <3>1, <3>3, <4>1 DEF Walks
    <3>4. CASE state.status = "nil" /\ ~HasStore
      <4>1. Goto(t, [r EXCEPT !.pc = "create"])
        BY <2>3, <3>4
      <4> QED
        BY <1>4, <2>1, <3>1, <4>1
    <3>5. CASE state.status \notin {"queued", "nil"}
      BY <1>4, <2>1, <2>3, <3>1, <3>5
    <3> QED
      BY <3>2, <3>3, <3>4, <3>5
  <2> QED
    BY <1>8, <2>2, <2>3 DEF RefreshLoop
<1>9. CASE LoadPersisted(t)
  <2>1. x.pc = "load" /\ UNCHANGED <<upstreamVars, flightVars, cacheVars, ghostVars>>
    BY <1>9 DEF LoadPersisted
  <2>2. CASE /\ disk.status = "active" /\ age[disk.inst] \in {"fresh", "lead"} /\ UNCHANGED disk
             /\ Goto(t, [To(t, "getp") EXCEPT !.inst = disk.inst])
    <3>1. PICK s : s = [To(t, "getp") EXCEPT !.inst = disk.inst]
      OBVIOUS
    <3>2. "getp" \in PCs
      BY FieldValues
    <3>3. s.pc = "getp" /\ s.inst = disk.inst
      BY <1>6, <3>1, <3>2
    <3>4. th'[t] = s /\ Alone(t)
      BY <2>2, <3>1, GoesOn
    <3> QED
      BY <2>1, <2>2, <3>3, <3>4 DEF Drops
  <2>3. CASE Goto(t, To(t, "create")) /\ disk' \in {Nil, disk}
    BY <1>6, <2>1, <2>3, GoesOn, FieldValues DEF Drops
  <2> QED
    BY <1>9, <2>2, <2>3 DEF LoadPersisted
<1>10. CASE AnswerPersisted(t)
  <2>1. x.pc = "gotp" /\ UNCHANGED <<upstreamVars, flightVars, cacheVars, ghostVars>>
        /\ disk' \in {disk, Nil}
    BY <1>10 DEF AnswerPersisted, Without
  <2>2. CASE Goto(t, [x EXCEPT !.pc = "create", !.inst = NoInst, !.reply = "none"])
    <3>1. PICK s : s = [x EXCEPT !.pc = "create", !.inst = NoInst, !.reply = "none"]
      OBVIOUS
    <3>2. s.pc = "create" /\ s.inst = NoInst
      BY <1>1, <3>1 DEF ThreadState
    <3> QED
      BY <2>1, <2>2, <3>1, <3>2, GoesOn DEF Drops
  <2>3. CASE Goto(t, To(t, "answer")) /\ x.reply # "queued"
    BY <1>6, <2>1, <2>3, GoesOn, FieldValues DEF Drops
  <2> QED
    BY <1>10, <2>2, <2>3 DEF AnswerPersisted
<1>11. CASE ReleaseHeld(t)
  <2>1. x.pc \in RefreshPoints /\ quiet
    BY <1>11 DEF ReleaseHeld, RefreshPoints
  <2>2. "create" \in PCs /\ "delete" \in PCs
    BY FieldValues
  <2>3. CASE Goto(t, To(t, "create"))
    BY <1>4, <1>6, <2>1, <2>2, <2>3
  <2>4. CASE Goto(t, [To(t, "delete") EXCEPT !.inst = state.inst])
    <3>1. PICK s : s = [To(t, "delete") EXCEPT !.inst = state.inst]
      OBVIOUS
    <3>2. s.pc = "delete" /\ s.inst = state.inst
      BY <1>6, <2>2, <3>1
    <3> QED
      BY <1>4, <2>1, <2>4, <3>1, <3>2
  <2> QED
    BY <1>11, <2>3, <2>4 DEF ReleaseHeld
<1>12. CASE ReleasedHeld(t)
  <2>1. x.pc = "deleted" /\ x.pc \in RefreshPoints /\ UNCHANGED <<upstreamVars, flightVars, disk, ghostVars>>
    BY <1>12 DEF ReleasedHeld, RefreshPoints
  <2>2. held
    BY <2>1 DEF flightVars
  <2>3. PICK s : s = [To(t, "create") EXCEPT !.inst = NoInst]
    OBVIOUS
  <2>4. "create" \in PCs /\ NoInst \in InstRef
    BY FieldValues
  <2>5. s \in ThreadState /\ s.pc = "create" /\ s.inst = NoInst
    BY <1>1, <2>3, <2>4 DEF To, ThreadState
  <2>6. s.pc \in CommitPoints
    BY <2>5 DEF CommitPoints
  <2>7. CASE Commit(t, Nil, s)
    BY <1>5, <2>1, <2>2, <2>5, <2>6, <2>7
  <2>8. CASE Goto(t, s) /\ UNCHANGED cacheVars
    BY <1>4, <2>1, <2>5, <2>8
  <2> QED
    BY <1>12, <2>3, <2>7, <2>8 DEF ReleasedHeld
<1>13. CASE AnswerReturns(t)
  <2>1. x.pc = "answer" /\ x.pc \in RefreshPoints /\ UNCHANGED <<upstreamVars, flightVars, disk, ghostVars>>
    BY <1>13 DEF AnswerReturns, RefreshPoints
  <2>2. held
    BY <2>1 DEF flightVars
  <2>3. \A st, i, m : Row(st, i, m).status = st /\ Row(st, i, m).inst = i
    BY DEF Row
  <2>4. ASSUME NEW e \in {"none", "failed", "canceled"}, NEW cs, Commit(t, cs, Returns(x, e)),
               \/ cs \in {Nil, Disabled}
               \/ /\ cs.inst = x.inst
                  /\ \/ cs.status = "active" /\ x.reply = "active"
                     \/ cs.status = "ended" /\ x.reply = "grace"
                     \/ cs.status = "queued" /\ x.reply = "queued"
        PROVE  Stores(t)
    <3>1. PICK s : s = Returns(x, e)
      OBVIOUS
    <3>2. s \in ThreadState /\ s.pc \in CommitPoints /\ s.inst = NoInst
      BY <1>2, <1>3, <2>1, <3>1 DEF CommitPoints
    <3> QED
      BY <1>5, <2>1, <2>2, <2>4, <3>1, <3>2
  <2>5. ASSUME NEW e, Goto(t, Returns(x, e)), UNCHANGED cacheVars
        PROVE  Walks(t)
    BY <1>2, <1>4, <2>1, <2>5
  <2> QED
    BY <1>13, <2>3, <2>4, <2>5 DEF AnswerReturns
<1>14. CASE AnswerRetries(t)
  <2> DEFINE r == [x EXCEPT !.pc = "loop", !.inst = NoInst, !.cached = NoInst, !.reply = "none"]
  <2>1. x.pc = "answer" /\ x.pc \in RefreshPoints /\ held
    BY <1>14 DEF AnswerRetries, RefreshPoints
  <2>2. NoInst \in InstRef /\ "none" \in Replies /\ "loop" \in PCs /\ "unlock" \in PCs /\ Fallback \in ModelRef
    BY FieldValues
  <2>3. /\ r \in ThreadState /\ r.pc = "loop" /\ r.inst = NoInst
        /\ [r EXCEPT !.pc = "unlock", !.inst = x.inst] \in ThreadState
        /\ [r EXCEPT !.pc = "unlock", !.inst = x.inst].pc = "unlock"
        /\ [r EXCEPT !.pc = "unlock", !.inst = x.inst].inst = x.inst
        /\ [r EXCEPT !.target = Fallback] \in ThreadState
        /\ [r EXCEPT !.target = Fallback].pc = "loop" /\ [r EXCEPT !.target = Fallback].inst = NoInst
    BY <1>1, <2>2 DEF ThreadState
  <2> HIDE DEF r
  <2>4. {"loop", "unlock"} \subseteq CommitPoints
    BY DEF CommitPoints
  <2>5. \E s \in {r, [r EXCEPT !.pc = "unlock", !.inst = x.inst], [r EXCEPT !.target = Fallback]} :
          Commit(t, Nil, s)
    BY <1>14 DEF AnswerRetries, r
  <2> QED
    BY <1>5, <2>1, <2>3, <2>4, <2>5
<1> QED
  BY <1>7, <1>8, <1>9, <1>10, <1>11, <1>12, <1>13, <1>14
LEMMA PassShape ==
  ASSUME SInv, NEW t \in Clients \cup Pollers \cup Keepers,
         \/ t \in Clients /\ (\/ \E m \in Models : BeginTurn(t, m)
                              \/ EndTurn(t) \/ InvalidateInstance(t))
         \/ t \in Pollers /\ (Poll(t) \/ PollAnswer(t))
         \/ t \in Keepers /\ (\/ BeginPass(t) \/ EndTurn(t) \/ EndSession(t)
                              \/ ClearQueued(t) \/ Shutdown(t))
  PROVE  Walks(t) \/ Stores(t)
<1> DEFINE x == th[t]
           quiet == UNCHANGED <<upstreamVars, flightVars, cacheVars, disk, ghostVars>>
           held == UNCHANGED <<upstreamVars, flightVars, disk, ghostVars>>
<1> USE DEF At
<1>1. t \in Threads /\ (t \in Keepers => t \notin Clients \cup Pollers)
  BY SessionAssumption DEF Threads
<1>2. /\ x \in ThreadState /\ RowOK(state) /\ ThreadOK(t, x) /\ ThreadOK(t, Idle)
      /\ x.pc \notin RefreshPoints \cup {"write"} => ~Refreshes(x)
  BY <1>1, Known, IdleOK
<1>3. \A p \in PCs, i \in InstRef :
        /\ [Idle EXCEPT !.pc = p] \in ThreadState /\ [Idle EXCEPT !.pc = p].pc = p
        /\ [Idle EXCEPT !.pc = p, !.inst = i] \in ThreadState
        /\ [Idle EXCEPT !.pc = p, !.inst = i].pc = p /\ [Idle EXCEPT !.pc = p, !.inst = i].inst = i
  <2>1. Idle \in ThreadState
    BY <1>2 DEF ThreadOK
  <2> QED
    BY <2>1 DEF ThreadState
<1>4. Idle \in ThreadState /\ Idle.pc = "idle" /\ \A m, p : Calling(m, p).pc = "ensure"
  BY <1>2 DEF ThreadOK, Idle, Calling
<1>5. {"idle", "end", "enddel", "poll"} \subseteq PCs /\ state.inst \in InstRef
  BY <1>2, FieldValues DEF RowOK, Cached
<1>6. ASSUME NEW s, Goto(t, s), quiet, x.pc \in {"idle", "ride", "polled"},
             t \in Keepers /\ x.pc = "idle" => Passes \cap {"advance", "touch"} # {},
             \/ s.pc \in {"idle", "ensure", "end"} /\ (x.pc = "idle" => s.pc = "ensure")
             \/ t \in Pollers /\ s.pc = "poll" /\ s.inst = state.inst /\ state.status \in {"active", "ended"}
      PROVE  Walks(t)
  <2>1. ~Refreshes(x)
    BY <1>2, <1>6 DEF RefreshPoints
  <2>2. th'[t] = s /\ Alone(t)
    BY <1>1, <1>6, GoesOn
  <2> QED
    BY <1>6, <2>1, <2>2 DEF Walks
<1>7. ASSUME NEW s, NEW cs, s \in ThreadState, Commit(t, cs, s), held,
             x.pc \in {"ride", "polled", "idle", "end"}, s.pc \in {"idle", "enddel"},
             t \in Keepers \/ (x.pc \in {"ride", "polled"} /\ x.inst = state.inst),
             x.pc = s.pc /\ state.status = "active" => cs = state,
             \/ cs \in {Nil, state}
             \/ x.pc = "polled" /\ cs.status = "ended" /\ cs.inst = x.inst /\ x.inst = state.inst
      PROVE  Stores(t)
  <2>1. /\ Alone(t) /\ state' = cs
        /\ IF HasStore
           THEN /\ ~persist.held /\ th'[t].pc = "write" /\ th'[t].next = s.pc
                /\ persist' = [row |-> state', old |-> state.inst, held |-> TRUE]
           ELSE persist' = persist /\ th'[t].pc = s.pc
    BY <1>1, <1>7, Committing
  <2>2. s.pc = IF HasStore THEN th'[t].next ELSE th'[t].pc
    BY <2>1
  <2>3. UNCHANGED <<upstreamVars, refreshing, refreshErr, reAdmitted, disk, ghostVars>>
    BY <1>7 DEF flightVars
  <2> HIDE DEF held
  <2> QED
    BY <1>7, <2>1, <2>2, <2>3 DEF Stores
<1>8. CASE \E m \in Models : BeginTurn(t, m) /\ t \in Clients
  BY <1>1, <1>4, <1>6, <1>8 DEF BeginTurn
<1>9. CASE EndTurn(t)
  BY <1>3, <1>4, <1>5, <1>6, <1>9 DEF EndTurn
<1>10. CASE InvalidateInstance(t)
  BY <1>4, <1>6, <1>7, <1>10 DEF InvalidateInstance
<1>11. CASE Poll(t) /\ t \in Pollers
  <2>1. PICK s : s = [Idle EXCEPT !.pc = "poll", !.inst = state.inst]
    OBVIOUS
  <2>2. s.pc = "poll" /\ s.inst = state.inst
    BY <1>3, <1>5, <2>1
  <2>3. /\ Goto(t, s) /\ quiet /\ x.pc = "idle" /\ state.status \in {"active", "ended"}
        /\ t \notin Keepers
    BY <1>1, <1>11, <2>1 DEF Poll
  <2> QED
    BY <1>6, <1>11, <2>2, <2>3
<1>12. CASE PollAnswer(t)
  <2>1. \A i, m : Row("ended", i, m).status = "ended" /\ Row("ended", i, m).inst = i
    BY DEF Row
  <2> QED
    BY <1>4, <1>6, <1>7, <1>12, <2>1 DEF PollAnswer
<1>13. CASE BeginPass(t)
  BY <1>4, <1>6, <1>13 DEF BeginPass
<1>14. CASE EndSession(t) /\ t \in Keepers
  <2>1. state.status = "active" => state.inst # NoInst
    BY <1>2 DEF RowOK
  <2>2. held /\ x.pc \in {"idle", "end"}
    BY <1>14 DEF EndSession
  <2>3. CASE state.inst = NoInst
    <3>1. Commit(t, Nil, Idle)
      BY <1>14, <2>3 DEF EndSession
    <3> QED
      BY <1>4, <1>7, <1>14, <2>1, <2>2, <2>3, <3>1
  <2>4. CASE state.inst # NoInst
    <3>1. PICK s : s = [Idle EXCEPT !.pc = "enddel", !.inst = state.inst]
      OBVIOUS
    <3>2. s \in ThreadState /\ s.pc = "enddel"
      BY <1>3, <1>5, <3>1
    <3>3. Commit(t, Nil, s)
      BY <1>14, <2>4, <3>1 DEF EndSession
    <3> QED
      BY <1>7, <1>14, <2>2, <3>2, <3>3
  <2> QED
    BY <2>3, <2>4
<1>15. CASE ClearQueued(t) /\ t \in Keepers
  BY <1>4, <1>7, <1>15 DEF ClearQueued
<1>16. CASE Shutdown(t) /\ t \in Keepers
  <2>1. held /\ x.pc = "idle"
    BY <1>16 DEF Shutdown
  <2>2. CASE Commit(t, state, Idle)
    BY <1>4, <1>7, <1>16, <2>1, <2>2
  <2>3. CASE Commit(t, state, [Idle EXCEPT !.pc = "enddel", !.inst = state.inst])
    <3>1. PICK s : s = [Idle EXCEPT !.pc = "enddel", !.inst = state.inst]
      OBVIOUS
    <3>2. s \in ThreadState /\ s.pc = "enddel"
      BY <1>3, <1>5, <3>1
    <3> QED
      BY <1>7, <1>16, <2>1, <2>3, <3>1, <3>2
  <2> QED
    BY <1>16, <2>2, <2>3 DEF Shutdown
<1> QED
  BY <1>8, <1>9, <1>10, <1>11, <1>12, <1>13, <1>14, <1>15, <1>16

LEMMA Shapes ==
  ASSUME SInv, [Next]_vars
  PROVE  Shape
<1>1. CASE \E t \in Clients : \/ \E m \in Models : BeginTurn(t, m)
                             \/ EndTurn(t) \/ InvalidateInstance(t)
  BY <1>1, PassShape DEF Shape, Threads
<1>2. CASE \E t \in Pollers : Poll(t) \/ PollAnswer(t)
  BY <1>2, PassShape DEF Shape, Threads
<1>3. CASE \E t \in Keepers : \/ BeginPass(t) \/ EndTurn(t) \/ EndSession(t)
                             \/ ClearQueued(t) \/ Shutdown(t)
  BY <1>3, PassShape DEF Shape, Threads
<1>4. CASE \E t \in Clients \cup Keepers : Ensure(t) \/ EnsureCanceled(t)
  BY <1>4, EnsureShape
<1>5. CASE \E t \in Threads : Refresh(t) \/ Get(t) \/ Delete(t) \/ Write(t)
  <2>1. PICK t \in Threads : Refresh(t) \/ Get(t) \/ Delete(t) \/ Write(t)
    BY <1>5
  <2>2. CASE Post(t) \/ Get(t) \/ Delete(t) \/ Write(t) \/ FinishRefresh(t)
    BY <2>2 DEF Shape
  <2>3. CASE \/ ShortCircuit(t) \/ RefreshLoop(t) \/ LoadPersisted(t) \/ AnswerPersisted(t)
             \/ ReleaseHeld(t) \/ ReleasedHeld(t) \/ AnswerReturns(t) \/ AnswerRetries(t)
    BY <2>3, RefreshShape DEF Shape
  <2> QED
    BY <2>1, <2>2, <2>3 DEF Refresh
<1>6. CASE InstanceAges \/ UnavailableExpires \/ UNCHANGED vars \/ Restart
  BY <1>6 DEF Shape
<1> QED
  BY <1>1, <1>2, <1>3, <1>4, <1>5, <1>6 DEF Next
----------------------------------------------------------------------------
(* Calls upstream, in the same terms.                                      *)

\* What GET answers is what upstream knows of the instance.
LEMMA GetShape ==
  ASSUME SInv, NEW t \in Threads, Get(t)
  PROVE  LET x == th[t]
             y == th'[t] IN
         /\ Alone(t) /\ UNCHANGED <<ninst, modelOf, flightVars, cacheVars, disk, ghostVars>>
         /\ \/ x.pc = "getp" /\ y.pc = "gotp"
            \/ x.pc = "getq" /\ y.pc = "answer"
            \/ x.pc = "poll" /\ y.pc = "polled"
         /\ y.inst = x.inst
         /\ y.reply = "queued" => age[x.inst] = "queued"
         /\ y.reply \in {"active", "grace"} =>
              \/ age[x.inst] # "queued" /\ x.inst = seat
              \/ age'[x.inst] = "fresh" /\ seat' = x.inst
         /\ \/ age' = age /\ seat' = seat
            \/ seat = NoInst /\ seat' = x.inst /\ y.reply = "active"
               /\ age[x.inst] = "queued" /\ age' = [age EXCEPT ![x.inst] = "fresh"]
<1> DEFINE x == th[t]
           q(r) == [x EXCEPT !.pc = CASE @ = "getp" -> "gotp"
                                      [] @ = "getq" -> "answer"
                                      [] OTHER -> "polled", !.reply = r]
<1>1. x \in ThreadState
  BY Known
<1>2. x.pc \in {"getp", "getq", "poll"} /\ x.inst \in InstRef
  BY <1>1 DEF Get, ThreadState
<1>3. age \in [InstRef -> {"queued", "fresh", "lead", "grace", "dead"}]
  BY DEF SInv, UpstreamOK
<1>4. \A r : /\ \/ x.pc = "getp" /\ q(r).pc = "gotp"
                \/ x.pc = "getq" /\ q(r).pc = "answer"
                \/ x.pc = "poll" /\ q(r).pc = "polled"
             /\ q(r).inst = x.inst /\ q(r).reply = r
  BY <1>1, <1>2 DEF ThreadState
<1>5. \A r : Goto(t, q(r)) => th'[t] = q(r) /\ Alone(t)
  BY GoesOn
<1>6. UNCHANGED <<ninst, modelOf, flightVars, cacheVars, disk, ghostVars>>
  BY DEF Get
<1> HIDE DEF q
<1>7. CASE /\ Goto(t, q(IF age[x.inst] = "queued" THEN "queued"
                      ELSE IF x.inst # seat \/ age[x.inst] = "dead" THEN "refused"
                      ELSE IF age[x.inst] = "grace" THEN "grace" ELSE "active"))
           /\ UNCHANGED <<age, seat>>
  <2>1. PICK r : /\ Goto(t, q(r))
                 /\ r = IF age[x.inst] = "queued" THEN "queued"
                        ELSE IF x.inst # seat \/ age[x.inst] = "dead" THEN "refused"
                        ELSE IF age[x.inst] = "grace" THEN "grace" ELSE "active"
    BY <1>7
  <2>2. /\ r = "queued" => age[x.inst] = "queued"
        /\ r \in {"active", "grace"} => age[x.inst] # "queued" /\ x.inst = seat
    BY <2>1
  <2>3. th'[t] = q(r) /\ Alone(t)
    BY <1>5, <2>1
  <2>4. /\ \/ x.pc = "getp" /\ q(r).pc = "gotp"
           \/ x.pc = "getq" /\ q(r).pc = "answer"
           \/ x.pc = "poll" /\ q(r).pc = "polled"
        /\ q(r).inst = x.inst /\ q(r).reply = r
    BY <1>4
  <2> QED
    BY <1>6, <1>7, <2>2, <2>3, <2>4
<1>8. CASE /\ age[x.inst] = "queued" /\ seat = NoInst
           /\ seat' = x.inst /\ age' = [age EXCEPT ![x.inst] = "fresh"]
           /\ Goto(t, q("active"))
  <2>1. age'[x.inst] = "fresh"
    BY <1>2, <1>3, <1>8
  <2> QED
    BY <1>4, <1>5, <1>6, <1>8, <2>1
<1>9. CASE /\ \E r \in Answers \cap {"denied", "gone", "error", "canceled"} : Goto(t, q(r))
           /\ UNCHANGED <<age, seat>>
  BY <1>4, <1>5, <1>6, <1>9
<1> QED
  BY <1>7, <1>8, <1>9 DEF Get, q

\* DELETE frees the seat, if the instance has it, or does nothing.
LEMMA DeleteShape ==
  ASSUME SInv, NEW t \in Threads, Delete(t)
  PROVE  LET x == th[t]
             y == th'[t] IN
         /\ Alone(t) /\ UNCHANGED <<ninst, modelOf, age, flightVars, cacheVars, disk, ghostVars>>
         /\ \/ x.pc = "delete" /\ y.pc \in {"deleted", "create"}
            \/ x.pc = "unlock" /\ y.pc = "loop"
            \/ x.pc = "enddel" /\ y.pc = "idle"
         /\ y.inst \in {NoInst, x.inst} /\ seat' \in {seat, NoInst}
<1> DEFINE x == th[t]
           quiet == UNCHANGED <<ninst, modelOf, age, flightVars, cacheVars, disk, ghostVars>>
<1>1. x \in ThreadState
  BY Known
<1>2. x.pc \in {"delete", "unlock", "enddel"} /\ seat' \in {seat, NoInst} /\ quiet
  BY DEF Delete
<1>3. /\ \A p : To(t, p).pc = p /\ To(t, p).inst = x.inst
      /\ [To(t, "create") EXCEPT !.inst = NoInst].pc = "create"
      /\ [To(t, "create") EXCEPT !.inst = NoInst].inst = NoInst
      /\ Idle.pc = "idle" /\ Idle.inst = NoInst
  BY <1>1 DEF To, Idle, ThreadState
<1>4. \A s : Goto(t, s) => th'[t] = s /\ Alone(t)
  BY GoesOn
<1>5. Goto(t, CASE x.pc = "delete" -> To(t, "deleted")
                [] x.pc = "unlock" -> To(t, "loop")
                [] OTHER -> Idle)
      \/ Goto(t, CASE x.pc = "delete" -> [To(t, "create") EXCEPT !.inst = NoInst]
                   [] x.pc = "unlock" -> To(t, "loop")
                   [] OTHER -> Idle)
  BY DEF Delete
<1>6. Goto(t, IF x.pc = "delete" THEN To(t, "deleted") ELSE IF x.pc = "unlock" THEN To(t, "loop") ELSE Idle)
      \/ Goto(t, IF x.pc = "delete" THEN [To(t, "create") EXCEPT !.inst = NoInst]
                 ELSE IF x.pc = "unlock" THEN To(t, "loop") ELSE Idle)
  BY <1>5
<1>7. CASE x.pc = "delete"
  <2>1. Goto(t, To(t, "deleted")) \/ Goto(t, [To(t, "create") EXCEPT !.inst = NoInst])
    BY <1>6, <1>7
  <2>2. th'[t] \in {To(t, "deleted"), [To(t, "create") EXCEPT !.inst = NoInst]} /\ Alone(t)
    BY <1>4, <2>1
  <2>3. To(t, "deleted").pc = "deleted" /\ To(t, "deleted").inst = x.inst
    BY <1>3
  <2>4. th'[t].pc \in {"deleted", "create"} /\ th'[t].inst \in {NoInst, x.inst}
    BY <1>3, <2>2, <2>3
  <2> QED
    BY <1>2, <1>7, <2>2, <2>4
<1>8. CASE x.pc = "unlock"
  BY <1>2, <1>3, <1>4, <1>6, <1>8
<1>9. CASE x.pc = "enddel"
  BY <1>2, <1>3, <1>4, <1>6, <1>9
<1> QED
  BY <1>2, <1>7, <1>8, <1>9

\* POST makes the next instance, and may give it the seat, or makes none.
LEMMA PostShape ==
  ASSUME SInv, NEW t \in Threads, Post(t)
  PROVE  LET y == th'[t]
             n == ninst + 1 IN
         /\ Alone(t) /\ UNCHANGED <<flightVars, cacheVars, disk, ghostVars>>
         /\ th[t].pc = "create" /\ y.pc = "answer"
         /\ \/ /\ n \in Insts /\ seat' = n /\ age' = [age EXCEPT ![n] = "fresh"]
               /\ y.inst \in {NoInst, n} /\ y.reply # "queued" /\ (y.reply = "active" => y.inst = n)
               /\ y.reply # "grace"
            \/ /\ n \in Insts /\ seat' = seat /\ age' = [age EXCEPT ![n] = "queued"]
               /\ y.inst = n /\ y.reply = "queued"
            \/ /\ age' = age /\ seat' = seat /\ y.inst \in {NoInst, seat}
               /\ y.reply \notin {"active", "queued"}
               /\ y.reply = "grace" => y.inst = seat /\ age[seat] = "grace"
<1> DEFINE x == th[t]
           n == ninst + 1
           got(i, r) == [To(t, "answer") EXCEPT !.inst = i, !.reply = r]
<1>1. x \in ThreadState
  BY Known
<1>2. x.pc = "create" /\ UNCHANGED <<flightVars, cacheVars, disk, ghostVars>>
  BY DEF Post, At
<1>3. \A i, r : got(i, r).pc = "answer" /\ got(i, r).inst = i /\ got(i, r).reply = r
  BY <1>1 DEF To, ThreadState
<1>4. \A i, r : Goto(t, got(i, r)) => th'[t] = got(i, r) /\ Alone(t)
  BY GoesOn
<1>5. ninst \in 0..MaxInst /\ MaxInst \in Nat
  BY SessionAssumption DEF SInv, UpstreamOK
<1>6. ninst < MaxInst => n \in Insts
  BY <1>5 DEF Insts
<1>7. "active" \notin Answers /\ "grace" \notin Answers
  BY SessionAssumption
<1> HIDE DEF got
<1>8. CASE /\ ninst < MaxInst /\ age' = [age EXCEPT ![n] = "fresh"] /\ seat' = n
           /\ \/ Goto(t, got(n, "active"))
              \/ \E r \in Answers \cap {"error", "canceled"} : Goto(t, got(NoInst, r))
  BY <1>2, <1>3, <1>4, <1>6, <1>8
<1>9. CASE /\ ninst < MaxInst /\ age' = [age EXCEPT ![n] = "queued"] /\ seat' = seat
           /\ Goto(t, got(n, "queued"))
  BY <1>2, <1>3, <1>4, <1>6, <1>9
<1>10. CASE /\ \/ Goto(t, got(seat, "locked"))
               \/ age[seat] = "grace" /\ Goto(t, got(seat, "grace"))
               \/ Goto(t, got(NoInst, "unavailable"))
               \/ \E r \in Answers \ {"queued", "unavailable"} : Goto(t, got(NoInst, r))
            /\ age' = age /\ seat' = seat
  BY <1>2, <1>3, <1>4, <1>7, <1>10
<1> QED
  BY <1>8, <1>9, <1>10 DEF Post, got, upstreamVars

----------------------------------------------------------------------------
(* The store follows the cache.                                            *)

\* A write under way is the cached session's, and one goroutine is at it; while
\* a persisted entry is looked at, nothing is cached; without a store there is
\* no entry.
RecordInv ==
  /\ persist.held => HasStore /\ persist.row = state
  /\ persist.held <=> \E t \in Threads : At(t, "write")
  /\ \A t, u \in Threads : At(t, "write") /\ At(u, "write") => t = u
  /\ \A t \in Threads : th[t].pc \in {"load", "getp", "gotp"} => state.status = "nil"
  /\ ~HasStore => disk = Nil
  /\ RecordTracksSession

\* Nobody begins or ends a write, and an entry is dropped only while nothing is
\* cached.
LEMMA RecordStays ==
  ASSUME RecordInv, UNCHANGED <<state, persist>>,
         \A u \in Threads : th'[u].pc = "write" <=> th[u].pc = "write",
         \A u \in Threads : th'[u].pc \in {"load", "getp", "gotp"} => state.status = "nil",
         disk' = disk \/ (state.status = "nil" /\ disk' = Nil)
  PROVE  RecordInv'
<1>1. /\ (persist.held => HasStore /\ persist.row = state)'
      /\ (persist.held <=> \E t \in Threads : At(t, "write"))'
      /\ (\A t, u \in Threads : At(t, "write") /\ At(u, "write") => t = u)'
      /\ (\A t \in Threads : th[t].pc \in {"load", "getp", "gotp"} => state.status = "nil")'
  BY DEF RecordInv, At
<1>2. (~HasStore => disk = Nil)' /\ RecordTracksSession'
  BY DEF RecordInv, RecordTracksSession
<1> QED
  BY <1>1, <1>2 DEF RecordInv

LEMMA RecordStores ==
  ASSUME SInv, RecordInv, NEW t \in Threads, Stores(t)
  PROVE  RecordInv'
<1> DEFINE x == th[t]
           y == th'[t]
           p == IF HasStore THEN y.next ELSE y.pc
<1> USE DEF At
<1>1. /\ Alone(t) /\ disk' = disk
      /\ HasStore => /\ ~persist.held /\ y.pc = "write"
                     /\ persist' = [row |-> state', old |-> state.inst, held |-> TRUE]
      /\ ~HasStore => persist' = persist
      /\ p \in CommitPoints \cup {"idle", "enddel"} /\ x.pc # "write"
  BY DEF Stores, RefreshPoints
<1>2. ASSUME NEW u \in Threads \ {t}, th[u].pc \in {"load", "getp", "gotp"}
      PROVE  state'.status = "nil"
  <2>1. state.status = "nil" /\ InRefresh(u)
    BY <1>2 DEF RecordInv, InRefresh
  <2>2. CASE x.pc \in RefreshPoints
    BY <1>2, <2>1, <2>2 DEF RefreshPoints, InRefresh, SInv, SingleAdmission
  <2>3. CASE state' \in {Nil, state}
    BY <2>1, <2>3 DEF Nil
  <2>4. CASE x.pc = "polled" /\ x.inst = state.inst
    <3>1. x.inst # NoInst /\ RowOK(state)
      BY <2>4, Known DEF ThreadOK, CallOK
    <3> QED
      BY <2>1, <2>4, <3>1 DEF RowOK
  <2> QED
    BY <2>2, <2>3, <2>4 DEF Stores, RefreshPoints
<1>3. (\A u \in Threads : th[u].pc \in {"load", "getp", "gotp"} => state.status = "nil")'
  <2>1. y.pc \notin {"load", "getp", "gotp"}
    BY <1>1 DEF CommitPoints
  <2> QED
    BY <1>1, <1>2, <2>1 DEF Alone
<1>4. CASE HasStore
  <2>1. \A u \in Threads : th'[u].pc = "write" <=> u = t
    BY <1>1, <1>4 DEF RecordInv, Alone
  <2> QED
    BY <1>1, <1>3, <1>4, <2>1 DEF RecordInv, RecordTracksSession
<1>5. CASE ~HasStore
  <2>1. ~persist.held /\ \A u \in Threads : th'[u].pc # "write"
    BY <1>1, <1>5 DEF RecordInv, Alone, CommitPoints
  <2> QED
    BY <1>1, <1>3, <1>5, <2>1 DEF RecordInv, RecordTracksSession
<1> QED
  BY <1>4, <1>5

LEMMA RecordWrites ==
  ASSUME SInv, RecordInv, NEW t \in Threads, Write(t)
  PROVE  RecordInv'
<1> DEFINE x == th[t]
<1> USE DEF At
<1>1. x.pc = "write" /\ persist.held /\ HasStore /\ persist.row = state /\ state' = state
      /\ persist' = NoWrite
  BY DEF Write, RecordInv
<1>2. PICK s : s = [To(t, x.next) EXCEPT !.next = "idle"]
  OBVIOUS
<1>3. x \in ThreadState /\ x.next \in CommitPoints \cup {"idle", "enddel"} /\ RowOK(state)
  BY <1>1, Known DEF ThreadOK, CallOK
<1>4. s.pc = x.next
  BY <1>2, <1>3 DEF To, ThreadState
<1>5. th'[t] = s /\ Alone(t)
  BY <1>2, GoesOn DEF Write
<1>6. \A u \in Threads : th'[u].pc # "write"
  BY <1>1, <1>3, <1>4, <1>5 DEF Alone, RecordInv, CommitPoints
<1>7. \A u \in Threads : th'[u].pc \in {"load", "getp", "gotp"} => state.status = "nil"
  BY <1>3, <1>4, <1>5 DEF Alone, RecordInv, CommitPoints
<1>8. ~NoWrite.held
  BY DEF NoWrite
<1>9. state.status # "nil" => disk' = IF state.inst = NoInst THEN Nil ELSE state
  BY <1>1 DEF Write
<1> QED
  BY <1>1, <1>6, <1>7, <1>8, <1>9 DEF RecordInv, RecordTracksSession

LEMMA RecordHolds ==
  ASSUME SInv, RecordInv, [Next]_vars
  PROVE  RecordInv'
<1> USE DEF At
<1>0. Shape
  BY Shapes
<1>1. ASSUME NEW t \in Threads, Walks(t) PROVE RecordInv'
  <2>1. /\ Alone(t) /\ UNCHANGED <<state, persist>> /\ disk' = disk
        /\ th[t].pc # "write" /\ th'[t].pc # "write"
        /\ th'[t].pc \in {"load", "getp", "gotp"} => state.status = "nil"
    BY <1>1 DEF Walks, cacheVars
  <2>2. /\ \A u \in Threads : th'[u].pc = "write" <=> th[u].pc = "write"
        /\ \A u \in Threads : th'[u].pc \in {"load", "getp", "gotp"} => state.status = "nil"
    BY <2>1 DEF Alone, RecordInv
  <2> QED
    BY <2>1, <2>2, RecordStays
<1>2. ASSUME NEW t \in Threads, Drops(t) PROVE RecordInv'
  <2>1. /\ Alone(t) /\ UNCHANGED <<state, persist>> /\ disk' \in {disk, Nil}
        /\ th[t].pc \in {"load", "gotp"} /\ th'[t].pc # "write"
    BY <1>2 DEF Drops, cacheVars
  <2>2. state.status = "nil"
    BY <2>1 DEF RecordInv
  <2>3. /\ \A u \in Threads : th'[u].pc = "write" <=> th[u].pc = "write"
        /\ \A u \in Threads : th'[u].pc \in {"load", "getp", "gotp"} => state.status = "nil"
    BY <2>1, <2>2 DEF Alone
  <2> QED
    BY <2>1, <2>2, <2>3, RecordStays
<1>3. ASSUME NEW t \in Threads, Leads(t) PROVE RecordInv'
  <2>1. /\ \A u \in Threads : th'[u].pc = "write" <=> th[u].pc = "write"
        /\ \A u \in Threads : th'[u].pc \in {"load", "getp", "gotp"} => state.status = "nil"
    BY <1>3 DEF Leads, Alone, RecordInv
  <2> QED
    BY <1>3, <2>1, RecordStays DEF Leads, cacheVars
<1>4. ASSUME NEW t \in Threads, FinishRefresh(t) PROVE RecordInv'
  <2>1. \A u \in Threads : \/ th'[u] = th[u]
                           \/ th[u].pc # "write" /\ th'[u].pc \in {"idle", "trust", "woken"}
    <3> TAKE u \in Threads
    <3>1. th[u] \in ThreadState
      BY Known
    <3>2. \A p : To(u, p).pc = p
      BY <3>1 DEF To, ThreadState
    <3>3. Idle.pc = "idle"
      BY DEF Idle
    <3> QED
      BY <1>4, <3>2, <3>3 DEF FinishRefresh
  <2>2. /\ \A u \in Threads : th'[u].pc = "write" <=> th[u].pc = "write"
        /\ \A u \in Threads : th'[u].pc \in {"load", "getp", "gotp"} => state.status = "nil"
    BY <2>1 DEF RecordInv
  <2> QED
    BY <1>4, <2>2, RecordStays DEF FinishRefresh, cacheVars
<1>5. ASSUME NEW t \in Clients \cup Keepers, EnsureTrigger(t) PROVE RecordInv'
  <2>1. t \in Threads /\ Async \in Threads /\ ~refreshing /\ th[t].pc = "ensure"
    BY <1>5 DEF EnsureTrigger, FastPath, Ensuring, Threads
  <2>2. th[Async].pc = "idle"
    BY <2>1, Known, Points DEF SInv, SingleAdmission, ThreadOK, CallOK
  <2>3. /\ Again(th[t]).pc = "ensure"
        /\ Refreshing(Calling(th[t].model, "none")).pc = "short"
    BY DEF Again, Idle, Refreshing, Calling
  <2>4. \A u \in Threads : th'[u] = IF u = Async THEN Refreshing(Calling(th[t].model, "none"))
                                   ELSE IF u = t THEN Again(th[t]) ELSE th[u]
    BY <1>5, <2>1, SessionAssumption DEF EnsureTrigger, SInv, ThreadsOK
  <2>5. /\ \A u \in Threads : th'[u].pc = "write" <=> th[u].pc = "write"
        /\ \A u \in Threads : th'[u].pc \in {"load", "getp", "gotp"} => state.status = "nil"
    BY <2>1, <2>2, <2>3, <2>4 DEF RecordInv
  <2> QED
    BY <1>5, <2>5, RecordStays DEF EnsureTrigger, cacheVars
<1>6. ASSUME NEW t \in Threads, Get(t) \/ Delete(t) \/ Post(t) PROVE RecordInv'
  <2>1. /\ Alone(t) /\ UNCHANGED <<state, persist>> /\ disk' = disk
        /\ th[t].pc # "write" /\ th'[t].pc # "write"
        /\ th'[t].pc \in {"load", "getp", "gotp"} => th[t].pc = "getp"
    BY <1>6, GetShape, DeleteShape, PostShape DEF cacheVars
  <2>2. /\ \A u \in Threads : th'[u].pc = "write" <=> th[u].pc = "write"
        /\ \A u \in Threads : th'[u].pc \in {"load", "getp", "gotp"} => state.status = "nil"
    BY <2>1 DEF Alone, RecordInv
  <2> QED
    BY <2>1, <2>2, RecordStays
<1>7. ASSUME NEW t \in Threads, Stores(t) PROVE RecordInv'
  BY <1>7, RecordStores
<1>8. ASSUME NEW t \in Threads, Write(t) PROVE RecordInv'
  BY <1>8, RecordWrites
<1>9. CASE InstanceAges \/ UnavailableExpires \/ UNCHANGED vars
  <2>1. th' = th /\ disk' = disk /\ UNCHANGED <<state, persist>>
    BY <1>9 DEF InstanceAges, UnavailableExpires, vars, cacheVars
  <2>2. /\ \A u \in Threads : th'[u].pc = "write" <=> th[u].pc = "write"
        /\ \A u \in Threads : th'[u].pc \in {"load", "getp", "gotp"} => state.status = "nil"
    BY <2>1 DEF RecordInv
  <2> QED
    BY <2>1, <2>2, RecordStays
<1>10. CASE Restart
  <2>1. \A u \in Threads : th'[u].pc = "idle"
    BY <1>10 DEF Restart, Idle
  <2>2. state'.status = "nil" /\ ~persist'.held /\ disk' = disk
    BY <1>10 DEF Restart, Nil, NoWrite
  <2> QED
    BY <2>1, <2>2 DEF RecordInv, RecordTracksSession
<1> QED
  BY <1>0, <1>1, <1>2, <1>3, <1>4, <1>5, <1>6, <1>7, <1>8, <1>9, <1>10 DEF Shape

\* A commit takes persistMu before it lets go of mu, so the store's entry is the
\* cached session whenever no write is under way.
THEOREM RecordFollows == Spec => []RecordTracksSession
<1>1. Init => RecordInv
  BY DEF Init, RecordInv, RecordTracksSession, At, Idle, Nil, NoWrite
<1>2. SInv /\ RecordInv /\ [Next]_vars => RecordInv'
  BY RecordHolds
<1>3. RecordInv => RecordTracksSession
  BY DEF RecordInv
<1> QED
  BY <1>1, <1>2, <1>3, SessionKept, PTL DEF Spec

----------------------------------------------------------------------------
(* Nobody's live session is taken away.                                    *)

\* While asyncReAdmit refreshes, no turn has gone beyond the wait for it.
SpareInv ==
  Refreshes(th[Async]) =>
    \A c \in Clients : th[c].pc \in {"idle", "exit", "ensure", "park"}

\* Keepers that end or clear the session are never inside a refresh.
KeepersOut ==
  \A k \in Keepers : ~Refreshes(th[k]) /\ th[k].pc \in {"idle", "end", "enddel", "write"}

GateInv == SpareInv /\ KeepersOut

\* seatCounter.idle: the caller's is the only seat that is taken.
LEMMA AloneOnTheSeat ==
  ASSUME NEW t \in Clients, th[t].pc \notin {"idle", "exit"}, SeatIdle,
         NEW c \in Clients, c # t
  PROVE  th[c].pc \in {"idle", "exit"}
<1> DEFINE S == {u \in Clients : th[u].pc \notin {"idle", "exit"}}
<1>1. IsFiniteSet(Clients) /\ S \in SUBSET Clients
  BY SessionAssumption
<1>2. IsFiniteSet(S) /\ Cardinality(S) <= 1 /\ Cardinality(S) \in Nat /\ t \in S
  BY <1>1, FS_Subset, FS_CardinalityType DEF SeatIdle, Seats
<1> HIDE DEF S
<1>3. S # {} /\ Cardinality(S) \in {0, 1}
  BY <1>2
<1>4. PICK x : S = {x}
  BY <1>2, <1>3, FS_EmptySet, FS_Singleton
<1>5. c \notin S
  BY <1>2, <1>4
<1> QED
  BY <1>5 DEF S

\* One goroutine moves: a turn that waits goes on waiting, a keeper stays out,
\* and asyncReAdmit does not begin.
LEMMA GateStays ==
  ASSUME GateInv, NEW t \in Threads, Alone(t),
         t = Async /\ Refreshes(th'[t]) => Refreshes(th[t]),
         t \in Clients /\ Refreshes(th[Async]) /\ th[t].pc \in {"idle", "exit", "ensure", "park"}
           => th'[t].pc \in {"idle", "exit", "ensure", "park"},
         t \in Keepers => ~Refreshes(th'[t]) /\ th'[t].pc \in {"idle", "end", "enddel", "write"}
  PROVE  GateInv'
<1>1. KeepersOut'
  <2> SUFFICES ASSUME NEW k \in Keepers
               PROVE  ~Refreshes(th'[k]) /\ th'[k].pc \in {"idle", "end", "enddel", "write"}
    BY DEF KeepersOut, Refreshes
  <2> QED
    BY DEF GateInv, KeepersOut, Alone, Threads
<1>2. SpareInv'
  <2> SUFFICES ASSUME Refreshes(th'[Async]), NEW c \in Clients
               PROVE  th'[c].pc \in {"idle", "exit", "ensure", "park"}
    BY DEF SpareInv, Refreshes
  <2>1. Refreshes(th[Async])
    BY DEF Alone, Threads
  <2> QED
    BY <2>1 DEF GateInv, SpareInv, Alone, Threads
<1> QED
  BY <1>1, <1>2 DEF GateInv

LEMMA GateHolds ==
  ASSUME Passes \cap {"advance", "touch"} = {}, SInv, GateInv, [Next]_vars
  PROVE  GateInv'
<1> DEFINE waits(p) == p \in {"idle", "exit", "ensure", "park"}
<1>0. /\ Shape /\ Async \in Threads /\ Async \notin Clients \cup Keepers
      /\ Clients \cap Pollers = {} /\ Clients \cap Keepers = {}
  BY Shapes, SessionAssumption DEF Threads
<1>1. th[Async].pc = "idle" \/ Refreshes(th[Async])
  BY <1>0, Known DEF ThreadOK, CallOK
<1>2. \A k \in Keepers : ~Refreshes(th[k]) /\ th[k].pc \in {"idle", "end", "enddel", "write"}
  BY DEF GateInv, KeepersOut
<1>3. /\ Refreshes(th[Async]) => refreshing
      /\ \A t \in Threads : Refreshes(th[t]) /\ Refreshes(th[Async]) => t = Async
  BY <1>0, Points DEF SInv, SingleAdmission
<1>4. ASSUME NEW t \in Threads, Walks(t) PROVE GateInv'
  <2> DEFINE x == th[t]
             y == th'[t]
  <2>1. t \notin Keepers
    <3>1. SUFFICES ASSUME t \in Keepers PROVE FALSE
      OBVIOUS
    <3>2. x.pc = "idle" /\ ~Refreshes(x)
      BY <1>2, <1>4, <3>1 DEF Walks
    <3> QED
      BY <1>4, <3>1, <3>2 DEF Walks
  <2>2. Refreshes(y) => Refreshes(x)
    BY <1>4 DEF Walks, Refreshes, RefreshPoints
  <2>3. t \in Clients /\ Refreshes(th[Async]) /\ waits(x.pc) => waits(y.pc)
    BY <1>0, <1>3, <1>4 DEF Walks, RefreshPoints
  <2> QED
    BY <1>4, <2>1, <2>2, <2>3, GateStays DEF Walks
<1>5. ASSUME NEW t \in Threads, Drops(t) PROVE GateInv'
  <2>1. Alone(t) /\ th[t].pc \in {"load", "gotp"}
    BY <1>5 DEF Drops
  <2>2. Refreshes(th[t]) /\ ~waits(th[t].pc) /\ t \notin Keepers
    BY <1>2, <2>1 DEF Refreshes, RefreshPoints
  <2> QED
    BY <2>1, <2>2, GateStays
<1>6. ASSUME NEW t \in Threads, Stores(t) PROVE GateInv'
  <2> DEFINE x == th[t]
             y == th'[t]
             p == IF HasStore THEN y.next ELSE y.pc
  <2>1. Alone(t) /\ (HasStore => y.pc = "write") /\ (~HasStore => y.pc = p)
    BY <1>6 DEF Stores
  <2>2. CASE x.pc \in {"short", "deleted", "answer"}
    <3>1. Refreshes(x) /\ ~waits(x.pc) /\ t \notin Keepers
      BY <1>2, <2>2 DEF Refreshes, RefreshPoints
    <3> QED
      BY <2>1, <3>1, GateStays
  <2>3. CASE /\ x.pc \in {"ride", "polled", "idle", "end"} /\ p \in {"idle", "enddel"}
             /\ t \in Keepers \/ x.pc \in {"ride", "polled"}
    <3>1. ~Refreshes(y) /\ y.pc \in {"idle", "enddel", "write"}
      BY <2>1, <2>3 DEF Refreshes, RefreshPoints, CommitPoints
    <3>2. ~(t \in Clients /\ waits(x.pc))
      BY <1>0, <2>3
    <3> QED
      BY <2>1, <3>1, <3>2, GateStays
  <2> QED
    BY <1>6, <2>2, <2>3 DEF Stores
<1>7. ASSUME NEW t \in Threads, Leads(t) PROVE GateInv'
  <2>1. Alone(t) /\ th[t].pc = "ensure" /\ ~refreshing
    BY <1>7 DEF Leads
  <2>2. t # Async /\ t \notin Keepers /\ ~Refreshes(th[Async])
    BY <1>1, <1>2, <1>3, <2>1
  <2> QED
    BY <2>1, <2>2, GateStays
<1>8. ASSUME NEW t \in Threads, FinishRefresh(t) PROVE GateInv'
  <2>1. \A u \in Threads : th'[u].pc = th[u].pc \/ u = t \/ th[u].pc = "park"
    BY <1>8 DEF FinishRefresh, At
  <2>2. \A u \in Threads \ {t} : th[u].pc # "park" => th'[u] = th[u]
    BY <1>8 DEF FinishRefresh, At
  <2>3. th[t].pc = "finish" /\ Refreshes(th[t])
    BY <1>8 DEF FinishRefresh, At, Refreshes, RefreshPoints
  <2>4. t = Async => th'[Async] = Idle
    BY <1>0, <1>8 DEF FinishRefresh
  <2>5. ~Refreshes(th'[Async])
    <3>1. CASE t = Async
      BY <2>4, <3>1 DEF Idle, Refreshes, RefreshPoints
    <3>2. CASE t # Async
      <4>1. ~Refreshes(th[Async]) /\ th[Async].pc = "idle"
        BY <1>1, <1>3, <2>3, <3>2
      <4> QED
        BY <1>0, <2>2, <3>2, <4>1
    <3> QED
      BY <3>1, <3>2
  <2>6. \A k \in Keepers : th'[k] = th[k]
    BY <1>2, <2>2, <2>3 DEF Threads
  <2> QED
    BY <1>2, <2>5, <2>6 DEF GateInv, SpareInv, KeepersOut, Refreshes
<1>9. ASSUME NEW t \in Clients \cup Keepers, EnsureTrigger(t) PROVE GateInv'
  <2>1. th[t].pc = "ensure" /\ SeatIdle
    BY <1>9 DEF EnsureTrigger, FastPath, Ensuring, Trigger, At
  <2>2. t \in Clients /\ t \in Threads
    BY <1>2, <2>1 DEF Threads
  <2>3. Again(th[t]).pc = "ensure"
    BY DEF Again, Idle
  <2>4. \A u \in Threads \ {Async} : th'[u] = IF u = t THEN Again(th[t]) ELSE th[u]
    BY <1>0, <1>9, <2>2 DEF EnsureTrigger, SInv, ThreadsOK
  <2>5. \A c \in Clients \ {t} : th[c].pc \in {"idle", "exit"}
    BY <2>1, <2>2, AloneOnTheSeat
  <2>6. \A c \in Clients : waits(th'[c].pc)
    BY <1>0, <2>3, <2>4, <2>5 DEF Threads
  <2>7. \A k \in Keepers : th'[k] = th[k]
    BY <1>0, <2>2, <2>4 DEF Threads
  <2> QED
    BY <1>2, <2>6, <2>7 DEF GateInv, SpareInv, KeepersOut, Refreshes
<1>10. ASSUME NEW t \in Threads, Get(t) \/ Delete(t) \/ Post(t) PROVE GateInv'
  <2>1. /\ Alone(t) /\ ~waits(th[t].pc)
        /\ \/ th[t].pc \in RefreshPoints \cup {"poll"}
           \/ th[t].pc = "enddel" /\ th'[t].pc = "idle"
    BY <1>10, GetShape, DeleteShape, PostShape DEF RefreshPoints
  <2>2. t = Async => Refreshes(th[t])
    BY <1>1, <2>1
  <2>3. t \in Keepers => th'[t].pc = "idle"
    BY <1>2, <2>1 DEF Refreshes
  <2>4. th'[t].pc = "idle" => ~Refreshes(th'[t])
    BY DEF Refreshes, RefreshPoints
  <2> QED
    BY <2>1, <2>2, <2>3, <2>4, GateStays
<1>11. ASSUME NEW t \in Threads, Write(t) PROVE GateInv'
  <2>1. th[t].pc = "write" /\ th[t] \in ThreadState /\ th[t].next \in CommitPoints \cup {"idle", "enddel"}
    BY <1>11, Known DEF Write, At, ThreadOK, CallOK
  <2>2. PICK s : s = [To(t, th[t].next) EXCEPT !.next = "idle"]
    OBVIOUS
  <2>3. th'[t] = s /\ Alone(t) /\ s.pc = th[t].next
    BY <1>11, <2>1, <2>2, GoesOn DEF Write, To, ThreadState
  <2>4. t = Async => Refreshes(th[t])
    BY <1>1, <2>1
  <2>5. t \in Keepers => ~Refreshes(th'[t]) /\ th'[t].pc \in {"idle", "end", "enddel", "write"}
    BY <1>2, <2>1, <2>3 DEF Refreshes, RefreshPoints, CommitPoints
  <2> QED
    BY <2>1, <2>3, <2>4, <2>5, GateStays
<1>12. CASE InstanceAges \/ UnavailableExpires \/ UNCHANGED vars
  <2>1. th' = th
    BY <1>12 DEF InstanceAges, UnavailableExpires, vars
  <2> QED
    BY <2>1 DEF GateInv, SpareInv, KeepersOut, Refreshes
<1>13. CASE Restart
  <2>1. \A u \in Threads : th'[u] = Idle
    BY <1>13 DEF Restart
  <2>2. Idle.pc = "idle" /\ ~Refreshes(Idle)
    BY DEF Idle, Refreshes, RefreshPoints
  <2>3. ~Refreshes(th'[Async]) /\ \A k \in Keepers : ~Refreshes(th'[k]) /\ th'[k].pc = "idle"
    BY <1>0, <2>1, <2>2 DEF Threads
  <2> QED
    BY <2>3 DEF GateInv, SpareInv, KeepersOut, Refreshes
<1> QED
  BY <1>0, <1>4, <1>5, <1>6, <1>7, <1>8, <1>9, <1>10, <1>11, <1>12, <1>13 DEF Shape

\* Only a commit or a restart replaces the cached session, and who commits is the
\* refresher, a keeper, or asked about this very instance.
LEMMA LateAnswersSpare == SInv /\ [Next]_vars => StaleAnswersHarmless
<1> SUFFICES ASSUME SInv, [Next]_vars, state.status = "active",
                    state'.inst # state.inst, crashes' = crashes
             PROVE  \E t \in Threads : /\ th'[t] # th[t]
                                       /\ \/ InRefresh(t) \/ t \in Keepers
                                          \/ th[t].inst = state.inst
  BY DEF StaleAnswersHarmless
<1>1. Shape /\ crashes \in Nat
  BY Shapes, SessionAssumption DEF SInv, GhostOK
<1>2. ~Restart
  BY <1>1 DEF Restart
<1>3. PICK t \in Threads : Stores(t)
  <2>1. \A t \in Threads : Walks(t) \/ Drops(t) \/ Leads(t) \/ FinishRefresh(t) => state' = state
    BY DEF Walks, Drops, Leads, FinishRefresh, cacheVars
  <2>2. \A t \in Threads : Get(t) \/ Delete(t) \/ Post(t) \/ Write(t) => state' = state
    BY DEF Get, Delete, Post, Write, cacheVars
  <2>3. \A t \in Clients \cup Keepers : EnsureTrigger(t) => state' = state
    BY DEF EnsureTrigger, cacheVars
  <2>4. InstanceAges \/ UnavailableExpires \/ UNCHANGED vars => state' = state
    BY DEF InstanceAges, UnavailableExpires, vars, cacheVars
  <2> QED
    BY <1>1, <1>2, <2>1, <2>2, <2>3, <2>4 DEF Shape
<1> DEFINE x == th[t]
           y == th'[t]
           p == IF HasStore THEN y.next ELSE y.pc
<1>4. HasStore => y.pc = "write"
  BY <1>3 DEF Stores
<1>5. CASE x.pc \in {"short", "deleted", "answer"} /\ p \in CommitPoints
  <2>1. InRefresh(t)
    BY <1>5 DEF InRefresh
  <2>2. x.pc # y.pc
    BY <1>4, <1>5 DEF CommitPoints
  <2> QED
    BY <2>1, <2>2
<1>6. CASE /\ x.pc \in {"ride", "polled", "idle", "end"} /\ p \in {"idle", "enddel"}
           /\ t \in Keepers \/ x.inst = state.inst
           /\ x.pc = p => state' = state
  <2>1. x.pc # y.pc
    BY <1>4, <1>6
  <2> QED
    BY <1>6, <2>1
<1> QED
  BY <1>3, <1>5, <1>6 DEF Stores

\* A late answer about an older instance, or about none, drops nothing.
THEOREM LateAnswersHarmless == Spec => [][StaleAnswersHarmless]_vars
  BY SessionKept, LateAnswersSpare, PTL DEF Spec

\* When every admission counts on the seat - no advance of a queued session and no
\* maturity touch takes the token beside the turns - the seat gate keeps its
\* promise: no re-admit rotates the seat out from under a turn that has begun.
THEOREM SeatIsKept ==
  ASSUME Passes \cap {"advance", "touch"} = {}
  PROVE  Spec => SeatKept
<1>1. Init => GateInv
  <2>1. ~Refreshes(Idle) /\ Idle.pc = "idle"
    BY DEF Idle, Refreshes, RefreshPoints
  <2>2. Async \in Threads /\ Keepers \subseteq Threads
    BY DEF Threads
  <2> QED
    BY <2>1, <2>2 DEF Init, GateInv, SpareInv, KeepersOut
<1>2. SInv /\ GateInv /\ [Next]_vars => GateInv'
  BY GateHolds
<1>3. GateInv => [ReAdmitSpares]_vars
  <2> SUFFICES ASSUME GateInv PROVE ReAdmitSpares
    OBVIOUS
  <2> QED
    BY DEF GateInv, SpareInv, ReAdmitSpares, Refreshes, RefreshPoints, At
<1>4. SInv /\ [Next]_vars => [StaleAnswersHarmless]_vars
  BY LateAnswersSpare
<1> QED
  BY <1>1, <1>2, <1>3, <1>4, SessionKept, PTL DEF Spec, SeatKept

----------------------------------------------------------------------------
(* A session is re-admitted once.                                          *)

\* Instance i is none, or not older than the last one a re-admit was for.
Ref(i) == i = NoInst \/ i >= reAdmitted

\* What is known of a goroutine in state s: the refresher works on no instance
\* that was re-admitted before; a write that keeps the session is its entry's;
\* who was told of a running session was told so of an instance that has left the
\* queue, and no older one has the seat.
OnceOK(s) ==
  /\ Refreshes(s) => Ref(s.inst)
  /\ s.pc = "write" /\ s.next \notin CommitPoints =>
       state.status = "nil" \/ disk.inst = state.inst
  /\ s.pc \in {"getp", "poll", "polled"} => age[s.inst] # "queued"
  /\ s.pc \in {"gotp", "answer"} /\ s.reply \in {"active", "grace"} =>
       age[s.inst] # "queued" /\ (seat = NoInst \/ seat >= s.inst)
  /\ s.pc = "answer" /\ s.reply = "queued" => age[s.inst] = "queued"
  /\ s.pc \in {"poll", "polled"} /\ s.inst = state.inst => state.status \in {"active", "ended"}
  /\ s.pc = "getq" => state.status \in {"nil", "queued"}

\* What was re-admitted lies behind, for the cache, the store and the seat.
OnceInv ==
  /\ \A i \in Insts : tried[i] <= 1 /\ (tried[i] = 1 => i <= reAdmitted)
  /\ Ref(state.inst) /\ Ref(disk.inst) /\ Ref(seat)
  /\ state.status \in {"active", "ended"} =>
       age[state.inst] # "queued" /\ (seat = NoInst \/ seat >= state.inst)
  /\ disk.status = "active" => age[disk.inst] # "queued"
  /\ \A t \in Threads : OnceOK(th[t])

\* Goroutine t moves; the store's entry is kept, dropped or made the cached
\* session, and the seat is kept or freed.
LEMMA OnceStays ==
  ASSUME OnceInv, NEW t \in Threads, Alone(t), UNCHANGED <<age, state, reAdmitted, tried>>,
         seat' \in {seat, NoInst},
         \/ disk' = disk
         \/ disk' = Nil /\ state.status = "nil"
         \/ disk' = IF state.inst = NoInst THEN Nil ELSE state,
         OnceOK(th[t])'
  PROVE  OnceInv'
<1>1. Nil.inst = NoInst /\ Nil.status = "nil"
  BY DEF Nil
<1>2. Ref(state.inst)' /\ Ref(disk.inst)' /\ Ref(seat)'
  BY <1>1 DEF OnceInv, Ref
<1>3. (disk.status = "active" => age[disk.inst] # "queued")'
  BY <1>1 DEF OnceInv
<1>4. (state.status \in {"active", "ended"} =>
         age[state.inst] # "queued" /\ (seat = NoInst \/ seat >= state.inst))'
  BY DEF OnceInv
<1>5. \A u \in Threads : OnceOK(th[u])'
  <2> SUFFICES ASSUME NEW u \in Threads \ {t} PROVE OnceOK(th[u])'
    OBVIOUS
  <2>1. OnceOK(th[u]) /\ th'[u] = th[u]
    BY DEF OnceInv, Alone
  <2> QED
    BY <1>1, <2>1 DEF OnceOK, Ref, Refreshes
<1> QED
  BY <1>2, <1>3, <1>4, <1>5 DEF OnceInv

\* At these points nothing is asked of a goroutine but its instance.
LEMMA OnceThere ==
  ASSUME NEW t \in Threads, UNCHANGED reAdmitted,
         th'[t].pc \notin {"write", "getp", "poll", "polled", "gotp", "answer", "getq"},
         Refreshes(th'[t]) => Ref(th'[t].inst)
  PROVE  OnceOK(th[t])'
BY DEF OnceOK, Ref, Refreshes

LEMMA OnceWalks ==
  ASSUME SInv, OnceInv, NEW t \in Threads, Walks(t)
  PROVE  OnceInv'
<1> DEFINE x == th[t]
           y == th'[t]
<1>1. /\ Alone(t) /\ disk' = disk /\ UNCHANGED <<age, seat, state, reAdmitted, tried>>
  BY DEF Walks, upstreamVars, flightVars, cacheVars, ghostVars
<1>2. /\ OnceOK(x) /\ Ref(state.inst) /\ Ref(NoInst) /\ (x.pc \in RefreshPoints => Refreshes(x))
      /\ state.status \in {"active", "ended"} => age[state.inst] # "queued"
  BY DEF OnceInv, Ref, Refreshes
<1>3. CASE ~Refreshes(x) /\ y.pc \in {"idle", "ensure", "park", "recheck", "ride", "end"}
  <2>1. ~Refreshes(y)
    BY <1>3 DEF Refreshes, RefreshPoints
  <2>2. OnceOK(th[t])'
    BY <1>1, <1>3, <2>1, OnceThere
  <2> QED
    BY <1>1, <2>2, OnceStays
<1>4. CASE y.pc = "poll" /\ y.inst = state.inst /\ state.status \in {"active", "ended"}
  <2>1. ~Refreshes(y)
    BY <1>4 DEF Refreshes, RefreshPoints
  <2>2. OnceOK(th[t])'
    BY <1>1, <1>2, <1>4, <2>1 DEF OnceOK, Refreshes
  <2> QED
    BY <1>1, <2>2, OnceStays
<1>5. CASE /\ x.pc \in RefreshPoints /\ y.pc \in {"loop", "create", "release", "delete", "finish"}
           /\ y.inst \in {NoInst, x.inst, state.inst}
  <2>1. Ref(y.inst)
    BY <1>2, <1>5 DEF OnceOK
  <2>2. OnceOK(th[t])'
    BY <1>1, <1>5, <2>1, OnceThere
  <2> QED
    BY <1>1, <2>2, OnceStays
<1>6. CASE x.pc = "loop" /\ y.pc = "load" /\ y.inst = NoInst
  <2>1. OnceOK(th[t])'
    BY <1>1, <1>2, <1>6, OnceThere
  <2> QED
    BY <1>1, <2>1, OnceStays
<1>7. CASE x.pc = "loop" /\ y.pc = "getq" /\ y.inst = state.inst /\ state.status = "queued"
  <2>1. OnceOK(th[t])'
    BY <1>1, <1>2, <1>7 DEF OnceOK, Ref
  <2> QED
    BY <1>1, <2>1, OnceStays
<1> QED
  BY <1>3, <1>4, <1>5, <1>6, <1>7 DEF Walks

LEMMA OnceDrops ==
  ASSUME SInv, RecordInv, OnceInv, NEW t \in Threads, Drops(t)
  PROVE  OnceInv'
<1> DEFINE x == th[t]
           y == th'[t]
<1>1. /\ Alone(t) /\ disk' \in {disk, Nil} /\ UNCHANGED <<age, seat, state, reAdmitted, tried>>
      /\ x.pc \in {"load", "gotp"}
  BY DEF Drops, upstreamVars, flightVars, cacheVars, ghostVars
<1>2. /\ OnceOK(x) /\ Ref(disk.inst) /\ Ref(NoInst) /\ Refreshes(x)
      /\ disk.status = "active" => age[disk.inst] # "queued"
  BY <1>1 DEF OnceInv, Ref, Refreshes, RefreshPoints
<1>3. Ref(x.inst) /\ state.status = "nil"
  BY <1>1, <1>2 DEF OnceOK, RecordInv
<1>4. CASE y.pc = "getp" /\ y.inst = disk.inst /\ disk.status = "active"
  <2>1. OnceOK(th[t])'
    BY <1>1, <1>2, <1>4 DEF OnceOK, Ref
  <2> QED
    BY <1>1, <1>3, <2>1, OnceStays
<1>5. CASE y.pc = "create" /\ y.inst \in {NoInst, x.inst}
  <2>1. OnceOK(th[t])'
    BY <1>1, <1>2, <1>3, <1>5, OnceThere
  <2> QED
    BY <1>1, <1>3, <2>1, OnceStays
<1>6. CASE /\ x.pc = "gotp" /\ y.pc = "answer" /\ y.inst = x.inst /\ y.reply = x.reply
           /\ x.reply # "queued"
  <2>1. OnceOK(th[t])'
    BY <1>1, <1>2, <1>3, <1>6 DEF OnceOK, Ref
  <2> QED
    BY <1>1, <1>3, <2>1, OnceStays
<1> QED
  BY <1>4, <1>5, <1>6 DEF Drops

LEMMA OnceWrites ==
  ASSUME SInv, RecordInv, OnceInv, NEW t \in Threads, Write(t)
  PROVE  OnceInv'
<1> DEFINE x == th[t]
<1>1. /\ x.pc = "write" /\ UNCHANGED <<age, seat, state, reAdmitted, tried>>
      /\ persist.row = state
  BY DEF Write, At, RecordInv, upstreamVars, flightVars, ghostVars
<1>2. x \in ThreadState /\ x.next \in CommitPoints \cup {"idle", "enddel"}
  BY <1>1, Known DEF ThreadOK, CallOK
<1>3. PICK s : s = [To(t, x.next) EXCEPT !.next = "idle"]
  OBVIOUS
<1>4. s.pc = x.next /\ s.inst = x.inst /\ th'[t] = s /\ Alone(t)
  BY <1>2, <1>3, GoesOn DEF Write, To, ThreadState
<1>5. /\ s.pc \notin {"write", "getp", "poll", "polled", "gotp", "answer", "getq"}
      /\ Refreshes(s) => Refreshes(x)
  BY <1>1, <1>2, <1>4 DEF CommitPoints, Refreshes, RefreshPoints
<1>6. Refreshes(th'[t]) => Ref(th'[t].inst)
  BY <1>4, <1>5 DEF OnceInv, OnceOK
<1>7. OnceOK(th[t])'
  BY <1>1, <1>4, <1>5, <1>6, OnceThere
<1>8. \/ disk' = disk
      \/ disk' = Nil /\ state.status = "nil"
      \/ disk' = IF state.inst = NoInst THEN Nil ELSE state
  BY <1>1 DEF Write, Without
<1> QED
  BY <1>1, <1>4, <1>7, <1>8, OnceStays

LEMMA OnceFlights ==
  ASSUME SInv, OnceInv, NEW t \in Threads, Leads(t) \/ FinishRefresh(t) \/ Delete(t)
  PROVE  OnceInv'
<1>1. CASE Leads(t)
  <2>1. /\ Alone(t) /\ disk' = disk /\ UNCHANGED <<age, seat, state, reAdmitted, tried>>
        /\ th'[t].pc = "short" /\ Ref(th'[t].inst)
    BY <1>1 DEF Leads, upstreamVars, cacheVars, ghostVars, Ref
  <2>2. OnceOK(th[t])'
    BY <2>1, OnceThere
  <2> QED
    BY <2>1, <2>2, OnceStays
<1>2. CASE FinishRefresh(t)
  <2>1. UNCHANGED <<age, seat, state, disk, reAdmitted, tried>>
    BY <1>2 DEF FinishRefresh, upstreamVars, cacheVars, ghostVars
  <2>2. \A u \in Threads : th'[u] = th[u] \/ th'[u].pc \in {"idle", "trust", "woken"}
    <3> TAKE u \in Threads
    <3>1. th[u] \in ThreadState
      BY Known
    <3>2. (\A p : To(u, p).pc = p) /\ Idle.pc = "idle"
      BY <3>1 DEF To, Idle, ThreadState
    <3> QED
      BY <1>2, <3>2 DEF FinishRefresh
  <2>3. \A u \in Threads : OnceOK(th[u])'
    <3> TAKE u \in Threads
    <3>1. CASE th'[u] = th[u]
      BY <2>1, <3>1 DEF OnceInv, OnceOK, Ref, Refreshes
    <3>2. CASE th'[u].pc \in {"idle", "trust", "woken"}
      <4>1. ~Refreshes(th'[u])
        BY <3>2 DEF Refreshes, RefreshPoints
      <4> QED
        BY <2>1, <3>2, <4>1, OnceThere
    <3> QED
      BY <2>2, <3>1, <3>2
  <2> QED
    BY <2>1, <2>3 DEF OnceInv, Ref
<1>3. CASE Delete(t)
  <2>1. /\ Alone(t) /\ disk' = disk /\ UNCHANGED <<age, state, reAdmitted, tried>>
        /\ seat' \in {seat, NoInst} /\ th'[t].inst \in {NoInst, th[t].inst}
        /\ \/ th[t].pc \in RefreshPoints /\ th'[t].pc \in {"deleted", "create", "loop"}
           \/ th'[t].pc = "idle"
    BY <1>3, DeleteShape DEF flightVars, cacheVars, ghostVars, RefreshPoints
  <2>2. Refreshes(th'[t]) => Ref(th'[t].inst)
    BY <2>1 DEF OnceInv, OnceOK, Ref, Refreshes, RefreshPoints
  <2>3. OnceOK(th[t])'
    BY <2>1, <2>2, OnceThere
  <2> QED
    BY <2>1, <2>3, OnceStays
<1> QED
  BY <1>1, <1>2, <1>3

\* Upstream creates or promotes instance j for the refresher: the others know of
\* no queued instance and of none that is created now.
LEMMA OnceUpstream ==
  ASSUME SInv, OnceInv, NEW t \in Threads, Refreshes(th[t]), Alone(t),
         UNCHANGED <<state, disk, reAdmitted, tried>>,
         NEW j \in InstRef, Ref(j), NEW a \in {"fresh", "queued"},
         age' = [age EXCEPT ![j] = a], seat' \in {seat, j},
         state.status \in {"active", "ended"} =>
           (state.inst # j \/ a = "fresh") /\ (seat' = seat \/ j >= state.inst),
         a = "queued" => disk.inst # j /\ \A u \in Threads : th[u].inst # j,
         OnceOK(th[t])'
  PROVE  OnceInv'
<1>1. age \in [InstRef -> {"queued", "fresh", "lead", "grace", "dead"}]
  BY DEF SInv, UpstreamOK
<1>2. \A i : age'[i] = "queued" /\ i \in InstRef => age[i] = "queued" \/ (i = j /\ a = "queued")
  BY <1>1
<1>3. state.inst \in InstRef /\ disk.inst \in InstRef /\ \A u \in Threads : th[u].inst \in InstRef
  BY Known DEF RowOK, Cached, ThreadState
<1>4. Ref(state.inst)' /\ Ref(disk.inst)' /\ Ref(seat)'
  BY DEF OnceInv, Ref
<1>5. (disk.status = "active" => age[disk.inst] # "queued")'
  BY <1>2, <1>3 DEF OnceInv
<1>6. (state.status \in {"active", "ended"} =>
         age[state.inst] # "queued" /\ (seat = NoInst \/ seat >= state.inst))'
  BY <1>2, <1>3 DEF OnceInv
<1>7. \A u \in Threads : OnceOK(th[u])'
  <2> SUFFICES ASSUME NEW u \in Threads \ {t} PROVE OnceOK(th[u])'
    OBVIOUS
  <2>1. OnceOK(th[u]) /\ th'[u] = th[u]
    BY DEF OnceInv, Alone
  <2>2. ~Refreshes(th[u])
    BY Points DEF SInv, SingleAdmission
  <2>3. th[u].pc \notin RefreshPoints
    BY <2>2 DEF Refreshes
  <2>4. age[th[u].inst] # "queued" => age'[th[u].inst] # "queued"
    BY <1>2, <1>3
  <2> QED
    BY <2>1, <2>2, <2>3, <2>4 DEF OnceOK, Refreshes, RefreshPoints
<1> QED
  BY <1>4, <1>5, <1>6, <1>7 DEF OnceInv

LEMMA OnceGets ==
  ASSUME SInv, OnceInv, NEW t \in Threads, Get(t)
  PROVE  OnceInv'
<1> DEFINE x == th[t]
           y == th'[t]
<1>1. /\ Alone(t) /\ disk' = disk /\ UNCHANGED <<state, reAdmitted, tried>>
      /\ \/ x.pc = "getp" /\ y.pc = "gotp"
         \/ x.pc = "getq" /\ y.pc = "answer"
         \/ x.pc = "poll" /\ y.pc = "polled"
      /\ y.inst = x.inst
  BY GetShape DEF flightVars, cacheVars, ghostVars
<1>2. /\ y.reply = "queued" => age[x.inst] = "queued"
      /\ y.reply \in {"active", "grace"} =>
           \/ age[x.inst] # "queued" /\ x.inst = seat
           \/ age'[x.inst] = "fresh" /\ seat' = x.inst
      /\ \/ age' = age /\ seat' = seat
         \/ seat = NoInst /\ seat' = x.inst /\ y.reply = "active"
            /\ age[x.inst] = "queued" /\ age' = [age EXCEPT ![x.inst] = "fresh"]
  BY GetShape
<1>3. OnceOK(x) /\ (x.pc \in {"getp", "getq"} => Refreshes(x)) /\ x.inst \in InstRef /\ x.inst \in Nat
  BY Known DEF OnceInv, Refreshes, RefreshPoints, ThreadOK, ThreadState
<1>4. y.pc \in RefreshPoints \cup {"polled"} /\ (y.pc # "polled" => Ref(x.inst))
  BY <1>1, <1>3 DEF OnceOK, RefreshPoints
<1>5. CASE age' = age /\ seat' = seat
  <2>1. y.reply \in {"active", "grace"} => age'[x.inst] # "queued" /\ seat' = x.inst
    BY <1>2, <1>5
  <2>2. OnceOK(th[t])'
    BY <1>1, <1>2, <1>3, <1>4, <1>5, <2>1 DEF OnceOK, Refreshes, RefreshPoints, Ref
  <2> QED
    BY <1>1, <1>5, <2>2, OnceStays
<1>6. CASE /\ seat = NoInst /\ seat' = x.inst /\ y.reply = "active"
           /\ age[x.inst] = "queued" /\ age' = [age EXCEPT ![x.inst] = "fresh"]
  <2>1. x.pc = "getq" /\ y.pc = "answer" /\ state.status \in {"nil", "queued"} /\ Ref(x.inst)
    BY <1>1, <1>3, <1>4, <1>6 DEF OnceOK
  <2>2. age'[x.inst] = "fresh"
    BY <1>3, <1>6 DEF SInv, UpstreamOK
  <2>3. OnceOK(th[t])'
    BY <1>1, <1>3, <1>6, <2>1, <2>2 DEF OnceOK, Ref
  <2>4. Refreshes(x)
    BY <1>3, <2>1
  <2> QED
    BY <1>1, <1>3, <1>6, <2>1, <2>3, <2>4, OnceUpstream
<1> QED
  BY <1>2, <1>5, <1>6

LEMMA OncePosts ==
  ASSUME SInv, OnceInv, NEW t \in Threads, Post(t)
  PROVE  OnceInv'
<1> DEFINE y == th'[t]
           n == ninst + 1
<1>1. /\ Alone(t) /\ disk' = disk /\ UNCHANGED <<state, reAdmitted, tried>>
      /\ th[t].pc = "create" /\ y.pc = "answer"
  BY PostShape DEF flightVars, cacheVars, ghostVars
<1>2. Refreshes(th[t])
  BY <1>1 DEF Refreshes, RefreshPoints
<1>3. /\ ninst \in Nat /\ reAdmitted \in 0..ninst /\ state.inst \in 0..ninst /\ disk.inst \in 0..ninst
      /\ seat \in 0..ninst /\ \A u \in Threads : th[u].inst \in 0..ninst
  BY Known DEF SInv, FlightOK, UpstreamOK, RowOK, ThreadOK
<1>4. Ref(n) /\ Ref(NoInst) /\ Ref(seat) /\ n # NoInst /\ n >= state.inst /\ state.inst # n
      /\ disk.inst # n /\ (\A u \in Threads : th[u].inst # n) /\ n \in Nat /\ n >= seat
  BY <1>3 DEF OnceInv, Ref, NoInst
<1>5. ASSUME n \in Insts PROVE n \in InstRef /\ \A a : [age EXCEPT ![n] = a][n] = a
  BY <1>5 DEF SInv, UpstreamOK, InstRef
<1>6. CASE /\ n \in Insts /\ seat' = n /\ age' = [age EXCEPT ![n] = "fresh"]
           /\ y.inst \in {NoInst, n} /\ y.reply # "queued" /\ (y.reply = "active" => y.inst = n)
           /\ y.reply # "grace"
  <2>0. age'[n] = "fresh" /\ Ref(y.inst)
    BY <1>4, <1>5, <1>6
  <2>1. OnceOK(th[t])'
    <3>1. y.reply = "active" => age'[y.inst] # "queued" /\ seat' >= y.inst
      BY <1>4, <1>6, <2>0
    <3> QED
      BY <1>1, <1>6, <2>0, <3>1 DEF OnceOK, Ref
  <2> QED
    BY <1>1, <1>2, <1>4, <1>5, <1>6, <2>1, OnceUpstream
<1>7. CASE /\ n \in Insts /\ seat' = seat /\ age' = [age EXCEPT ![n] = "queued"]
           /\ y.inst = n /\ y.reply = "queued"
  <2>1. OnceOK(th[t])'
    BY <1>1, <1>4, <1>5, <1>7 DEF OnceOK, Ref
  <2> QED
    BY <1>1, <1>2, <1>4, <1>5, <1>7, <2>1, OnceUpstream
<1>8. CASE /\ age' = age /\ seat' = seat /\ y.inst \in {NoInst, seat}
           /\ y.reply \notin {"active", "queued"}
           /\ y.reply = "grace" => y.inst = seat /\ age[seat] = "grace"
  <2>1. OnceOK(th[t])'
    BY <1>1, <1>3, <1>4, <1>8 DEF OnceOK, Ref
  <2> QED
    BY <1>1, <1>8, <2>1, OnceStays
<1> QED
  BY <1>6, <1>7, <1>8, PostShape

LEMMA OnceStores ==
  ASSUME SInv, RecordInv, OnceInv, NEW t \in Threads, Stores(t)
  PROVE  OnceInv'
<1> DEFINE x == th[t]
           y == th'[t]
           p == IF HasStore THEN y.next ELSE y.pc
<1>1. /\ Alone(t) /\ disk' = disk /\ UNCHANGED <<age, seat, reAdmitted, tried>>
      /\ HasStore => ~persist.held /\ y.pc = "write"
      /\ ~HasStore => y.pc = p
  BY DEF Stores, upstreamVars, ghostVars
<1>2. /\ OnceOK(x) /\ Ref(state.inst) /\ Ref(NoInst) /\ Nil.inst = NoInst /\ Disabled.inst = NoInst
      /\ Nil.status = "nil" /\ Disabled.status = "disabled"
      /\ state.status \in {"active", "ended"} =>
           age[state.inst] # "queued" /\ (seat = NoInst \/ seat >= state.inst)
  BY DEF OnceInv, Ref, Nil, Disabled
<1>3. RowOK(state) /\ \A u \in Threads : CallOK(u, th[u])
  BY Known DEF ThreadOK
<1>4. /\ state'.status \in {"active", "ended"} =>
           age[state'.inst] # "queued" /\ (seat = NoInst \/ seat >= state'.inst)
      /\ Ref(state'.inst)
  <2>1. x.pc = "answer" => Ref(x.inst)
    BY <1>2 DEF OnceOK, Refreshes, RefreshPoints
  <2>2. x.pc = "polled" /\ x.inst = state.inst => state.status \in {"active", "ended"}
    BY <1>2 DEF OnceOK
  <2> QED
    BY <1>2, <2>1, <2>2 DEF Stores, OnceOK
<1>5. ASSUME NEW u \in Threads, u # t PROVE OnceOK(th[u])'
  <2> DEFINE z == th[u]
  <2>1. OnceOK(z) /\ th'[u] = z /\ CallOK(u, z)
    BY <1>1, <1>3, <1>5 DEF OnceInv, Alone
  <2>2. z.pc # "write"
    BY <1>1, <1>5, <2>1 DEF RecordInv, At, CallOK, Stores
  <2>3. z.pc = "getq" => state'.status \in {"nil", "queued"}
    <3>1. SUFFICES ASSUME z.pc = "getq" PROVE state'.status \in {"nil", "queued"}
      OBVIOUS
    <3>2. x.pc \notin RefreshPoints
      BY <1>5, <3>1, Points DEF SInv, SingleAdmission, Refreshes, RefreshPoints
    <3>3. state.status \in {"nil", "queued"}
      BY <2>1, <3>1 DEF OnceOK
    <3> QED
      BY <1>2, <3>2, <3>3 DEF Stores, RefreshPoints, OnceOK
  <2>4. z.pc \in {"poll", "polled"} /\ z.inst = state'.inst => state'.status \in {"active", "ended"}
    <3>1. SUFFICES ASSUME z.pc \in {"poll", "polled"}, z.inst = state'.inst
                   PROVE  state'.status \in {"active", "ended"}
      OBVIOUS
    <3>2. z.inst # NoInst /\ age[z.inst] # "queued"
      BY <2>1, <3>1 DEF CallOK, OnceOK
    <3>3. state'.status = "queued" /\ state' # state => age[state'.inst] = "queued"
      BY <1>2 DEF Stores, OnceOK
    <3>4. state' = state => state'.status \in {"active", "ended"}
      BY <2>1, <3>1 DEF OnceOK
    <3>5. state' \notin {Nil, Disabled}
      BY <1>2, <3>1, <3>2
    <3> QED
      BY <3>1, <3>2, <3>3, <3>4, <3>5 DEF Stores
  <2> QED
    BY <1>1, <2>1, <2>2, <2>3, <2>4 DEF OnceOK, Ref, Refreshes
<1>6. OnceOK(th[t])'
  <2>1. CASE x.pc \in {"short", "deleted", "answer"} /\ p \in CommitPoints /\ y.inst \in {NoInst, x.inst}
    <3>1. Ref(y.inst)
      BY <1>2, <2>1 DEF OnceOK, Refreshes, RefreshPoints
    <3> QED
      BY <1>1, <2>1, <3>1 DEF OnceOK, Ref, CommitPoints
  <2>2. CASE /\ p \in {"idle", "enddel"}
             /\ \/ state' \in {Nil, state}
                \/ x.pc = "polled" /\ state'.inst = x.inst /\ x.inst = state.inst
    <3>1. ~Refreshes(y)
      BY <1>1, <2>2 DEF Refreshes, RefreshPoints, CommitPoints
    <3>2. y.pc = "write" => state'.status = "nil" \/ disk.inst = state'.inst
      <4>1. SUFFICES ASSUME y.pc = "write", state'.status # "nil" PROVE disk.inst = state'.inst
        OBVIOUS
      <4>2. HasStore /\ ~persist.held
        BY <1>1, <2>2, <4>1
      <4>3. state'.inst = state.inst /\ state.status # "nil"
        <5>1. CASE state' = state
          BY <4>1, <5>1
        <5>2. CASE x.pc = "polled" /\ state'.inst = x.inst /\ x.inst = state.inst
          BY <1>2, <5>2 DEF OnceOK
        <5> QED
          BY <1>2, <2>2, <4>1, <5>1, <5>2
      <4> QED
        BY <1>2, <4>2, <4>3 DEF RecordInv, RecordTracksSession
    <3> QED
      BY <1>1, <2>2, <3>1, <3>2 DEF OnceOK, Refreshes, RefreshPoints
  <2> QED
    BY <2>1, <2>2 DEF Stores
<1>7. (disk.status = "active" => age[disk.inst] # "queued")' /\ Ref(disk.inst)' /\ Ref(seat)'
  BY <1>1 DEF OnceInv, Ref
<1> QED
  BY <1>1, <1>4, <1>5, <1>6, <1>7 DEF OnceInv, Ref

\* A re-admit begins for the cached session, which none was made for: everything
\* that is left - the entry, the seat, the refreshers - is of it or newer.
LEMMA OnceTriggers ==
  ASSUME SInv, RecordInv, OnceInv, NEW t \in Clients \cup Keepers, EnsureTrigger(t)
  PROVE  OnceInv'
<1> DEFINE j == state.inst
           a == Refreshing(Calling(th[t].model, "none"))
<1>1. /\ t \in Threads /\ t # Async /\ Async \in Threads /\ ~refreshing
      /\ reAdmitted # j /\ ReAdmitDue(state) /\ Usable(state)
  BY SessionAssumption DEF EnsureTrigger, FastPath, Ensuring, Trigger, Threads
<1>2. /\ UNCHANGED <<age, seat, state, disk, persist>>
      /\ reAdmitted' = j /\ tried' = [tried EXCEPT ![j] = @ + 1]
  BY DEF EnsureTrigger, upstreamVars, cacheVars
<1>3. /\ state.status \in {"active", "ended"} /\ RowOK(state)
      /\ reAdmitted \in Nat /\ j \in Insts /\ tried \in [Insts -> Nat]
  BY <1>1, Known, SessionAssumption DEF Usable, RowOK, SInv, UpstreamOK, FlightOK, GhostOK, Insts, NoInst
<1>4. j > reAdmitted /\ tried[j] = 0
  <2>1. j >= reAdmitted /\ j # reAdmitted /\ j \in Nat
    BY <1>1, <1>3 DEF OnceInv, Ref, RowOK, Insts, NoInst
  <2>2. tried[j] <= 1 /\ tried[j] # 1 /\ tried[j] \in Nat
    BY <1>3, <2>1 DEF OnceInv
  <2> QED
    BY <1>3, <2>1, <2>2
<1>5. \A i \in Insts : tried'[i] <= 1 /\ (tried'[i] = 1 => i <= reAdmitted')
  BY <1>2, <1>3, <1>4 DEF OnceInv, Insts
<1>6. \A u \in Threads : ~Refreshes(th[u])
  BY <1>1, Points DEF SInv, SingleAdmission
<1>7. disk.inst \in {NoInst, j}
  <2>1. CASE ~HasStore
    BY <2>1 DEF RecordInv, Nil
  <2>2. CASE HasStore /\ ~persist.held
    BY <1>3, <2>2 DEF RecordInv, RecordTracksSession, Nil
  <2>3. CASE HasStore /\ persist.held
    <3>1. PICK u \in Threads : th[u].pc = "write"
      BY <2>3 DEF RecordInv, At
    <3>2. th[u].next \notin CommitPoints
      BY <1>6, <3>1 DEF Refreshes
    <3> QED
      BY <1>3, <3>1, <3>2 DEF OnceInv, OnceOK
  <2> QED
    BY <2>1, <2>2, <2>3
<1>8. Ref(state.inst)' /\ Ref(disk.inst)' /\ Ref(seat)'
  BY <1>2, <1>3, <1>7 DEF OnceInv, Ref, Insts
<1>9. \A u \in Threads : th'[u] = IF u = Async THEN a ELSE IF u = t THEN Again(th[t]) ELSE th[u]
  BY <1>1 DEF EnsureTrigger, SInv, ThreadsOK
<1>10. a.pc = "short" /\ a.inst = NoInst /\ Again(th[t]).pc = "ensure"
  BY DEF Again, Refreshing, Calling, Idle
<1>11. \A u \in Threads : OnceOK(th[u])'
  <2> TAKE u \in Threads
  <2>1. CASE u = Async
    BY <1>9, <1>10, <2>1 DEF OnceOK, Ref
  <2>2. CASE u = t
    BY <1>1, <1>9, <1>10, <2>2 DEF OnceOK, Refreshes, RefreshPoints
  <2>3. CASE u \notin {t, Async}
    <3>1. OnceOK(th[u]) /\ th'[u] = th[u] /\ ~Refreshes(th[u])
      BY <1>6, <1>9, <2>3 DEF OnceInv
    <3> QED
      BY <1>2, <3>1 DEF OnceOK, Refreshes
  <2> QED
    BY <2>1, <2>2, <2>3
<1> QED
  BY <1>2, <1>5, <1>8, <1>11 DEF OnceInv

LEMMA OnceRests ==
  ASSUME SInv, OnceInv, InstanceAges \/ UnavailableExpires \/ UNCHANGED vars \/ Restart
  PROVE  OnceInv'
<1>1. CASE InstanceAges
  <2>1. age \in [InstRef -> {"queued", "fresh", "lead", "grace", "dead"}]
    BY DEF SInv, UpstreamOK
  <2>2. PICK i : age[i] # "queued" /\ age' = [age EXCEPT ![i] = Older(@)]
    BY <1>1 DEF InstanceAges
  <2>3. Older(age[i]) # "queued"
    BY DEF Older
  <2>4. \A k \in InstRef : age'[k] = "queued" <=> age[k] = "queued"
    BY <2>1, <2>2, <2>3
  <2>5. state.inst \in InstRef /\ disk.inst \in InstRef /\ \A u \in Threads : th[u].inst \in InstRef
    BY Known DEF SInv, RowsOK, RowOK, Cached, ThreadState
  <2>6. UNCHANGED <<seat, state, disk, reAdmitted, tried, th>>
    BY <1>1 DEF InstanceAges, flightVars, cacheVars, ghostVars
  <2>7. \A u \in Threads : OnceOK(th[u])'
    BY <2>4, <2>5, <2>6 DEF OnceInv, OnceOK, Ref, Refreshes
  <2> QED
    BY <2>4, <2>5, <2>6, <2>7 DEF OnceInv, Ref
<1>2. CASE UnavailableExpires \/ UNCHANGED vars
  <2>1. UNCHANGED <<age, seat, state, disk, reAdmitted, tried, th>>
    BY <1>2 DEF UnavailableExpires, vars, upstreamVars, flightVars, cacheVars, ghostVars
  <2> QED
    BY <2>1 DEF OnceInv, OnceOK, Ref, Refreshes
<1>3. CASE Restart
  <2>1. /\ UNCHANGED <<age, seat, disk>> /\ reAdmitted' = NoInst /\ state' = Nil
        /\ tried' = [i \in Insts |-> 0] /\ \A u \in Threads : th'[u] = Idle
    BY <1>3 DEF Restart, upstreamVars
  <2>2. seat \in Nat /\ disk.inst \in Nat
    BY SessionAssumption DEF SInv, UpstreamOK, RowsOK, RowOK
  <2>3. \A u \in Threads : OnceOK(th[u])'
    BY <2>1 DEF OnceOK, Refreshes, RefreshPoints, Idle
  <2>4. Ref(state.inst)' /\ Ref(disk.inst)' /\ Ref(seat)'
    BY <2>1, <2>2 DEF Ref, Nil, NoInst
  <2> QED
    BY <2>1, <2>3, <2>4 DEF OnceInv, Nil
<1> QED
  BY <1>1, <1>2, <1>3

\* A pre-emptive re-admit that failed is not repeated: the instance it was for is
\* remembered until the next one, and no older instance comes back.
THEOREM ReAdmittedOnce == Spec => []OncePerExpiry
<1>1. Init => RecordInv
  BY DEF Init, RecordInv, RecordTracksSession, At, Idle, Nil, NoWrite
<1>2. Init => OnceInv
  BY DEF Init, OnceInv, OnceOK, Ref, Refreshes, RefreshPoints, Idle, Nil
<1>3. SInv /\ RecordInv /\ [Next]_vars => RecordInv'
  BY RecordHolds
<1>4. SInv /\ RecordInv /\ OnceInv /\ [Next]_vars => OnceInv'
  BY Shapes, OnceWalks, OnceDrops, OnceStores, OnceFlights, OnceGets, OncePosts,
     OnceWrites, OnceTriggers, OnceRests DEF Shape
<1>5. OnceInv => OncePerExpiry
  BY DEF OnceInv, OncePerExpiry
<1> QED
  BY <1>1, <1>2, <1>3, <1>4, <1>5, SessionKept, PTL DEF Spec
=============================================================================
