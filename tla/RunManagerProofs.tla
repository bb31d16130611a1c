------------------------- MODULE RunManagerProofs -------------------------
(***************************************************************************)
(* Theorems about RunManager, for every set of goroutines and agents and   *)
(* every value of the bounds: types first, then the leases.                *)
(*                                                                         *)
(* LeaseInv is the inductive invariant behind the lease accounting and     *)
(* behind "no FINISH under a lease".  The second needs to know that a run  *)
(* that is being finished is current for no agent (a request leases        *)
(* current runs only), which in turn rests on finishIfReadyCtx looking the *)
(* run up under its own agent (AgentsOwn).                                 *)
(*                                                                         *)
(* RunsInv, on top of them, is behind the rest: rotate is single-flight,   *)
(* what upstream hears of a run is exact, and no run is lost.  Its parts   *)
(* say where a goroutine can be in which call (Controlled), that a flight  *)
(* has one leader (FlightInv), who may FINISH a run and that one that was  *)
(* acknowledged stays claimed for as long as anything refers to it         *)
(* (FinishInv), and who takes care of a run that has left the active map   *)
(* (LostInv).                                                              *)
(***************************************************************************)
EXTENDS RunManager, FiniteSetTheorems, TLAPS

---------------------------------------------------------------------------
(* Control states.                                                         *)

\* A goroutine that is idle, or the worker before its first job, is well formed.
LEMMA IdleOK ==
  ASSUME NEW n \in Nat
  PROVE  ThreadOK(n, IdleThread) /\ ThreadOK(n, OffWorker)
  BY DEF ThreadOK, ThreadState, IdleThread, OffWorker, Call, PCs, Ops, RunRef, NoRun

\* Returning from rotate or from a FINISH attempt keeps it well formed.
LEMMA DoneOK ==
  ASSUME NEW n \in Nat, NEW s, ThreadOK(n, s)
  PROVE  ThreadOK(n, Done(s)) /\ ThreadOK(n, Failed(s))
<1>1. ThreadOK(n, IdleThread) /\ ThreadOK(n, OffWorker)
  BY IdleOK
<1>2. CASE s.op = "acquire"
  <2>1. Done(s) = [s EXCEPT !.pc = "lease", !.held = NoRun, !.fresh = NoRun]
    BY <1>2 DEF Done
  <2>2. Failed(s) = IdleThread
    BY <1>2 DEF Failed
  <2>3. ThreadOK(n, Done(s))
    BY <1>2, <2>1 DEF ThreadOK, ThreadState, PCs, RunRef, NoRun
  <2> QED
    BY <1>1, <2>2, <2>3
<1>3. CASE s.op = "worker"
  <2>1. Done(s) = Call("loop", "worker", NoAgent)
    BY <1>3 DEF Done
  <2>2. Failed(s) = IdleThread
    BY <1>3 DEF Failed
  <2>3. ThreadOK(n, Done(s))
    BY <2>1 DEF ThreadOK, ThreadState, Call, PCs, Ops, RunRef, NoRun
  <2> QED
    BY <1>1, <2>2, <2>3
<1>4. CASE s.op \in {"maintain", "finishall", "shutdown"}
  <2>1. Done(s) = [s EXCEPT !.pc = "next", !.agent = NoAgent, !.held = NoRun,
                            !.fresh = NoRun]
    BY <1>4 DEF Done
  <2>2. Failed(s) \in {Done(s), IdleThread}
    BY DEF Failed
  <2>3. ThreadOK(n, Done(s))
    BY <1>4, <2>1 DEF ThreadOK, ThreadState, PCs, RunRef, NoRun
  <2> QED
    BY <1>1, <2>2, <2>3
<1>5. CASE s.op \notin {"acquire", "worker", "maintain", "finishall", "shutdown"}
  BY <1>1, <1>5 DEF Done, Failed
<1> QED
  BY <1>2, <1>3, <1>4, <1>5

\* Run objects are never deleted, so a control state stays well formed.
LEMMA ThreadMono ==
  ASSUME NEW n \in Nat, NEW m \in Nat, n <= m, NEW s, ThreadOK(n, s)
  PROVE  ThreadOK(m, s)
  BY DEF ThreadOK

\* The number of Run objects is a natural number within the bound.
LEMMA NrunNat == TypeOK => nrun \in Nat /\ nrun <= MaxRuns /\ MaxRuns \in Nat
<1>1. MaxRuns \in Nat
  BY ConstantsAssumption DEF ConstantsAssumption
<1>2. TypeOK => nrun \in 0..MaxRuns
  BY DEF TypeOK, RunsOK, ThreadsOK
<1> QED
  BY <1>1, <1>2

\* One goroutine moves on.
LEMMA GotoOK ==
  ASSUME TypeOK, nrun' \in Nat, nrun <= nrun',
         NEW t \in Threads, NEW s, ThreadOK(nrun', s), Goto(t, s)
  PROVE  ThreadsOK'
<1>1. ASSUME NEW q \in Threads PROVE ThreadOK(nrun', th[q])
  <2>1. nrun \in Nat
    BY NrunNat
  <2>2. ThreadOK(nrun, th[q])
    BY DEF TypeOK, RunsOK, ThreadsOK
  <2> QED
    BY <2>1, <2>2, ThreadMono
<1> QED
  BY <1>1 DEF Goto, TypeOK, ThreadsOK, ThreadOK
---------------------------------------------------------------------------
(* Type correctness.                                                       *)

\* The initial state is well typed.
LEMMA TypeInit == Init => TypeOK
<1> SUFFICES ASSUME Init PROVE TypeOK
  OBVIOUS
<1>1. nrun = 0
  BY DEF Init
<1>2. nrun \in 0..MaxRuns /\ 0 \in 0..MaxCrashes /\ Created = {}
  BY <1>1, ConstantsAssumption DEF ConstantsAssumption, Created
<1>3. \A t \in Threads : ThreadOK(nrun, th[t])
  <2>1. 0 \in Nat
    OBVIOUS
  <2> QED
    BY <1>1, <2>1, IdleOK DEF Init
<1>4. th \in [Threads -> ThreadState]
  BY <1>3 DEF Init, ThreadOK
<1>5. queue \in Seq(Created)
  <2>1. queue = <<>>
    BY DEF Init
  <2> QED
    BY <2>1
<1>6. /\ agentOf \in [Runs -> Agents \cup {NoAgent}]
      /\ ridOf \in [Runs -> Runs]
      /\ inflight \in [Runs -> Nat]
  BY DEF Init
<1>9. status \in [Runs -> {"", "cancelled", "failed"}]
  BY DEF Init
<1>10. reported \in [Runs -> {"", "completed", "cancelled", "failed"}]
  BY DEF Init
<1>7. /\ current \in [Agents -> Created \cup {NoRun}]
      /\ store \in [Agents -> Created \cup {NoRun}]
      /\ lease \in [Clients -> Created \cup {NoRun}]
  BY DEF Init
<1>8. /\ finishing = {} /\ queued = {} /\ flight = {} /\ draining = {}
      /\ shuttingDown \in BOOLEAN /\ aged = {} /\ gone = {} /\ crashes = 0
  BY DEF Init
<1> QED
  BY <1>2, <1>3, <1>4, <1>5, <1>6, <1>7, <1>8, <1>9, <1>10 DEF TypeOK, RunsOK, ManagerOK, ThreadsOK

\* A step that only moves a goroutine on.
LEMMA OnlyThread ==
  ASSUME TypeOK, UNCHANGED <<nrun, managerVars, lease, outsideVars, ghostVars>>,
         NEW t \in Threads, NEW s, ThreadOK(nrun, s), Goto(t, s)
  PROVE  TypeOK'
<1>1. nrun \in Nat /\ nrun' = nrun /\ nrun <= nrun
  BY NrunNat
<1>2. ThreadsOK'
  BY <1>1, GotoOK
<1>3. RunsOK' /\ ManagerOK'
  BY DEF TypeOK, RunsOK, ManagerOK, Created, managerVars, outsideVars, ghostVars
<1> QED
  BY <1>2, <1>3 DEF TypeOK

\* The lease counters stay natural numbers.
LEMMA CountOK ==
  ASSUME NEW f \in [Runs -> Nat], NEW r \in Runs
  PROVE  /\ [f EXCEPT ![r] = @ + 1] \in [Runs -> Nat]
         /\ [f EXCEPT ![r] = IF @ > 0 THEN @ - 1 ELSE @] \in [Runs -> Nat]
  OBVIOUS

\* A goroutine that goes on to enqueue the FINISH of a Run.
LEMMA ReleaseOK ==
  ASSUME NEW n \in Nat, n <= MaxRuns, MaxRuns \in Nat, NEW r \in 1..n
  PROVE  ThreadOK(n, [Call("enqueue", "release", NoAgent) EXCEPT !.held = r])
<1>1. r \in RunRef /\ r # NoRun /\ NoRun \in RunRef
  BY DEF RunRef, Runs, NoRun
<1>2. [Call("enqueue", "release", NoAgent) EXCEPT !.held = r]
        = [pc |-> "enqueue", op |-> "release", agent |-> NoAgent, held |-> r,
           fresh |-> NoRun, jobs |-> {}, saves |-> {}, rot |-> {}]
  BY DEF Call, IdleThread
<1> QED
  BY <1>1, <1>2 DEF ThreadOK, ThreadState, PCs, Ops

\* The draining list and what it lets go are created Runs.
LEMMA AppendOK ==
  ASSUME TypeOK, NEW r \in Created \cup {NoRun}, AppendDraining(r)
  PROVE  draining' \subseteq Created /\ gone' \subseteq Created
  BY DEF AppendDraining, Pruned, TypeOK, ManagerOK

\* Every goroutine is well formed whatever Runs are added, and stays so when a
\* flight it waits on closes.
LEMMA AllThreads ==
  ASSUME TypeOK, NEW n \in Nat, nrun <= n, NEW q \in Threads
  PROVE  /\ ThreadOK(n, th[q]) /\ ThreadOK(n, Done(th[q]))
         /\ ThreadOK(n, Failed(th[q]))
         /\ th[q].pc = "wait" => ThreadOK(n, [th[q] EXCEPT !.pc = "rotate"])
<1>1. nrun \in Nat /\ ThreadOK(nrun, th[q])
  BY NrunNat DEF TypeOK, ThreadsOK
<1>2. ThreadOK(n, th[q])
  BY <1>1, ThreadMono
<1>3. ThreadOK(n, Done(th[q])) /\ ThreadOK(n, Failed(th[q]))
  BY <1>2, DoneOK
<1>4. th[q].pc = "wait" => ThreadOK(n, [th[q] EXCEPT !.pc = "rotate"])
  BY <1>2 DEF ThreadOK, ThreadState, PCs
<1> QED
  BY <1>2, <1>3, <1>4

\* rotate's leader goes on to retire the run it replaced.
LEMMA RetireOK ==
  ASSUME NEW n \in Nat, NEW s, ThreadOK(n, s), NEW r \in (1..n) \cup {NoRun},
         r # NoRun => r \in Runs
  PROVE  ThreadOK(n, Retire(s, r))
<1>1. CASE r = NoRun
  BY <1>1, DoneOK DEF Retire
<1>2. CASE r # NoRun
  <2>1. Retire(s, r) = [s EXCEPT !.pc = "enqueue", !.held = r, !.fresh = NoRun]
    BY <1>2 DEF Retire
  <2>2. r \in RunRef /\ NoRun \in RunRef
    BY <1>2 DEF RunRef
  <2>3. ThreadOK(n, [s EXCEPT !.pc = "enqueue", !.held = r, !.fresh = NoRun])
    BY <1>2, <2>2 DEF ThreadOK, ThreadState, PCs, Ops, NoRun
  <2> QED
    BY <2>1, <2>3
<1> QED
  BY <1>1, <1>2

\* A request's own steps are well typed.
LEMMA TypeRequest ==
  ASSUME TypeOK, NEW t \in Clients, Request(t)
  PROVE  TypeOK'
<1>1. /\ t \in Threads /\ nrun \in Nat /\ ThreadOK(nrun, th[t])
      /\ Created = 1..nrun /\ Created \subseteq Runs
  BY NrunNat DEF TypeOK, ThreadsOK, Threads, Procs, Created, Runs
<1>2. /\ ThreadOK(nrun, IdleThread) /\ ThreadOK(nrun, OffWorker)
      /\ ThreadOK(nrun, Done(th[t])) /\ ThreadOK(nrun, Failed(th[t]))
  BY <1>1, IdleOK, DoneOK
<1>3. CASE \E a \in Agents : CallAcquire(t, a)
  <2>1. PICK a \in Agents : CallAcquire(t, a)
    BY <1>3
  <2>2. a # NoAgent
    BY ConstantsAssumption DEF ConstantsAssumption
  <2>3. ThreadOK(nrun, Call("acquire", "acquire", a))
    BY <1>1, <2>2 DEF Call, ThreadOK, ThreadState, PCs, Ops, RunRef, NoRun
  <2> QED
    BY <1>1, <2>1, <2>3, OnlyThread DEF CallAcquire
<1>4. CASE AcquireCheck(t)
  <2>1. /\ ThreadOK(nrun, [th[t] EXCEPT !.pc = "rotate"])
        /\ ThreadOK(nrun, [th[t] EXCEPT !.pc = "lease"])
    BY <1>1, <1>2, <1>4 DEF AcquireCheck, At, Call, ThreadOK, ThreadState, PCs, Ops, RunRef, NoRun
  <2>2. \E s : ThreadOK(nrun, s) /\ Goto(t, s)
    BY <1>2, <2>1, <1>4 DEF AcquireCheck
  <2> QED
    BY <1>1, <2>2, <1>4, OnlyThread DEF AcquireCheck
<1>5. CASE LeaseRun(t)
  <2>0. th[t].agent \in Agents /\ current[th[t].agent] \in Created \cup {NoRun}
    BY <1>1, <1>5 DEF LeaseRun, At, TypeOK, ManagerOK, ThreadOK, ThreadState
  <2>8. inflight' \in [Runs -> Nat]
    <3>1. inflight \in [Runs -> Nat]
      BY DEF TypeOK, RunsOK
    <3>2. CASE current[th[t].agent] = NoRun
      BY <3>1, <3>2, <1>5 DEF LeaseRun
    <3>3. CASE current[th[t].agent] # NoRun
      <4>1. current[th[t].agent] \in Runs
        BY <1>1, <2>0, <3>3
      <4>2. inflight' = [inflight EXCEPT ![current[th[t].agent]] = @ + 1]
        BY <3>3, <1>5 DEF LeaseRun
      <4> QED
        BY <3>1, <4>1, <4>2, CountOK
    <3> QED
      BY <3>2, <3>3
  <2>1. /\ ThreadOK(nrun, [th[t] EXCEPT !.pc = "acquire"])
    BY <1>1, <1>2, <1>5, <2>0 DEF LeaseRun, At, Call, ThreadOK, ThreadState, PCs, Ops, RunRef, NoRun
  <2>2. nrun' = nrun /\ nrun <= nrun
    BY <1>1, <1>5 DEF LeaseRun
  <2>3. \E s : ThreadOK(nrun, s) /\ Goto(t, s)
    BY <1>2, <2>1, <1>5 DEF LeaseRun
  <2>4. ThreadsOK'
    BY <1>1, <2>2, <2>3, GotoOK
  <2>5. RunsOK'
    BY <1>1, <2>2, <1>5, <2>0, <2>8 DEF LeaseRun, At, TypeOK, RunsOK, ManagerOK, Created, managerVars, outsideVars, ghostVars
  <2>6. ManagerOK'
    BY <1>1, <2>2, <1>5, <2>0 DEF LeaseRun, At, TypeOK, RunsOK, ManagerOK, Created, managerVars, outsideVars, ghostVars
  <2> QED
    BY <2>4, <2>5, <2>6 DEF TypeOK
<1>6. CASE Release(t)
  <2>0. lease[t] \in Created
    BY <1>6 DEF Release, ReturnLease, TypeOK, ManagerOK, NoRun
  <2>8. inflight' \in [Runs -> Nat]
    <3>1. lease[t] \in Runs /\ inflight \in [Runs -> Nat]
      BY <1>1, <2>0 DEF TypeOK, RunsOK
    <3>2. inflight' = [inflight EXCEPT ![lease[t]] = IF @ > 0 THEN @ - 1 ELSE @]
      BY <1>6 DEF Release, ReturnLease
    <3> QED
      BY <3>1, <3>2, CountOK
  <2>1. /\ ThreadOK(nrun, [Call("enqueue", "release", NoAgent) EXCEPT !.held = lease[t]])
    BY <1>1, <1>2, <1>6, <2>0, NrunNat, ReleaseOK
  <2>2. nrun' = nrun /\ nrun <= nrun
    BY <1>1, <1>6 DEF Release
  <2>3. th' = th \/ Goto(t, [Call("enqueue", "release", NoAgent) EXCEPT !.held = lease[t]])
    BY <1>6 DEF Release
  <2>4. ThreadsOK'
    BY <1>1, <2>1, <2>2, <2>3, GotoOK DEF TypeOK, ThreadsOK
  <2>5. RunsOK'
    BY <1>1, <2>2, <1>6, <2>0, <2>8 DEF Release, At, TypeOK, RunsOK, ManagerOK, Created, managerVars, outsideVars, ghostVars, ReturnLease, DropCurrent
  <2>6. ManagerOK'
    BY <1>1, <2>2, <1>6, <2>0 DEF Release, At, TypeOK, RunsOK, ManagerOK, Created, managerVars, outsideVars, ghostVars, ReturnLease, DropCurrent
  <2> QED
    BY <2>4, <2>5, <2>6 DEF TypeOK
<1>7. CASE ReleaseAbandoned(t)
  <2>0. lease[t] \in Created
    BY <1>7 DEF ReleaseAbandoned, ReturnLease, TypeOK, ManagerOK, NoRun
  <2>8. inflight' \in [Runs -> Nat]
    <3>1. lease[t] \in Runs /\ inflight \in [Runs -> Nat]
      BY <1>1, <2>0 DEF TypeOK, RunsOK
    <3>2. inflight' = [inflight EXCEPT ![lease[t]] = IF @ > 0 THEN @ - 1 ELSE @]
      BY <1>7 DEF ReleaseAbandoned, ReturnLease
    <3> QED
      BY <3>1, <3>2, CountOK
  <2>7. draining' \subseteq Created /\ gone' \subseteq Created
    BY <2>0, <1>7, AppendOK DEF ReleaseAbandoned, TypeOK, ManagerOK
  <2>1. /\ ThreadOK(nrun, [Call("enqueue", "release", NoAgent) EXCEPT !.held = lease[t]])
    BY <1>1, <1>2, <1>7, <2>0, <2>7, NrunNat, ReleaseOK
  <2>2. nrun' = nrun /\ nrun <= nrun
    BY <1>1, <1>7 DEF ReleaseAbandoned
  <2>3. th' = th \/ Goto(t, [Call("enqueue", "release", NoAgent) EXCEPT !.held = lease[t]])
    BY <1>7 DEF ReleaseAbandoned
  <2>4. ThreadsOK'
    BY <1>1, <2>1, <2>2, <2>3, GotoOK DEF TypeOK, ThreadsOK
  <2>5. RunsOK'
    BY <1>1, <2>2, <1>7, <2>0, <2>7, <2>8 DEF ReleaseAbandoned, At, TypeOK, RunsOK, ManagerOK, Created, managerVars, outsideVars, ghostVars, ReturnLease, DropCurrent, AbandonedStatus
  <2>6. ManagerOK'
    BY <1>1, <2>2, <1>7, <2>0, <2>7 DEF ReleaseAbandoned, At, TypeOK, RunsOK, ManagerOK, Created, managerVars, outsideVars, ghostVars, ReturnLease, DropCurrent, AbandonedStatus
  <2> QED
    BY <2>4, <2>5, <2>6 DEF TypeOK
<1>8. CASE MarkFailed(t)
  <2>2. nrun' = nrun /\ nrun <= nrun
    BY <1>1, <1>8 DEF MarkFailed
  <2>4. ThreadsOK'
    BY <2>2, <1>8 DEF MarkFailed, TypeOK, ThreadsOK
  <2>5. RunsOK'
    BY <1>1, <2>2, <1>8 DEF MarkFailed, At, TypeOK, RunsOK, ManagerOK, Created, managerVars, outsideVars, ghostVars
  <2>6. ManagerOK'
    BY <1>1, <2>2, <1>8 DEF MarkFailed, At, TypeOK, RunsOK, ManagerOK, Created, managerVars, outsideVars, ghostVars
  <2> QED
    BY <2>4, <2>5, <2>6 DEF TypeOK
<1>9. CASE Invalidate(t)
  <2>0. lease[t] \in Created
    BY <1>9 DEF Invalidate, TypeOK, ManagerOK, NoRun
  <2>2. nrun' = nrun /\ nrun <= nrun
    BY <1>1, <1>9 DEF Invalidate
  <2>4. ThreadsOK'
    BY <2>2, <1>9 DEF Invalidate, TypeOK, ThreadsOK
  <2>5. RunsOK'
    BY <1>1, <2>2, <1>9, <2>0 DEF Invalidate, At, TypeOK, RunsOK, ManagerOK, Created, managerVars, outsideVars, ghostVars
  <2>6. ManagerOK'
    BY <1>1, <2>2, <1>9, <2>0 DEF Invalidate, At, TypeOK, RunsOK, ManagerOK, Created, managerVars, outsideVars, ghostVars
  <2> QED
    BY <2>4, <2>5, <2>6 DEF TypeOK
<1> QED
  BY <1>3, <1>4, <1>5, <1>6, <1>7, <1>8, <1>9 DEF Request

\* The steps of rotate are well typed.
LEMMA TypeRotation ==
  ASSUME TypeOK, NEW t \in Procs, Rotation(t)
  PROVE  TypeOK'
<1>1. /\ t \in Threads /\ nrun \in Nat /\ ThreadOK(nrun, th[t])
      /\ Created = 1..nrun /\ Created \subseteq Runs
  BY NrunNat DEF TypeOK, ThreadsOK, Threads, Procs, Created, Runs
<1>2. /\ ThreadOK(nrun, IdleThread) /\ ThreadOK(nrun, OffWorker)
      /\ ThreadOK(nrun, Done(th[t])) /\ ThreadOK(nrun, Failed(th[t]))
  BY <1>1, IdleOK, DoneOK
<1>3. CASE RotateCheck(t)
  <2>1. /\ ThreadOK(nrun, [th[t] EXCEPT !.pc = "wait"])
        /\ ThreadOK(nrun, [th[t] EXCEPT !.pc = IF HasStore THEN "load" ELSE "start"])
    BY <1>1, <1>3 DEF RotateCheck, At, ThreadOK, ThreadState, PCs, Ops, RunRef, NoRun
  <2>2. nrun' = nrun /\ nrun <= nrun
    BY <1>1, <1>3 DEF RotateCheck
  <2>3. \E s : ThreadOK(nrun, s) /\ Goto(t, s)
    BY <1>2, <2>1, <1>3 DEF RotateCheck
  <2>4. ThreadsOK'
    BY <1>1, <2>2, <2>3, GotoOK
  <2>5. RunsOK'
    BY <2>2, <1>3 DEF RotateCheck, TypeOK, RunsOK, Created, ghostVars
  <2>6. th[t].agent \in Agents
    BY <1>1, <1>3 DEF RotateCheck, At, ThreadOK, ThreadState
  <2>7. ManagerOK'
    BY <2>2, <2>6, <1>3 DEF RotateCheck, TypeOK, ManagerOK, Created, outsideVars, ghostVars
  <2> QED
    BY <2>4, <2>5, <2>7 DEF TypeOK
<1>4. CASE LoadRun(t)
  <2>1. th[t].agent \in Agents /\ store[th[t].agent] \in Created \cup {NoRun}
    BY <1>1, <1>4 DEF LoadRun, At, TypeOK, ManagerOK, ThreadOK, ThreadState
  <2>2. ASSUME NEW rid \in Created \cup {NoRun}
        PROVE  ThreadOK(nrun, [th[t] EXCEPT
                 !.pc = IF rid = NoRun THEN "start"
                        ELSE IF rid \in aged THEN "stale" ELSE "resume",
                 !.fresh = IF rid \in aged THEN NoRun ELSE rid])
    BY <1>1, <1>4 DEF LoadRun, At, ThreadOK, ThreadState, PCs, Ops, RunRef, NoRun
  <2> QED
    BY <1>1, <2>1, <2>2, <1>4, OnlyThread DEF LoadRun
<1>5. CASE DropStaleRecord(t)
  <2>1. /\ ThreadOK(nrun, [th[t] EXCEPT !.pc = "start"])
    BY <1>1, <1>2, <1>5 DEF DropStaleRecord, At, Call, ThreadOK, ThreadState, PCs, Ops, RunRef, NoRun
  <2>2. nrun' = nrun /\ nrun <= nrun
    BY <1>1, <1>5 DEF DropStaleRecord
  <2>3. \E s : ThreadOK(nrun, s) /\ Goto(t, s)
    BY <1>2, <2>1, <1>5 DEF DropStaleRecord
  <2>4. ThreadsOK'
    BY <1>1, <2>2, <2>3, GotoOK
  <2>5. RunsOK'
    BY <1>1, <2>2, <1>5 DEF DropStaleRecord, At, TypeOK, RunsOK, ManagerOK, Created, managerVars, outsideVars, ghostVars
  <2>6. ManagerOK'
    BY <1>1, <2>2, <1>5 DEF DropStaleRecord, At, TypeOK, RunsOK, ManagerOK, Created, managerVars, outsideVars, ghostVars
  <2> QED
    BY <2>4, <2>5, <2>6 DEF TypeOK
<1>6. CASE ResumeRun(t) /\ shuttingDown
  <2>1. nrun' = nrun /\ nrun <= nrun
    BY <1>1, <1>6 DEF ResumeRun
  <2>2. CloseFlight(t, th[t].agent, Failed(th[t]), AllFailed)
    BY <1>6 DEF ResumeRun
  <2>3. \A q \in Threads : ThreadOK(nrun, th'[q])
    BY <1>1, <2>1, <2>2, AllThreads DEF CloseFlight, AllDone, AllFailed
  <2>4. ThreadsOK'
    BY <2>1, <2>2, <2>3 DEF CloseFlight, ThreadsOK, ThreadOK
  <2>5. RunsOK'
    BY <2>1, <1>6 DEF ResumeRun, TypeOK, RunsOK, Created
  <2>6. ManagerOK'
    BY <2>1, <2>2, <1>6 DEF ResumeRun, CloseFlight, TypeOK, ManagerOK, Created, outsideVars
  <2> QED
    BY <2>4, <2>5, <2>6 DEF TypeOK
<1>7. CASE ResumeRun(t) /\ ~shuttingDown
  <2>1. /\ th[t].agent \in Agents /\ current[th[t].agent] \in Created \cup {NoRun}
        /\ MaxRuns \in Nat
    BY <1>1, <1>7, NrunNat DEF ResumeRun, At, TypeOK, ManagerOK, ThreadOK, ThreadState
  <2> DEFINE a == th[t].agent
  <2> DEFINE n == nrun + 1
  <2>2. /\ n \in Nat /\ nrun <= n /\ n <= MaxRuns /\ nrun' = n
        /\ Created' = Created \cup {n} /\ n \in Runs /\ n \in 1..n
    <3>1. nrun' = n /\ n <= MaxRuns
      BY <1>7 DEF ResumeRun, NewRun
    <3> QED
      BY <1>1, <2>1, <3>1 DEF Created, Runs
  <2>3. /\ agentOf' = [agentOf EXCEPT ![n] = a]
        /\ ridOf' = [ridOf EXCEPT ![n] = th[t].fresh]
        /\ UNCHANGED <<inflight, status, reported>>
    BY <1>7 DEF ResumeRun, NewRun
  <2>4. ThreadOK(n, Retire(th[t], current[a]))
    <3>1. ThreadOK(n, th[t])
      BY <1>1, <2>2, AllThreads
    <3>2. current[a] \in (1..n) \cup {NoRun} /\ (current[a] # NoRun => current[a] \in Runs)
      BY <1>1, <2>1, <2>2
    <3> QED
      BY <2>2, <3>1, <3>2, RetireOK
  <2>5. CloseFlight(t, a, Retire(th[t], current[a]), AllDone)
    BY <1>7 DEF ResumeRun
  <2>6. \A q \in Threads : ThreadOK(n, th'[q])
    BY <1>1, <2>2, <2>4, <2>5, AllThreads DEF CloseFlight, AllDone, AllFailed
  <2>7. ThreadsOK'
    BY <2>2, <2>5, <2>6 DEF CloseFlight, ThreadsOK, ThreadOK
  <2>11. th[t].fresh \in Created
    BY <1>1, <1>7 DEF ResumeRun, At, ThreadOK, NoRun
  <2>8. RunsOK'
    <3>1. agentOf \in [Runs -> Agents \cup {NoAgent}] /\ ridOf \in [Runs -> Runs]
      BY DEF TypeOK, RunsOK
    <3>2. \A r \in Created : agentOf[r] \in Agents /\ ridOf[r] \in Created
      BY DEF TypeOK, RunsOK
    <3>3. agentOf' \in [Runs -> Agents \cup {NoAgent}] /\ ridOf' \in [Runs -> Runs]
      BY <1>1, <2>1, <2>2, <2>3, <3>1, <2>11
    <3>4. \A r \in Created' : agentOf'[r] \in Agents /\ ridOf'[r] \in Created'
      BY <1>1, <2>1, <2>2, <2>3, <3>1, <3>2, <2>11
    <3>5. nrun' \in 0..MaxRuns
      BY <2>1, <2>2
    <3> QED
      BY <2>3, <3>3, <3>4, <3>5 DEF TypeOK, RunsOK
  <2>9. /\ draining' \subseteq Created /\ gone' \subseteq Created
        /\ current' = [current EXCEPT ![a] = n]
    BY <2>1, <1>7, AppendOK DEF ResumeRun
  <2>10. ManagerOK'
    BY <2>1, <2>2, <2>5, <2>9, <1>7 DEF ResumeRun, CloseFlight, TypeOK, ManagerOK, outsideVars
  <2> QED
    BY <2>7, <2>8, <2>10 DEF TypeOK
<1>8. CASE StartRunOK(t) /\ shuttingDown
  <2>1. /\ th[t].agent \in Agents /\ current[th[t].agent] \in Created \cup {NoRun}
        /\ MaxRuns \in Nat
    BY <1>1, <1>8, NrunNat DEF StartRunOK, At, TypeOK, ManagerOK, ThreadOK, ThreadState
  <2> DEFINE a == th[t].agent
  <2> DEFINE n == nrun + 1
  <2>2. /\ n \in Nat /\ nrun <= n /\ n <= MaxRuns /\ nrun' = n
        /\ Created' = Created \cup {n} /\ n \in Runs /\ n \in 1..n
    <3>1. nrun' = n /\ n <= MaxRuns
      BY <1>8 DEF StartRunOK, NewRun
    <3> QED
      BY <1>1, <2>1, <3>1 DEF Created, Runs
  <2>3. /\ agentOf' = [agentOf EXCEPT ![n] = a]
        /\ ridOf' = [ridOf EXCEPT ![n] = n]
        /\ UNCHANGED <<inflight, status, reported>>
    BY <1>8 DEF StartRunOK, NewRun
  <2>4. ThreadOK(n, [th[t] EXCEPT !.pc = "discard", !.fresh = n])
    <3>1. ThreadOK(n, th[t])
      BY <1>1, <2>2, AllThreads
    <3>2. n \in RunRef /\ n # NoRun
      BY <1>1, <2>2 DEF RunRef, NoRun
    <3>3. th[t].agent # NoAgent
      BY <1>1, <1>8 DEF StartRunOK, At, ThreadOK
    <3> QED
      BY <2>2, <3>1, <3>2, <3>3 DEF ThreadOK, ThreadState, PCs
  <2>5. CloseFlight(t, a, [th[t] EXCEPT !.pc = "discard", !.fresh = n], AllDone)
    BY <1>8 DEF StartRunOK, StartDiscarded
  <2>6. \A q \in Threads : ThreadOK(n, th'[q])
    BY <1>1, <2>2, <2>4, <2>5, AllThreads DEF CloseFlight, AllDone, AllFailed
  <2>7. ThreadsOK'
    BY <2>2, <2>5, <2>6 DEF CloseFlight, ThreadsOK, ThreadOK
  <2>8. RunsOK'
    <3>1. agentOf \in [Runs -> Agents \cup {NoAgent}] /\ ridOf \in [Runs -> Runs]
      BY DEF TypeOK, RunsOK
    <3>2. \A r \in Created : agentOf[r] \in Agents /\ ridOf[r] \in Created
      BY DEF TypeOK, RunsOK
    <3>3. agentOf' \in [Runs -> Agents \cup {NoAgent}] /\ ridOf' \in [Runs -> Runs]
      BY <1>1, <2>1, <2>2, <2>3, <3>1
    <3>4. \A r \in Created' : agentOf'[r] \in Agents /\ ridOf'[r] \in Created'
      BY <1>1, <2>1, <2>2, <2>3, <3>1, <3>2
    <3>5. nrun' \in 0..MaxRuns
      BY <2>1, <2>2
    <3> QED
      BY <2>3, <3>3, <3>4, <3>5 DEF TypeOK, RunsOK
  <2>9. /\ draining' \subseteq Created /\ gone' \subseteq Created
        /\ current' = current
    BY <1>8 DEF StartRunOK, StartDiscarded, TypeOK, ManagerOK
  <2>10. ManagerOK'
    BY <2>1, <2>2, <2>5, <2>9, <1>8 DEF StartRunOK, CloseFlight, TypeOK, ManagerOK, outsideVars
  <2> QED
    BY <2>7, <2>8, <2>10 DEF TypeOK
<1>9. CASE StartRunOK(t) /\ ~shuttingDown
  <2>1. /\ th[t].agent \in Agents /\ current[th[t].agent] \in Created \cup {NoRun}
        /\ MaxRuns \in Nat
    BY <1>1, <1>9, NrunNat DEF StartRunOK, At, TypeOK, ManagerOK, ThreadOK, ThreadState
  <2> DEFINE a == th[t].agent
  <2> DEFINE n == nrun + 1
  <2>2. /\ n \in Nat /\ nrun <= n /\ n <= MaxRuns /\ nrun' = n
        /\ Created' = Created \cup {n} /\ n \in Runs /\ n \in 1..n
    <3>1. nrun' = n /\ n <= MaxRuns
      BY <1>9 DEF StartRunOK, NewRun
    <3> QED
      BY <1>1, <2>1, <3>1 DEF Created, Runs
  <2>3. /\ agentOf' = [agentOf EXCEPT ![n] = a]
        /\ ridOf' = [ridOf EXCEPT ![n] = n]
        /\ UNCHANGED <<inflight, status, reported>>
    BY <1>9 DEF StartRunOK, NewRun
  <2> DEFINE old == current[a]
  <2> DEFINE s == IF HasStore
                  THEN [th[t] EXCEPT !.pc = "persist", !.fresh = n, !.held = old]
                  ELSE Retire(th[t], old)
  <2>4. ThreadOK(n, s)
    <3>1. ThreadOK(n, th[t])
      BY <1>1, <2>2, AllThreads
    <3>2. old \in (1..n) \cup {NoRun} /\ (old # NoRun => old \in Runs)
      BY <1>1, <2>1, <2>2
    <3>3. ThreadOK(n, Retire(th[t], old))
      BY <2>2, <3>1, <3>2, RetireOK
    <3>4. ThreadOK(n, [th[t] EXCEPT !.pc = "persist", !.fresh = n, !.held = old])
      <4>1. n \in RunRef /\ n # NoRun /\ old \in RunRef
        BY <1>1, <2>2, <3>2 DEF RunRef, NoRun
      <4>2. th[t].agent # NoAgent
        BY <1>1, <1>9 DEF StartRunOK, At, ThreadOK
      <4> QED
        BY <2>2, <3>1, <3>2, <4>1, <4>2 DEF ThreadOK, ThreadState, PCs
    <3> QED
      BY <3>3, <3>4
  <2>5. CloseFlight(t, a, s, AllDone)
    BY <1>9 DEF StartRunOK, StartDiscarded
  <2>6. \A q \in Threads : ThreadOK(n, th'[q])
    BY <1>1, <2>2, <2>4, <2>5, AllThreads DEF CloseFlight, AllDone, AllFailed
  <2>7. ThreadsOK'
    BY <2>2, <2>5, <2>6 DEF CloseFlight, ThreadsOK, ThreadOK
  <2>8. RunsOK'
    <3>1. agentOf \in [Runs -> Agents \cup {NoAgent}] /\ ridOf \in [Runs -> Runs]
      BY DEF TypeOK, RunsOK
    <3>2. \A r \in Created : agentOf[r] \in Agents /\ ridOf[r] \in Created
      BY DEF TypeOK, RunsOK
    <3>3. agentOf' \in [Runs -> Agents \cup {NoAgent}] /\ ridOf' \in [Runs -> Runs]
      BY <1>1, <2>1, <2>2, <2>3, <3>1
    <3>4. \A r \in Created' : agentOf'[r] \in Agents /\ ridOf'[r] \in Created'
      BY <1>1, <2>1, <2>2, <2>3, <3>1, <3>2
    <3>5. nrun' \in 0..MaxRuns
      BY <2>1, <2>2
    <3> QED
      BY <2>3, <3>3, <3>4, <3>5 DEF TypeOK, RunsOK
  <2>9. /\ draining' \subseteq Created /\ gone' \subseteq Created
        /\ current' = [current EXCEPT ![a] = n]
    BY <2>1, <1>9, AppendOK DEF StartRunOK, StartDiscarded
  <2>10. ManagerOK'
    BY <2>1, <2>2, <2>5, <2>9, <1>9 DEF StartRunOK, CloseFlight, TypeOK, ManagerOK, outsideVars
  <2> QED
    BY <2>7, <2>8, <2>10 DEF TypeOK
<1>10. CASE StartRunFailed(t)
  <2>1. nrun' = nrun /\ nrun <= nrun
    BY <1>1, <1>10 DEF StartRunFailed
  <2>2. \A q \in Threads : ThreadOK(nrun, th'[q])
    BY <1>1, <2>1, <1>10, AllThreads DEF StartRunFailed, CloseFlight, AllFailed, AllRetry
  <2>3. ThreadsOK'
    BY <2>1, <2>2, <1>10 DEF StartRunFailed, CloseFlight, ThreadsOK, ThreadOK
  <2>4. RunsOK'
    BY <2>1, <1>10 DEF StartRunFailed, TypeOK, RunsOK, Created, ghostVars
  <2>5. ManagerOK'
    BY <2>1, <1>10 DEF StartRunFailed, CloseFlight, TypeOK, ManagerOK, Created, outsideVars, ghostVars
  <2> QED
    BY <2>3, <2>4, <2>5 DEF TypeOK
<1>11. CASE FinishInline(t)
  <2>0. th[t].fresh \in Created
    BY <1>1, <1>11 DEF FinishInline, At, ThreadOK, NoRun
  <2>2. nrun' = nrun /\ nrun <= nrun
    BY <1>1, <1>11 DEF FinishInline
  <2>3. \E s : ThreadOK(nrun, s) /\ Goto(t, s)
    BY <1>2, <1>11 DEF FinishInline
  <2>4. ThreadsOK'
    BY <1>1, <2>2, <2>3, GotoOK
  <2>5. RunsOK'
    BY <1>1, <2>2, <1>11, <2>0 DEF FinishInline, At, TypeOK, RunsOK, ManagerOK, Created, managerVars, outsideVars, ghostVars
  <2>6. ManagerOK'
    BY <1>1, <2>2, <1>11, <2>0 DEF FinishInline, At, TypeOK, RunsOK, ManagerOK, Created, managerVars, outsideVars, ghostVars
  <2> QED
    BY <2>4, <2>5, <2>6 DEF TypeOK
<1>12. CASE PersistRun(t)
  <2>0. /\ th[t].fresh \in Created /\ ridOf[th[t].fresh] \in Created
        /\ th[t].agent \in Agents /\ th[t].held \in (1..nrun) \cup {NoRun}
    BY <1>1, <1>12 DEF PersistRun, At, ThreadOK, ThreadState, NoRun, TypeOK, RunsOK
  <2>2. nrun' = nrun /\ nrun <= nrun
    BY <1>1, <1>12 DEF PersistRun
  <2>3. ThreadOK(nrun, Retire(th[t], th[t].held))
    BY <1>1, <2>0, RetireOK
  <2>4. ThreadsOK'
    BY <1>1, <2>2, <2>3, <1>12, GotoOK DEF PersistRun
  <2>5. RunsOK'
    BY <1>1, <2>2, <1>12, <2>0 DEF PersistRun, At, TypeOK, RunsOK, ManagerOK, Created, managerVars, outsideVars, ghostVars
  <2>6. ManagerOK'
    BY <1>1, <2>2, <1>12, <2>0 DEF PersistRun, At, TypeOK, RunsOK, ManagerOK, Created, managerVars, outsideVars, ghostVars
  <2> QED
    BY <2>4, <2>5, <2>6 DEF TypeOK
<1> QED
  BY <1>3, <1>4, <1>5, <1>6, <1>7, <1>8, <1>9, <1>10, <1>11, <1>12 DEF Rotation

\* The steps of a FINISH attempt are well typed.
LEMMA TypeFinish ==
  ASSUME TypeOK, NEW t \in Threads, Finish(t)
  PROVE  TypeOK'
<1>1. /\ t \in Threads /\ nrun \in Nat /\ ThreadOK(nrun, th[t])
      /\ Created = 1..nrun /\ Created \subseteq Runs
  BY NrunNat DEF TypeOK, ThreadsOK, Threads, Procs, Created, Runs
<1>2. /\ ThreadOK(nrun, IdleThread) /\ ThreadOK(nrun, OffWorker)
      /\ ThreadOK(nrun, Done(th[t])) /\ ThreadOK(nrun, Failed(th[t]))
  BY <1>1, IdleOK, DoneOK
<1>3. CASE FinishClaim(t)
  <2>0. th[t].held \in Created /\ agentOf[th[t].held] \in Agents
    BY <1>1, <1>3 DEF FinishClaim, At, ThreadOK, NoRun, TypeOK, RunsOK
  <2>1. /\ ThreadOK(nrun, [th[t] EXCEPT !.pc = "unpersist"])
        /\ ThreadOK(nrun, [th[t] EXCEPT !.pc = "send"])
    BY <1>1, <1>2, <1>3, <2>0 DEF FinishClaim, At, Call, ThreadOK, ThreadState, PCs, Ops, RunRef, NoRun
  <2>2. nrun' = nrun /\ nrun <= nrun
    BY <1>1, <1>3 DEF FinishClaim
  <2>3. \E s : ThreadOK(nrun, s) /\ Goto(t, s)
    BY <1>2, <2>1, <1>3 DEF FinishClaim
  <2>4. ThreadsOK'
    BY <1>1, <2>2, <2>3, GotoOK
  <2>5. RunsOK'
    BY <1>1, <2>2, <1>3, <2>0 DEF FinishClaim, At, TypeOK, RunsOK, ManagerOK, Created, managerVars, outsideVars, ghostVars
  <2>6. ManagerOK'
    BY <1>1, <2>2, <1>3, <2>0 DEF FinishClaim, At, TypeOK, RunsOK, ManagerOK, Created, managerVars, outsideVars, ghostVars
  <2> QED
    BY <2>4, <2>5, <2>6 DEF TypeOK
<1>4. CASE RemoveRun(t)
  <2>0. th[t].held \in Created /\ agentOf[th[t].held] \in Agents
    BY <1>1, <1>4 DEF RemoveRun, At, ThreadOK, NoRun, TypeOK, RunsOK
  <2>1. /\ ThreadOK(nrun, [th[t] EXCEPT !.pc = "send"])
    BY <1>1, <1>2, <1>4, <2>0 DEF RemoveRun, At, Call, ThreadOK, ThreadState, PCs, Ops, RunRef, NoRun
  <2>2. nrun' = nrun /\ nrun <= nrun
    BY <1>1, <1>4 DEF RemoveRun
  <2>3. \E s : ThreadOK(nrun, s) /\ Goto(t, s)
    BY <1>2, <2>1, <1>4 DEF RemoveRun
  <2>4. ThreadsOK'
    BY <1>1, <2>2, <2>3, GotoOK
  <2>5. RunsOK'
    BY <1>1, <2>2, <1>4, <2>0 DEF RemoveRun, At, TypeOK, RunsOK, ManagerOK, Created, managerVars, outsideVars, ghostVars
  <2>6. ManagerOK'
    BY <1>1, <2>2, <1>4, <2>0 DEF RemoveRun, At, TypeOK, RunsOK, ManagerOK, Created, managerVars, outsideVars, ghostVars
  <2> QED
    BY <2>4, <2>5, <2>6 DEF TypeOK
<1>5. CASE SendFinish(t)
  <2>0. th[t].held \in Created /\ agentOf[th[t].held] \in Agents
    BY <1>1, <1>5 DEF SendFinish, At, ThreadOK, NoRun, TypeOK, RunsOK
  <2>8. reported' \in [Runs -> {"", "completed", "cancelled", "failed"}]
    <3>1. /\ reported \in [Runs -> {"", "completed", "cancelled", "failed"}]
          /\ status \in [Runs -> {"", "cancelled", "failed"}] /\ th[t].held \in Runs
      BY <1>1, <2>0 DEF TypeOK, RunsOK
    <3>2. Payload(th[t].held) \in {"completed", "cancelled", "failed"}
      BY <3>1 DEF Payload
    <3> QED
      BY <3>1, <3>2, <1>5 DEF SendFinish
  <2>1. /\ ThreadOK(nrun, [th[t] EXCEPT !.pc = "sentOK"])
        /\ ThreadOK(nrun, [th[t] EXCEPT !.pc = "sentErr"])
    BY <1>1, <1>2, <1>5, <2>0 DEF SendFinish, At, Call, ThreadOK, ThreadState, PCs, Ops, RunRef, NoRun
  <2>2. nrun' = nrun /\ nrun <= nrun
    BY <1>1, <1>5 DEF SendFinish
  <2>3. \E s : ThreadOK(nrun, s) /\ Goto(t, s)
    BY <1>2, <2>1, <1>5 DEF SendFinish
  <2>4. ThreadsOK'
    BY <1>1, <2>2, <2>3, GotoOK
  <2>5. RunsOK'
    BY <1>1, <2>2, <1>5, <2>0, <2>8 DEF SendFinish, At, TypeOK, RunsOK, ManagerOK, Created, managerVars, outsideVars, ghostVars
  <2>6. ManagerOK'
    BY <1>1, <2>2, <1>5, <2>0 DEF SendFinish, At, TypeOK, RunsOK, ManagerOK, Created, managerVars, outsideVars, ghostVars
  <2> QED
    BY <2>4, <2>5, <2>6 DEF TypeOK
<1>6. CASE FinishOK(t)
  <2>0. th[t].held \in Created /\ agentOf[th[t].held] \in Agents
    BY <1>1, <1>6 DEF FinishOK, At, ThreadOK, NoRun, TypeOK, RunsOK
  <2>2. nrun' = nrun /\ nrun <= nrun
    BY <1>1, <1>6 DEF FinishOK
  <2>3. \E s : ThreadOK(nrun, s) /\ Goto(t, s)
    BY <1>2, <1>6 DEF FinishOK
  <2>4. ThreadsOK'
    BY <1>1, <2>2, <2>3, GotoOK
  <2>5. RunsOK'
    BY <1>1, <2>2, <1>6, <2>0 DEF FinishOK, At, TypeOK, RunsOK, ManagerOK, Created, managerVars, outsideVars, ghostVars
  <2>6. ManagerOK'
    BY <1>1, <2>2, <1>6, <2>0 DEF FinishOK, At, TypeOK, RunsOK, ManagerOK, Created, managerVars, outsideVars, ghostVars
  <2> QED
    BY <2>4, <2>5, <2>6 DEF TypeOK
<1>7. CASE FinishErr(t)
  <2>0. th[t].held \in Created /\ agentOf[th[t].held] \in Agents
    BY <1>1, <1>7 DEF FinishErr, At, ThreadOK, NoRun, TypeOK, RunsOK
  <2>7. draining' \subseteq Created /\ gone' \subseteq Created
    BY <2>0, <1>7, AppendOK DEF FinishErr, TypeOK, ManagerOK
  <2>2. nrun' = nrun /\ nrun <= nrun
    BY <1>1, <1>7 DEF FinishErr
  <2>3. \E s : ThreadOK(nrun, s) /\ Goto(t, s)
    BY <1>2, <1>7 DEF FinishErr
  <2>4. ThreadsOK'
    BY <1>1, <2>2, <2>3, GotoOK
  <2>5. RunsOK'
    BY <1>1, <2>2, <1>7, <2>0, <2>7 DEF FinishErr, At, TypeOK, RunsOK, ManagerOK, Created, managerVars, outsideVars, ghostVars
  <2>6. ManagerOK'
    BY <1>1, <2>2, <1>7, <2>0, <2>7 DEF FinishErr, At, TypeOK, RunsOK, ManagerOK, Created, managerVars, outsideVars, ghostVars
  <2> QED
    BY <2>4, <2>5, <2>6 DEF TypeOK
<1> QED
  BY <1>3, <1>4, <1>5, <1>6, <1>7 DEF Finish

\* Cancellation and the FINISH queue are well typed.
LEMMA TypeQueue ==
  ASSUME TypeOK, NEW t \in Procs, CtxDone(t) \/ EnqueueFinish(t) \/ Enqueue(t)
  PROVE  TypeOK'
<1>1. /\ t \in Threads /\ nrun \in Nat /\ ThreadOK(nrun, th[t])
      /\ Created = 1..nrun /\ Created \subseteq Runs
  BY NrunNat DEF TypeOK, ThreadsOK, Threads, Procs, Created, Runs
<1>2. /\ ThreadOK(nrun, IdleThread) /\ ThreadOK(nrun, OffWorker)
      /\ ThreadOK(nrun, Done(th[t])) /\ ThreadOK(nrun, Failed(th[t]))
  BY <1>1, IdleOK, DoneOK
<1>3. CASE CtxDone(t)
  <2>2. \E s : ThreadOK(nrun, s) /\ Goto(t, s)
    BY <1>2, <1>3 DEF CtxDone
  <2> QED
    BY <1>1, <2>2, <1>3, OnlyThread DEF CtxDone
<1>4. CASE EnqueueFinish(t)
  <2>0. th[t].held \in Created /\ agentOf[th[t].held] \in Agents
    BY <1>1, <1>4 DEF EnqueueFinish, At, ThreadOK, NoRun, TypeOK, RunsOK
  <2>1. /\ ThreadOK(nrun, [th[t] EXCEPT !.pc = "push"])
    BY <1>1, <1>2, <1>4, <2>0 DEF EnqueueFinish, At, Call, ThreadOK, ThreadState, PCs, Ops, RunRef, NoRun
  <2>2. nrun' = nrun /\ nrun <= nrun
    BY <1>1, <1>4 DEF EnqueueFinish
  <2>3. \E s : ThreadOK(nrun, s) /\ Goto(t, s)
    BY <1>2, <2>1, <1>4 DEF EnqueueFinish
  <2>4. ThreadsOK'
    BY <1>1, <2>2, <2>3, GotoOK
  <2>5. RunsOK'
    BY <1>1, <2>2, <1>4, <2>0 DEF EnqueueFinish, At, TypeOK, RunsOK, ManagerOK, Created, managerVars, outsideVars, ghostVars
  <2>6. ManagerOK'
    BY <1>1, <2>2, <1>4, <2>0 DEF EnqueueFinish, At, TypeOK, RunsOK, ManagerOK, Created, managerVars, outsideVars, ghostVars
  <2> QED
    BY <2>4, <2>5, <2>6 DEF TypeOK
<1>5. CASE Enqueue(t)
  <2>0. th[t].held \in Created /\ agentOf[th[t].held] \in Agents
    BY <1>1, <1>5 DEF Enqueue, At, ThreadOK, NoRun, TypeOK, RunsOK
  <2>1. ThreadOK(nrun, [th[t] EXCEPT !.pc = "claim"])
    BY <1>1, <2>0, <1>5 DEF Enqueue, At, ThreadOK, ThreadState, PCs, Ops, RunRef, NoRun
  <2>2. nrun' = nrun /\ Created' = Created
    BY <1>5 DEF Enqueue, Created
  <2>3. /\ Worker \in Threads /\ Worker # t
        /\ ThreadOK(nrun, th[Worker]) /\ ThreadOK(nrun, Done(th[Worker]))
    BY <1>1, DoneOK, ConstantsAssumption
    DEF ConstantsAssumption, TypeOK, ThreadsOK, Threads, Procs
  <2>9. \A x \in Threads : ThreadOK(nrun, th[x])
    BY DEF TypeOK, ThreadsOK
  <2>10. PICK s : /\ ThreadOK(nrun, s)
                 /\ th' = [th EXCEPT ![t] = s,
                             ![Worker] = IF @.pc = "off" THEN Done(@) ELSE @]
    BY <1>2, <2>1, <1>5 DEF Enqueue
  <2>11. th \in [Threads -> ThreadState]
    BY DEF TypeOK, ThreadsOK
  <2>12. \A x \in Threads : ThreadOK(nrun, th'[x])
    BY <1>1, <2>3, <2>9, <2>10, <2>11
  <2>4. ThreadsOK'
    BY <2>2, <2>10, <2>11, <2>12 DEF ThreadsOK, ThreadOK
  <2>5. queue' \in Seq(Created)
    <3>1. queue \in Seq(Created) /\ Append(queue, th[t].held) \in Seq(Created)
      BY <2>0 DEF TypeOK, ManagerOK
    <3> QED
      BY <3>1, <1>5 DEF Enqueue
  <2>6. UNCHANGED <<agentOf, ridOf, inflight, finishing, queued, status, current,
                    flight, draining, shuttingDown, lease, store, aged,
                    reported, gone, crashes>>
    BY <1>5 DEF Enqueue, outsideVars, ghostVars
  <2>7. RunsOK' /\ ManagerOK'
    BY <2>2, <2>5, <2>6 DEF TypeOK, RunsOK, ManagerOK
  <2> QED
    BY <2>4, <2>7 DEF TypeOK
<1> QED
  BY <1>3, <1>4, <1>5 DEF Procs

\* The background passes are well typed.
LEMMA TypeBackground ==
  ASSUME TypeOK, NEW t \in Keepers, Background(t)
  PROVE  TypeOK'
<1>1. /\ t \in Threads /\ nrun \in Nat /\ ThreadOK(nrun, th[t])
      /\ Created = 1..nrun /\ Created \subseteq Runs
  BY NrunNat DEF TypeOK, ThreadsOK, Threads, Procs, Created, Runs
<1>2. /\ ThreadOK(nrun, IdleThread) /\ ThreadOK(nrun, OffWorker)
      /\ ThreadOK(nrun, Done(th[t])) /\ ThreadOK(nrun, Failed(th[t]))
  BY <1>1, IdleOK, DoneOK
<1>3. CASE \E a \in Agents : CallPrecreate(t, a)
  <2>1. PICK a \in Agents : CallPrecreate(t, a)
    BY <1>3
  <2>2. a # NoAgent
    BY ConstantsAssumption DEF ConstantsAssumption
  <2>3. ThreadOK(nrun, Call("rotate", "precreate", a))
    BY <1>1, <2>2 DEF Call, ThreadOK, ThreadState, PCs, Ops, RunRef, NoRun
  <2> QED
    BY <1>1, <2>1, <2>3, OnlyThread DEF CallPrecreate
<1>4. CASE Maintain(t)
  <2>1. ASSUME NEW J \in SUBSET Created, NEW R \in SUBSET Agents
        PROVE  ThreadOK(nrun, [Call("next", "maintain", NoAgent) EXCEPT !.jobs = J, !.rot = R])
    BY <1>1 DEF Call, ThreadOK, ThreadState, PCs, Ops, RunRef, NoRun
  <2>2. nrun' = nrun /\ nrun <= nrun /\ Created' = Created
    BY <1>1, <1>4 DEF Maintain, Created
  <2>3. \E s : ThreadOK(nrun, s) /\ Goto(t, s)
    <3>1. PICK old \in SUBSET draining :
            Goto(t, [Call("next", "maintain", NoAgent) EXCEPT !.jobs = draining \ old,
                       !.rot = {a \in Agents : /\ current[a] # NoRun
                                               /\ ridOf[current[a]] \in aged}])
      BY <1>4 DEF Maintain
    <3>2. draining \ old \in SUBSET Created
      BY DEF TypeOK, ManagerOK
    <3> QED
      BY <2>1, <3>1, <3>2
  <2>4. ThreadsOK'
    BY <1>1, <2>2, <2>3, GotoOK
  <2>5. draining' \subseteq Created /\ gone' \subseteq Created
    BY <1>4 DEF Maintain, TypeOK, ManagerOK
  <2>6. RunsOK' /\ ManagerOK'
    BY <2>2, <2>5, <1>4 DEF Maintain, TypeOK, RunsOK, ManagerOK, outsideVars
  <2> QED
    BY <2>4, <2>6 DEF TypeOK
<1>5. CASE FinishAllRuns(t)
  <2>1. nrun' = nrun /\ nrun <= nrun /\ Created' = Created
    BY <1>1, <1>5 DEF FinishAllRuns, Created
  <2> DEFINE active == {current[a] : a \in Agents} \ {NoRun}
  <2>2. active \subseteq Created /\ draining \subseteq Created
    BY DEF TypeOK, ManagerOK
  <2>3. \E J \in SUBSET Created :
          Goto(t, [Call("next", "finishall", NoAgent) EXCEPT !.jobs = J])
    BY <2>2, <1>5 DEF FinishAllRuns
  <2>4. \E s : ThreadOK(nrun, s) /\ Goto(t, s)
    <3>1. ASSUME NEW J \in SUBSET Created
          PROVE  ThreadOK(nrun, [Call("next", "finishall", NoAgent) EXCEPT !.jobs = J])
      BY <1>1 DEF Call, ThreadOK, ThreadState, PCs, Ops, RunRef, NoRun
    <3> QED
      BY <2>3, <3>1
  <2>5. ThreadsOK'
    BY <1>1, <2>1, <2>4, GotoOK
  <2>6. draining' \subseteq Created /\ gone' \subseteq Created
    BY <2>2, <1>5 DEF FinishAllRuns, TypeOK, ManagerOK
  <2>7. current' \in [Agents -> Created \cup {NoRun}]
    BY <1>5 DEF FinishAllRuns, TypeOK, ManagerOK
  <2>8. RunsOK' /\ ManagerOK'
    BY <2>1, <2>6, <2>7, <1>5 DEF FinishAllRuns, TypeOK, RunsOK, ManagerOK, outsideVars
  <2> QED
    BY <2>5, <2>8 DEF TypeOK
<1>6. CASE LoopNext(t)
  <2>1. ASSUME NEW a \in th[t].rot
        PROVE  ThreadOK(nrun, [th[t] EXCEPT !.pc = "rotate", !.agent = a, !.rot = @ \ {a}])
    <3>1. a \in Agents /\ a # NoAgent
      BY <1>1, ConstantsAssumption DEF ConstantsAssumption, ThreadOK, ThreadState
    <3> QED
      BY <1>1, <3>1 DEF ThreadOK, ThreadState, PCs
  <2>2. ASSUME NEW r \in th[t].jobs, NEW p \in {"enqueue", "claim", "send"}
        PROVE  ThreadOK(nrun, [th[t] EXCEPT !.pc = p, !.held = r, !.jobs = @ \ {r}])
    <3>1. r \in 1..nrun /\ r \in RunRef /\ r # NoRun
      BY <1>1 DEF ThreadOK, RunRef, NoRun, Created
    <3> QED
      BY <1>1, <3>1 DEF ThreadOK, ThreadState, PCs
  <2>3. \E s : ThreadOK(nrun, s) /\ Goto(t, s)
    <3>1. CASE \E a \in th[t].rot :
                 Goto(t, [th[t] EXCEPT !.pc = "rotate", !.agent = a, !.rot = @ \ {a}])
      BY <2>1, <3>1
    <3>2. CASE \E r \in th[t].jobs :
                 Goto(t, [th[t] EXCEPT !.pc = CASE th[t].op = "maintain" -> "enqueue"
                                               [] th[t].op = "finishall" -> "claim"
                                               [] OTHER -> "send",
                                       !.held = r, !.jobs = @ \ {r}])
      <4>1. (CASE th[t].op = "maintain" -> "enqueue"
               [] th[t].op = "finishall" -> "claim"
               [] OTHER -> "send") \in {"enqueue", "claim", "send"}
        OBVIOUS
      <4> QED
        BY <2>2, <3>2, <4>1
    <3>3. CASE Goto(t, IdleThread)
      BY <1>2, <3>3
    <3> QED
      BY <3>1, <3>2, <3>3, <1>6 DEF LoopNext
  <2> QED
    BY <1>1, <2>3, <1>6, OnlyThread DEF LoopNext
<1>7. CASE Shutdown(t)
  <2>1. ThreadOK(nrun, Call("sdwait", "shutdown", NoAgent))
    BY <1>1 DEF Call, ThreadOK, ThreadState, PCs, Ops, RunRef, NoRun
  <2>2. nrun' = nrun /\ Created' = Created
    BY <1>7 DEF Shutdown, Created
  <2>3. /\ Worker \in Threads /\ Worker # t
        /\ ThreadOK(nrun, th[Worker]) /\ ThreadOK(nrun, Done(th[Worker]))
    BY <1>1, DoneOK, ConstantsAssumption
    DEF ConstantsAssumption, TypeOK, ThreadsOK, Threads, Procs
  <2>9. \A x \in Threads : ThreadOK(nrun, th[x])
    BY DEF TypeOK, ThreadsOK
  <2>10. PICK s : /\ ThreadOK(nrun, s)
                 /\ th' = [th EXCEPT ![t] = s,
                             ![Worker] = IF @.pc = "off" THEN Done(@) ELSE @]
    BY <1>2, <2>1, <1>7 DEF Shutdown
  <2>11. th \in [Threads -> ThreadState]
    BY DEF TypeOK, ThreadsOK
  <2>12. \A x \in Threads : ThreadOK(nrun, th'[x])
    BY <1>1, <2>3, <2>9, <2>10, <2>11
  <2>4. ThreadsOK'
    BY <2>2, <2>10, <2>11, <2>12 DEF ThreadsOK, ThreadOK
  <2>5. RunsOK' /\ ManagerOK'
    BY <2>2, <1>7 DEF Shutdown, TypeOK, RunsOK, ManagerOK, outsideVars, ghostVars
  <2> QED
    BY <2>4, <2>5 DEF TypeOK
<1>8. CASE ShutdownClaim(t)
  <2>1. nrun' = nrun /\ nrun <= nrun /\ Created' = Created
    BY <1>1, <1>8 DEF ShutdownClaim, Created
  <2> DEFINE active == {current[a] : a \in Agents} \ {NoRun}
  <2>2. active \subseteq Created /\ draining \subseteq Created /\ finishing \subseteq Created
    BY DEF TypeOK, ManagerOK
  <2>3. ASSUME NEW J \in SUBSET Created, NEW S \in SUBSET Created
        PROVE  /\ ThreadOK(nrun, [th[t] EXCEPT !.pc = "sdsave", !.jobs = J, !.saves = S])
               /\ ThreadOK(nrun, [th[t] EXCEPT !.pc = "next", !.jobs = J])
    <3>1. th[t] \in ThreadState /\ J \in SUBSET Runs /\ S \in SUBSET Runs
      BY <1>1, <2>3 DEF ThreadOK
    <3>2. ThreadOK(nrun, [th[t] EXCEPT !.pc = "sdsave", !.jobs = J, !.saves = S])
      BY <1>1, <2>3, <3>1 DEF ThreadOK, ThreadState, PCs
    <3>3. ThreadOK(nrun, [th[t] EXCEPT !.pc = "next", !.jobs = J])
      BY <1>1, <2>3, <3>1 DEF ThreadOK, ThreadState, PCs
    <3> QED
      BY <3>2, <3>3
  <2>4. \E s : ThreadOK(nrun, s) /\ Goto(t, s)
    <3> DEFINE left == (IF HasStore THEN draining ELSE active \cup draining) \ finishing
    <3>1. left \in SUBSET Created /\ active \in SUBSET Created
      BY <2>2
    <3>2. \/ Goto(t, [th[t] EXCEPT !.pc = "sdsave", !.jobs = left, !.saves = active])
          \/ Goto(t, [th[t] EXCEPT !.pc = "next", !.jobs = left])
      BY <1>8 DEF ShutdownClaim
    <3> QED
      BY <2>3, <3>1, <3>2
  <2>5. ThreadsOK'
    BY <1>1, <2>1, <2>4, GotoOK
  <2>6. /\ finishing' \subseteq Created /\ draining' \subseteq Created
        /\ current' \in [Agents -> Created \cup {NoRun}]
    BY <2>2, <1>8 DEF ShutdownClaim, TypeOK, ManagerOK
  <2>7. RunsOK' /\ ManagerOK'
    BY <2>1, <2>6, <1>8 DEF ShutdownClaim, TypeOK, RunsOK, ManagerOK, outsideVars, ghostVars
  <2> QED
    BY <2>5, <2>7 DEF TypeOK
<1>9. CASE ShutdownSave(t)
  <2>1. nrun' = nrun /\ nrun <= nrun /\ Created' = Created
    BY <1>1, <1>9 DEF ShutdownSave, Created
  <2>2. ASSUME NEW r \in th[t].saves
        PROVE  /\ ThreadOK(nrun, [th[t] EXCEPT !.saves = @ \ {r}])
               /\ agentOf[r] \in Agents /\ ridOf[r] \in Created
    <3>1. r \in Created
      BY <1>1 DEF ThreadOK
    <3> QED
      BY <1>1, <3>1 DEF ThreadOK, ThreadState, TypeOK, RunsOK
  <2>3. ThreadOK(nrun, [th[t] EXCEPT !.pc = "next"])
    BY <1>1 DEF ThreadOK, ThreadState, PCs
  <2>4. \E s : ThreadOK(nrun, s) /\ Goto(t, s)
    BY <2>2, <2>3, <1>9 DEF ShutdownSave
  <2>5. ThreadsOK'
    BY <1>1, <2>1, <2>4, GotoOK
  <2>6. store' \in [Agents -> Created \cup {NoRun}]
    BY <2>2, <1>9 DEF ShutdownSave, TypeOK, ManagerOK
  <2>7. RunsOK' /\ ManagerOK'
    BY <2>1, <2>6, <1>9 DEF ShutdownSave, TypeOK, RunsOK, ManagerOK, managerVars, ghostVars
  <2> QED
    BY <2>5, <2>7 DEF TypeOK
<1> QED
  BY <1>3, <1>4, <1>5, <1>6, <1>7, <1>8, <1>9 DEF Background

\* The worker's own steps, time and crashes are well typed.
LEMMA TypeRest ==
  ASSUME TypeOK, FinishLoopTake \/ FinishLoopExit \/ RunAges \/ Crash
  PROVE  TypeOK'
<1>1. nrun \in Nat /\ Worker \in Threads /\ ThreadOK(nrun, th[Worker])
  BY NrunNat DEF TypeOK, ThreadsOK, Threads
<1>2. Created = 1..nrun /\ Created \subseteq Runs
  BY NrunNat DEF Created, Runs
<1>3. CASE FinishLoopTake
  <2>1. Head(queue) \in Created /\ Tail(queue) \in Seq(Created)
    BY <1>3 DEF FinishLoopTake, TypeOK, ManagerOK
  <2>2. nrun' = nrun /\ nrun <= nrun /\ Created' = Created
    BY <1>1, <1>3 DEF FinishLoopTake, Created
  <2>3. ThreadOK(nrun, [th[Worker] EXCEPT !.pc = "claim", !.held = Head(queue)])
    <3>1. Head(queue) \in 1..nrun /\ Head(queue) \in RunRef /\ Head(queue) # NoRun
      BY <1>1, <1>2, <2>1 DEF RunRef, NoRun
    <3> QED
      BY <1>1, <3>1 DEF ThreadOK, ThreadState, PCs
  <2>4. ThreadsOK'
    BY <1>1, <1>3, <2>2, <2>3, GotoOK DEF FinishLoopTake
  <2>5. RunsOK' /\ ManagerOK'
    BY <1>3, <2>1, <2>2 DEF FinishLoopTake, TypeOK, RunsOK, ManagerOK, outsideVars, ghostVars
  <2> QED
    BY <2>4, <2>5 DEF TypeOK
<1>4. CASE FinishLoopExit
  <2>1. ThreadOK(nrun, Call("exited", "worker", NoAgent))
    BY <1>1 DEF Call, ThreadOK, ThreadState, PCs, Ops, RunRef, NoRun
  <2> QED
    BY <1>1, <1>4, <2>1, OnlyThread DEF FinishLoopExit
<1>5. CASE RunAges
  <2>1. aged' \subseteq Created
    <3>1. /\ \A a \in Agents : current[a] \in Created \cup {NoRun}
          /\ \A a \in Agents : store[a] \in Created \cup {NoRun}
          /\ \A r \in Created : ridOf[r] \in Created
          /\ aged \subseteq Created
      BY DEF TypeOK, RunsOK, ManagerOK
    <3> QED
      BY <1>5, <3>1 DEF RunAges
  <2> QED
    BY <1>5, <2>1 DEF RunAges, TypeOK, RunsOK, ManagerOK, ThreadsOK, Created, managerVars, ghostVars
<1>6. CASE Crash
  <2>1. nrun' = nrun /\ Created' = Created
    BY <1>6 DEF Crash, Created
  <2>2. th' = [t \in Threads |-> IF t = Worker THEN OffWorker ELSE IdleThread]
    BY <1>6 DEF Crash, FreshManager
  <2>3. ThreadsOK'
    <3>1. ThreadOK(nrun, OffWorker) /\ ThreadOK(nrun, IdleThread)
      BY <1>1, IdleOK
    <3> QED
      BY <2>1, <2>2, <3>1 DEF ThreadsOK, ThreadOK
  <2>4. RunsOK'
    BY <1>6, <2>1 DEF Crash, FreshManager, TypeOK, RunsOK
  <2>5. queue' \in Seq(Created)
    <3>1. queue' = <<>>
      BY <1>6 DEF Crash, FreshManager
    <3> QED
      BY <3>1
  <2>6. crashes' \in 0..MaxCrashes
    <3>1. MaxCrashes \in Nat /\ crashes \in 0..MaxCrashes
      BY ConstantsAssumption DEF ConstantsAssumption, TypeOK, ManagerOK
    <3> QED
      BY <1>6, <3>1 DEF Crash
  <2>7. ManagerOK'
    BY <1>2, <1>6, <2>1, <2>5, <2>6 DEF Crash, FreshManager, TypeOK, ManagerOK, outsideVars
  <2> QED
    BY <2>3, <2>4, <2>7 DEF TypeOK
<1> QED
  BY <1>3, <1>4, <1>5, <1>6

\* Every step keeps the state well typed.
LEMMA TypeNext == TypeOK /\ [Next]_vars => TypeOK'
<1> SUFFICES ASSUME TypeOK, [Next]_vars PROVE TypeOK'
  OBVIOUS
<1>1. ASSUME NEW t \in Clients, Request(t) PROVE TypeOK'
  BY <1>1, TypeRequest
<1>2. ASSUME NEW t \in Keepers, Background(t) PROVE TypeOK'
  BY <1>2, TypeBackground
<1>3. ASSUME NEW t \in Procs, Rotation(t) PROVE TypeOK'
  BY <1>3, TypeRotation
<1>4. ASSUME NEW t \in Procs, CtxDone(t) \/ EnqueueFinish(t) \/ Enqueue(t) PROVE TypeOK'
  BY <1>4, TypeQueue
<1>5. ASSUME NEW t \in Threads, Finish(t) PROVE TypeOK'
  BY <1>5, TypeFinish
<1>6. ASSUME FinishLoopTake \/ FinishLoopExit \/ RunAges \/ Crash PROVE TypeOK'
  BY <1>6, TypeRest
<1>7. CASE UNCHANGED vars
  BY <1>7 DEF vars, managerVars, outsideVars, ghostVars, TypeOK, RunsOK, ManagerOK,
     ThreadsOK, Created
<1> QED
  BY <1>1, <1>2, <1>3, <1>4, <1>5, <1>6, <1>7 DEF Next

\* The manager is well typed for ever: every Run that the manager, the store or
\* a goroutine of runs.go, drain.go and steps.go refers to exists.
THEOREM TypeCorrect == Spec => []TypeOK
  BY TypeInit, TypeNext, PTL DEF Spec

-----------------------------------------------------------------------------
\* A request that holds a lease is outside every call.
LeasesRest == \A t \in Clients : lease[t] # NoRun => th[t].pc = "idle"

\* InflightExact, for the Runs to come too.
CountsHolders == \A r \in Runs : inflight[r] = Cardinality(Holders(r))

\* A current run is the run of its agent.
AgentsOwn == \A a \in Agents : current[a] # NoRun => agentOf[current[a]] = a

\* A run that is being finished is not current, until Shutdown.
ClaimsIdle == ~shuttingDown => \A a \in Agents : current[a] \notin finishing

\* A Shutdown that waits for the worker has set shuttingDown.
ShutdownBegun == \A t \in Threads : th[t].pc = "sdwait" => shuttingDown

LeaseInv ==
  /\ LeasesRest /\ CountsHolders /\ AgentsOwn /\ ClaimsIdle /\ ShutdownBegun
  /\ NoFinishUnderLease

\* How control moves: a goroutine that moves holds no lease or ends up outside
\* every call, and waits for the worker only in a Shutdown.
Moved ==
  \A q \in Threads :
    \/ th'[q] = th[q] /\ (q \in Clients => lease'[q] \in {lease[q], NoRun})
    \/ /\ q \in Clients => lease'[q] = NoRun \/ th'[q].pc = "idle"
       /\ th'[q].pc = "sdwait" => shuttingDown'

leaseVars == <<agentOf, inflight, finishing, current, shuttingDown, lease>>

---------------------------------------------------------------------------
\* Moving on keeps the two facts about control.
LEMMA MovedKeeps ==
  ASSUME LeaseInv, Moved, shuttingDown => shuttingDown'
  PROVE  LeasesRest' /\ ShutdownBegun'
<1>1. LeasesRest'
  BY DEF LeaseInv, LeasesRest, Moved, Threads, Procs
<1>2. ShutdownBegun'
  BY DEF LeaseInv, ShutdownBegun, Moved
<1> QED
  BY <1>1, <1>2

\* A step that touches none of the variables of leases.
LEMMA QuietKeeps ==
  ASSUME TypeOK, LeaseInv, Moved, UNCHANGED leaseVars
  PROVE  LeaseInv'
<1>1. LeasesRest' /\ ShutdownBegun'
  BY MovedKeeps DEF leaseVars
<1>2. CountsHolders' /\ AgentsOwn' /\ ClaimsIdle'
  BY DEF LeaseInv, CountsHolders, Holders, AgentsOwn, ClaimsIdle, leaseVars
<1>3. NoFinishUnderLease'
  BY DEF LeaseInv, NoFinishUnderLease, leaseVars, TypeOK, ManagerOK
<1> QED
  BY <1>1, <1>2, <1>3 DEF LeaseInv

\* Where a goroutine that returns from rotate or from a FINISH attempt goes.
LEMMA ReturnPc ==
  ASSUME NEW s, NEW n \in Nat, ThreadOK(n, s), NEW r
  PROVE  /\ Done(s).pc # "sdwait" /\ Failed(s).pc # "sdwait"
         /\ Retire(s, r).pc # "sdwait"
<1>0. s \in ThreadState
  BY DEF ThreadOK
<1>1. Done(s).pc \in {"lease", "loop", "next", "idle"}
  <2>1. CASE s.op = "acquire"
    BY <1>0, <2>1 DEF Done, ThreadState
  <2>2. CASE s.op = "worker"
    BY <2>2 DEF Done, Call
  <2>3. CASE s.op \in {"maintain", "finishall", "shutdown"}
    BY <1>0, <2>3 DEF Done, ThreadState
  <2>4. CASE s.op \notin {"acquire", "worker", "maintain", "finishall", "shutdown"}
    BY <2>4 DEF Done, IdleThread, Call
  <2> QED
    BY <2>1, <2>2, <2>3, <2>4
<1>2. Failed(s).pc \in {"lease", "loop", "next", "idle"}
  BY <1>1 DEF Failed, IdleThread, Call
<1>3. Retire(s, r).pc \in {"lease", "loop", "next", "idle", "enqueue"}
  BY <1>0, <1>1 DEF Retire, ThreadState
<1> QED
  BY <1>1, <1>2, <1>3

\* One goroutine moves.
LEMMA GotoMoved ==
  ASSUME TypeOK, LeaseInv, UNCHANGED lease, NEW t \in Threads, NEW s, Goto(t, s),
         s.pc = "sdwait" => shuttingDown',
         th[t].pc # "idle" \/ t \in Keepers \/ (t \in Clients => lease[t] = NoRun)
  PROVE  Moved
<1>1. th \in [Threads -> ThreadState]
  BY DEF TypeOK, ThreadsOK
<1>2. t \in Clients => lease[t] = NoRun
  BY ConstantsAssumption DEF ConstantsAssumption, LeaseInv, LeasesRest
<1> QED
  BY <1>1, <1>2 DEF Moved, Goto

\* A leader moves and its waiters are woken.
LEMMA FlightMoved ==
  ASSUME TypeOK, LeaseInv, UNCHANGED lease, NEW t \in Threads, NEW a, NEW s, NEW woken,
         CloseFlight(t, a, s, woken), s.pc # "sdwait", th[t].pc # "idle",
         \A q \in Threads : th[q].pc = "wait" => woken[q].pc # "sdwait"
  PROVE  Moved
<1>1. \A q \in Threads :
         th'[q] = IF q = t THEN s
                  ELSE IF th[q].pc = "wait" /\ th[q].agent = a THEN woken[q]
                  ELSE th[q]
  BY DEF CloseFlight
<1>2. \A q \in Clients : th[q].pc # "idle" => lease[q] = NoRun
  BY DEF LeaseInv, LeasesRest
<1> QED
  BY <1>1, <1>2 DEF Moved

\* What waiters of a flight do next.
LEMMA WokenPc ==
  ASSUME TypeOK
  PROVE  \A q \in Threads : /\ AllDone[q].pc # "sdwait" /\ AllFailed[q].pc # "sdwait"
                            /\ AllRetry[q].pc # "sdwait"
<1>1. \A q \in Threads : ThreadOK(nrun, th[q]) /\ th[q] \in ThreadState
  BY DEF TypeOK, ThreadsOK, ThreadOK
<1>2. nrun \in Nat
  BY NrunNat
<1>3. \A q \in Threads : Done(th[q]).pc # "sdwait" /\ Failed(th[q]).pc # "sdwait"
  BY <1>1, <1>2, ReturnPc
<1>4. \A q \in Threads : [th[q] EXCEPT !.pc = "rotate"].pc = "rotate"
  BY <1>1 DEF ThreadState
<1> QED
  BY <1>3, <1>4 DEF AllDone, AllFailed, AllRetry

\* Facts every step starts from.
LEMMA Basics ==
  ASSUME TypeOK
  PROVE  /\ nrun \in Nat /\ Created = 1..nrun /\ Created \subseteq Runs
         /\ finishing \subseteq Created /\ NoRun \notin Created
         /\ current \in [Agents -> Created \cup {NoRun}]
         /\ lease \in [Clients -> Created \cup {NoRun}]
         /\ inflight \in [Runs -> Nat]
         /\ \A t \in Threads : ThreadOK(nrun, th[t]) /\ th[t] \in ThreadState
<1>1. nrun \in Nat /\ Created = 1..nrun /\ Created \subseteq Runs /\ NoRun \notin Created
  BY NrunNat DEF Created, Runs, NoRun
<1>2. /\ finishing \subseteq Created
      /\ current \in [Agents -> Created \cup {NoRun}]
      /\ lease \in [Clients -> Created \cup {NoRun}]
  BY DEF TypeOK, ManagerOK
<1>3. inflight \in [Runs -> Nat]
  BY DEF TypeOK, RunsOK
<1>4. \A t \in Threads : ThreadOK(nrun, th[t]) /\ th[t] \in ThreadState
  BY DEF TypeOK, ThreadsOK
<1> QED
  BY <1>1, <1>2, <1>3, <1>4

---------------------------------------------------------------------------
(* The counters.                                                           *)

\* The requests that hold a run are finitely many.
LEMMA HoldersFinite == \A r : IsFiniteSet(Holders(r)) /\ Cardinality(Holders(r)) \in Nat
<1>1. IsFiniteSet(Clients)
  BY ConstantsAssumption DEF ConstantsAssumption
<1> TAKE r
<1>2. Holders(r) \subseteq Clients
  BY DEF Holders
<1>3. IsFiniteSet(Holders(r))
  BY <1>1, <1>2, FS_Subset
<1> QED
  BY <1>3, FS_CardinalityType

\* A request that takes a lease is one holder more.
LEMMA TakeLease ==
  ASSUME TypeOK, CountsHolders, NEW t \in Clients, NEW r \in Runs, lease[t] = NoRun,
         inflight' = [inflight EXCEPT ![r] = @ + 1],
         lease' = [lease EXCEPT ![t] = r]
  PROVE  CountsHolders'
<1>1. lease \in [Clients -> Created \cup {NoRun}] /\ inflight \in [Runs -> Nat]
      /\ NoRun \notin Runs
  BY Basics DEF Runs, NoRun
<1>2. Holders(r)' = Holders(r) \cup {t} /\ t \notin Holders(r)
  BY <1>1 DEF Holders
<1>3. Cardinality(Holders(r)') = Cardinality(Holders(r)) + 1
  BY <1>2, HoldersFinite, FS_AddElement
<1>4. \A s \in Runs \ {r} : Holders(s)' = Holders(s)
  BY <1>1 DEF Holders
<1>5. \A s \in Runs : inflight'[s] = Cardinality(Holders(s)')
  BY <1>1, <1>3, <1>4 DEF CountsHolders
<1> QED
  BY <1>5 DEF CountsHolders

\* A request that returns its lease is one holder less.
LEMMA ReturnCounts ==
  ASSUME TypeOK, LeaseInv, NEW t \in Clients, ReturnLease(t)
  PROVE  /\ CountsHolders'
         /\ lease[t] \in Created /\ lease'[t] = NoRun
         /\ \A q \in Clients \ {t} : lease'[q] = lease[q]
         /\ \A r \in Runs : inflight[r] = 0 => inflight'[r] = 0
<1>0. /\ lease \in [Clients -> Created \cup {NoRun}] /\ inflight \in [Runs -> Nat]
      /\ NoRun \notin Runs /\ Created \subseteq Runs /\ lease[t] # NoRun
  BY Basics DEF Runs, NoRun, ReturnLease
<1>1. PICK r \in Created : r = lease[t]
  BY <1>0
<1>2. /\ lease' = [lease EXCEPT ![t] = NoRun]
      /\ inflight' = [inflight EXCEPT ![r] = IF @ > 0 THEN @ - 1 ELSE @]
  BY <1>1 DEF ReturnLease
<1>3. Holders(r)' = Holders(r) \ {t} /\ t \in Holders(r)
  BY <1>0, <1>1, <1>2 DEF Holders
<1>4. Cardinality(Holders(r)') = Cardinality(Holders(r)) - 1
  BY <1>3, HoldersFinite, FS_RemoveElement
<1>5. Cardinality(Holders(r)') \in Nat
  <2>1. IsFiniteSet(Holders(r)')
    BY <1>3, HoldersFinite, FS_RemoveElement
  <2> QED
    BY <2>1, FS_CardinalityType
<1>6. inflight[r] = Cardinality(Holders(r)) /\ inflight[r] \in Nat
  BY <1>0 DEF LeaseInv, CountsHolders
<1>7. inflight'[r] = Cardinality(Holders(r)')
  BY <1>0, <1>2, <1>4, <1>5, <1>6
<1>8. \A s \in Runs \ {r} : Holders(s)' = Holders(s) /\ inflight'[s] = inflight[s]
  BY <1>0, <1>1, <1>2 DEF Holders
<1>9. \A s \in Runs : inflight'[s] = Cardinality(Holders(s)')
  <2>1. \A s \in Runs : inflight[s] = Cardinality(Holders(s))
    BY DEF LeaseInv, CountsHolders
  <2> QED
    BY <1>7, <1>8, <2>1
<1>10. \A s \in Runs : inflight[s] = 0 => inflight'[s] = 0
  BY <1>0, <1>2
<1>11. r \in Created /\ lease'[t] = NoRun /\ \A q \in Clients \ {t} : lease'[q] = lease[q]
  BY <1>0, <1>2
<1> QED
  BY <1>1, <1>9, <1>10, <1>11 DEF CountsHolders

---------------------------------------------------------------------------
(* Requests.                                                               *)

\* Acquire, the releases, MarkFailed and Invalidate keep the invariant.
LEMMA LeaseRequest ==
  ASSUME TypeOK, LeaseInv, NEW t \in Clients, Request(t)
  PROVE  LeaseInv'
<1>1. /\ t \in Threads /\ nrun \in Nat /\ Created = 1..nrun /\ Created \subseteq Runs
      /\ finishing \subseteq Created /\ NoRun \notin Created
      /\ current \in [Agents -> Created \cup {NoRun}]
      /\ lease \in [Clients -> Created \cup {NoRun}]
      /\ inflight \in [Runs -> Nat] /\ th[t] \in ThreadState
      /\ IdleThread.pc = "idle"
      /\ \A r : /\ Done(th[t]).pc # "sdwait" /\ Failed(th[t]).pc # "sdwait"
               /\ Retire(th[t], r).pc # "sdwait"
  BY Basics, ReturnPc DEF Threads, Procs, IdleThread, Call
<1>2. ASSUME NEW a \in Agents, CallAcquire(t, a) PROVE LeaseInv'
  <2>1. UNCHANGED leaseVars /\ lease[t] = NoRun
    BY <1>2 DEF CallAcquire, leaseVars, managerVars, outsideVars, ghostVars
  <2>2. Moved
    <3>1. PICK s : Goto(t, s) /\ s.pc # "sdwait"
      BY <1>2 DEF CallAcquire, Call
    <3> QED
      BY <1>1, <2>1, <3>1, GotoMoved DEF leaseVars
  <2> QED
    BY <2>1, <2>2, QuietKeeps
<1>3. CASE AcquireCheck(t)
  <2>1. UNCHANGED leaseVars
    BY <1>3 DEF AcquireCheck, leaseVars, managerVars, outsideVars, ghostVars
  <2>2. Moved
    <3>1. PICK s : Goto(t, s) /\ s.pc # "sdwait"
      BY <1>1, <1>3 DEF AcquireCheck, ThreadState
    <3> QED
      BY <1>1, <1>3, <2>1, <3>1, GotoMoved DEF AcquireCheck, At, leaseVars
  <2> QED
    BY <1>3, <2>1, <2>2, QuietKeeps
<1>4. CASE LeaseRun(t) /\ current[th[t].agent] = NoRun
  <2>1. UNCHANGED leaseVars
    BY <1>4 DEF LeaseRun, leaseVars, managerVars, outsideVars, ghostVars
  <2>2. Moved
    <3>1. PICK s : Goto(t, s) /\ s.pc # "sdwait"
      BY <1>1, <1>4 DEF LeaseRun, ThreadState
    <3> QED
      BY <1>1, <1>4, <2>1, <3>1, GotoMoved DEF LeaseRun, At, leaseVars
  <2> QED
    BY <2>1, <2>2, QuietKeeps
<1>5. CASE LeaseRun(t) /\ current[th[t].agent] # NoRun
  <2>1. PICK r : r = current[th[t].agent]
    OBVIOUS
  <2>2. th[t].agent \in Agents
    <3>1. ThreadOK(nrun, th[t])
      BY <1>1, Basics
    <3> QED
      BY <1>5, <3>1 DEF LeaseRun, At, ThreadOK, ThreadState
  <2>3. r \in Created /\ r \in Runs
    BY <1>1, <1>5, <2>1, <2>2
  <2>4. /\ inflight' = [inflight EXCEPT ![r] = @ + 1]
        /\ lease' = [lease EXCEPT ![t] = r]
        /\ Goto(t, IdleThread)
        /\ UNCHANGED <<nrun, agentOf, finishing, current, shuttingDown>>
    BY <1>5, <2>1 DEF LeaseRun
  <2>5. lease[t] = NoRun
    BY <1>5 DEF LeaseRun, At, LeaseInv, LeasesRest
  <2>6. CountsHolders'
    BY <2>3, <2>4, <2>5, TakeLease DEF LeaseInv
  <2>7. Moved
    <3>1. th'[t].pc = "idle" /\ \A q \in Threads \ {t} : th'[q] = th[q]
      BY <1>1, <2>4 DEF Goto, TypeOK, ThreadsOK
    <3>2. \A q \in Clients \ {t} : lease'[q] = lease[q]
      BY <1>1, <2>4
    <3> QED
      BY <3>1, <3>2 DEF Moved
  <2>8. LeasesRest' /\ ShutdownBegun'
    BY <2>4, <2>7, MovedKeeps
  <2>9. AgentsOwn' /\ ClaimsIdle'
    BY <2>4 DEF LeaseInv, AgentsOwn, ClaimsIdle
  <2>10. NoFinishUnderLease'
    <3>1. ~shuttingDown => r \notin finishing
      BY <2>1, <2>2 DEF LeaseInv, ClaimsIdle
    <3>2. \A x \in Created \ {r} : inflight'[x] = inflight[x]
      BY <1>1, <2>4
    <3> QED
      BY <1>1, <2>4, <3>1, <3>2 DEF LeaseInv, NoFinishUnderLease, Created
  <2> QED
    BY <2>6, <2>8, <2>9, <2>10 DEF LeaseInv
<1>6. ASSUME ReturnLease(t), UNCHANGED <<nrun, agentOf, finishing, shuttingDown>>,
             \A a \in Agents : current'[a] \in {current[a], NoRun},
             NEW s, UNCHANGED th \/ Goto(t, s), s.pc = "enqueue"
      PROVE  LeaseInv'
  <2>1. /\ CountsHolders' /\ lease'[t] = NoRun
        /\ \A q \in Clients \ {t} : lease'[q] = lease[q]
        /\ \A r \in Runs : inflight[r] = 0 => inflight'[r] = 0
    BY <1>6, ReturnCounts
  <2>2. Moved
    <3>1. \A q \in Threads \ {t} : th'[q] = th[q]
      BY <1>6 DEF Goto, TypeOK, ThreadsOK
    <3>2. th'[t] = th[t] \/ th'[t].pc = "enqueue"
      BY <1>1, <1>6 DEF Goto, TypeOK, ThreadsOK
    <3> QED
      BY <2>1, <3>1, <3>2 DEF Moved
  <2>3. LeasesRest' /\ ShutdownBegun'
    BY <1>6, <2>2, MovedKeeps
  <2>4. AgentsOwn'
    BY <1>6 DEF LeaseInv, AgentsOwn
  <2>5. ClaimsIdle'
    BY <1>1, <1>6 DEF LeaseInv, ClaimsIdle
  <2>6. NoFinishUnderLease'
    BY <1>1, <1>6, <2>1 DEF LeaseInv, NoFinishUnderLease, Created
  <2> QED
    BY <2>1, <2>3, <2>4, <2>5, <2>6 DEF LeaseInv
<1>7. \A r : [Call("enqueue", "release", NoAgent) EXCEPT !.held = r].pc = "enqueue"
  BY DEF Call
<1>8. \A r, a : a \in Agents => DropCurrent(r)[a] \in {current[a], NoRun}
  BY DEF DropCurrent
<1>9. CASE Release(t)
  <2>1. PICK s : (UNCHANGED th \/ Goto(t, s)) /\ s.pc = "enqueue"
    BY <1>7, <1>9 DEF Release
  <2>2. \A a \in Agents : current'[a] \in {current[a], NoRun}
    BY <1>8, <1>9 DEF Release
  <2> QED
    BY <1>6, <1>9, <2>1, <2>2 DEF Release
<1>10. CASE ReleaseAbandoned(t)
  <2>1. PICK s : (UNCHANGED th \/ Goto(t, s)) /\ s.pc = "enqueue"
    BY <1>7, <1>10 DEF ReleaseAbandoned
  <2>2. \A a \in Agents : current'[a] \in {current[a], NoRun}
    BY <1>8, <1>10 DEF ReleaseAbandoned
  <2> QED
    BY <1>6, <1>10, <2>1, <2>2 DEF ReleaseAbandoned
<1>11. CASE MarkFailed(t)
  <2>1. UNCHANGED leaseVars /\ UNCHANGED th
    BY <1>11 DEF MarkFailed, leaseVars, managerVars, outsideVars, ghostVars
  <2>2. Moved
    BY <2>1 DEF Moved, leaseVars
  <2> QED
    BY <2>1, <2>2, QuietKeeps
<1>12. CASE Invalidate(t)
  <2>1. /\ UNCHANGED <<nrun, agentOf, inflight, finishing, shuttingDown, th, lease>>
        /\ \A a \in Agents : current'[a] \in {current[a], NoRun}
    BY <1>1, <1>12 DEF Invalidate
  <2>2. Moved
    BY <2>1 DEF Moved
  <2>3. LeasesRest' /\ ShutdownBegun'
    BY <2>1, <2>2, MovedKeeps
  <2>4. CountsHolders' /\ AgentsOwn'
    BY <2>1 DEF LeaseInv, CountsHolders, Holders, AgentsOwn
  <2>5. ClaimsIdle' /\ NoFinishUnderLease'
    BY <1>1, <2>1 DEF LeaseInv, ClaimsIdle, NoFinishUnderLease, Created
  <2> QED
    BY <2>3, <2>4, <2>5 DEF LeaseInv
<1> QED
  BY <1>2, <1>3, <1>4, <1>5, <1>9, <1>10, <1>11, <1>12 DEF Request

---------------------------------------------------------------------------
\* The point an updated control state is at.
LEMMA PcOf ==
  ASSUME NEW s \in ThreadState
  PROVE  /\ \A p : [s EXCEPT !.pc = p].pc = p
         /\ \A p, f : [s EXCEPT !.pc = p, !.fresh = f].pc = p
         /\ \A p, h : [s EXCEPT !.pc = p, !.held = h].pc = p
         /\ \A p, h, j : [s EXCEPT !.pc = p, !.held = h, !.jobs = j].pc = p
         /\ \A p, j : [s EXCEPT !.pc = p, !.jobs = j].pc = p
         /\ \A p, j, v : [s EXCEPT !.pc = p, !.jobs = j, !.saves = v].pc = p
         /\ \A p, a, o : [s EXCEPT !.pc = p, !.agent = a, !.rot = o].pc = p
         /\ \A v : [s EXCEPT !.saves = v].pc = s.pc
         /\ \A f, h : [s EXCEPT !.pc = "persist", !.fresh = f, !.held = h].pc = "persist"
  BY DEF ThreadState

---------------------------------------------------------------------------
(* Rotation.                                                               *)

\* The steps of rotate keep the invariant.
LEMMA LeaseRotation ==
  ASSUME TypeOK, LeaseInv, NEW t \in Procs, Rotation(t)
  PROVE  LeaseInv'
<1>1. /\ t \in Threads /\ nrun \in Nat /\ Created = 1..nrun /\ Created \subseteq Runs
      /\ finishing \subseteq Created /\ NoRun \notin Created
      /\ current \in [Agents -> Created \cup {NoRun}]
      /\ lease \in [Clients -> Created \cup {NoRun}]
      /\ inflight \in [Runs -> Nat] /\ th[t] \in ThreadState
      /\ IdleThread.pc = "idle"
      /\ \A r : /\ Done(th[t]).pc # "sdwait" /\ Failed(th[t]).pc # "sdwait"
               /\ Retire(th[t], r).pc # "sdwait"
  BY Basics, ReturnPc DEF Threads, Procs, IdleThread, Call
<1>2. CASE RotateCheck(t)
  <2>1. UNCHANGED leaseVars
    BY <1>2 DEF RotateCheck, leaseVars, managerVars, outsideVars, ghostVars
  <2>2. Moved
    <3>1. \A p : [th[t] EXCEPT !.pc = p].pc = p
      BY <1>1, PcOf
    <3>2. \E p : p # "sdwait" /\ (\/ Goto(t, Failed(th[t])) \/ Goto(t, Done(th[t]))
                                  \/ Goto(t, [th[t] EXCEPT !.pc = p]))
      <4>1. "wait" # "sdwait" /\ (IF HasStore THEN "load" ELSE "start") # "sdwait"
        OBVIOUS
      <4> QED
        BY <1>2, <4>1 DEF RotateCheck
    <3>3. PICK s : Goto(t, s) /\ s.pc # "sdwait"
      BY <1>1, <3>1, <3>2
    <3> QED
      BY <1>1, <1>2, <2>1, <3>3, GotoMoved DEF RotateCheck, At, leaseVars
  <2> QED
    BY <1>2, <2>1, <2>2, QuietKeeps
<1>3. CASE LoadRun(t)
  <2>1. UNCHANGED leaseVars
    BY <1>3 DEF LoadRun, leaseVars, managerVars, outsideVars, ghostVars
  <2>2. Moved
    <3>1. \A p, f : [th[t] EXCEPT !.pc = p, !.fresh = f].pc = p
      BY <1>1, PcOf
    <3>2. PICK p, f : p # "sdwait" /\ Goto(t, [th[t] EXCEPT !.pc = p, !.fresh = f])
      <4>1. \A x : (IF x = NoRun THEN "start" ELSE IF x \in aged THEN "stale"
                    ELSE "resume") # "sdwait"
        OBVIOUS
      <4> QED
        BY <1>3, <4>1 DEF LoadRun
    <3>3. PICK s : Goto(t, s) /\ s.pc # "sdwait"
      BY <3>1, <3>2
    <3> QED
      BY <1>1, <1>3, <2>1, <3>3, GotoMoved DEF LoadRun, At, leaseVars
  <2> QED
    BY <1>3, <2>1, <2>2, QuietKeeps
<1>4. CASE DropStaleRecord(t)
  <2>1. UNCHANGED leaseVars
    BY <1>4 DEF DropStaleRecord, leaseVars, managerVars, outsideVars, ghostVars
  <2>2. Moved
    <3>1. PICK s : Goto(t, s) /\ s.pc # "sdwait"
      BY <1>1, <1>4 DEF DropStaleRecord, ThreadState
    <3> QED
      BY <1>1, <1>4, <2>1, <3>1, GotoMoved DEF DropStaleRecord, At, leaseVars
  <2> QED
    BY <1>4, <2>1, <2>2, QuietKeeps
<1>5. \A q \in Threads : /\ AllDone[q].pc # "sdwait" /\ AllFailed[q].pc # "sdwait"
                         /\ AllRetry[q].pc # "sdwait"
  BY WokenPc
<1>6. CASE StartRunFailed(t)
  <2>1. UNCHANGED leaseVars
    BY <1>6 DEF StartRunFailed, leaseVars, managerVars, outsideVars, ghostVars
  <2>2. Moved
    BY <1>1, <1>5, <1>6, <2>1, FlightMoved DEF StartRunFailed, At, leaseVars
  <2> QED
    BY <2>1, <2>2, QuietKeeps
<1>7. ASSUME NEW a \in Agents, NEW n, n = nrun + 1, Moved,
             agentOf' = [agentOf EXCEPT ![n] = a], n \in Runs,
             current' = [current EXCEPT ![a] = n] \/ UNCHANGED current,
             UNCHANGED <<inflight, finishing, shuttingDown, lease>>
      PROVE  LeaseInv'
  <2>1. LeasesRest' /\ ShutdownBegun'
    BY <1>7, MovedKeeps
  <2>2. CountsHolders'
    BY <1>7 DEF LeaseInv, CountsHolders, Holders
  <2>3. n \notin Created
    BY <1>1, <1>7
  <2>4. AgentsOwn'
    <3>1. agentOf \in [Runs -> Agents \cup {NoAgent}]
      BY DEF TypeOK, RunsOK
    <3>2. \A r \in Created : agentOf'[r] = agentOf[r]
      BY <1>1, <1>7, <2>3, <3>1
    <3>3. agentOf'[n] = a
      BY <1>7, <3>1
    <3> QED
      BY <1>1, <1>7, <3>2, <3>3 DEF LeaseInv, AgentsOwn
  <2>5. ClaimsIdle'
    BY <1>1, <1>7, <2>3 DEF LeaseInv, ClaimsIdle
  <2>6. NoFinishUnderLease'
    BY <1>1, <1>7 DEF LeaseInv, NoFinishUnderLease
  <2> QED
    BY <2>1, <2>2, <2>4, <2>5, <2>6 DEF LeaseInv
<1>8. MaxRuns \in Nat /\ (nrun + 1 <= MaxRuns => nrun + 1 \in Runs)
  BY <1>1, NrunNat DEF Runs
<1>9. th[t].pc \in {"resume", "start"} => th[t].agent \in Agents
  <2>1. ThreadOK(nrun, th[t])
    BY <1>1, Basics
  <2> QED
    BY <2>1 DEF ThreadOK, ThreadState
<1>10. CASE ResumeRun(t)
  <2>1. /\ th[t].pc = "resume" /\ th[t].agent \in Agents
        /\ UNCHANGED <<inflight, finishing, shuttingDown, lease>>
    BY <1>9, <1>10 DEF ResumeRun, At
  <2>2. Moved
    BY <1>1, <1>5, <1>10, <2>1, FlightMoved DEF ResumeRun
  <2>3. CASE shuttingDown
    <3>1. UNCHANGED leaseVars
      BY <1>10, <2>3 DEF ResumeRun, leaseVars
    <3> QED
      BY <2>2, <3>1, QuietKeeps
  <2>4. CASE ~shuttingDown
    <3>1. /\ nrun + 1 \in Runs
          /\ agentOf' = [agentOf EXCEPT ![nrun + 1] = th[t].agent]
          /\ current' = [current EXCEPT ![th[t].agent] = nrun + 1]
      BY <1>8, <1>10, <2>4 DEF ResumeRun, NewRun
    <3> QED
      BY <1>7, <2>1, <2>2, <3>1
  <2> QED
    BY <2>3, <2>4
<1>11. CASE StartRunOK(t)
  <2>1. /\ th[t].pc = "start" /\ th[t].agent \in Agents
        /\ UNCHANGED <<inflight, finishing, shuttingDown, lease>>
    BY <1>9, <1>11 DEF StartRunOK, At
  <2>2. Moved
    <3>1. /\ \A n : [th[t] EXCEPT !.pc = "discard", !.fresh = n].pc = "discard"
          /\ \A n, o : [th[t] EXCEPT !.pc = "persist", !.fresh = n, !.held = o].pc = "persist"
      BY <1>1, PcOf
    <3>2. PICK s : CloseFlight(t, th[t].agent, s, AllDone) /\ s.pc # "sdwait"
      <4>1. CASE CloseFlight(t, th[t].agent,
                   [th[t] EXCEPT !.pc = "discard", !.fresh = nrun + 1], AllDone)
        BY <3>1, <4>1
      <4>2. CASE CloseFlight(t, th[t].agent,
                   IF HasStore
                   THEN [th[t] EXCEPT !.pc = "persist", !.fresh = nrun + 1,
                                      !.held = current[th[t].agent]]
                   ELSE Retire(th[t], current[th[t].agent]), AllDone)
        <5>1. (IF HasStore
               THEN [th[t] EXCEPT !.pc = "persist", !.fresh = nrun + 1,
                                  !.held = current[th[t].agent]]
               ELSE Retire(th[t], current[th[t].agent])).pc # "sdwait"
          BY <1>1, <3>1
        <5> QED
          BY <4>2, <5>1
      <4> QED
        BY <1>11, <4>1, <4>2 DEF StartRunOK
    <3> QED
      BY <1>1, <1>5, <2>1, <3>2, FlightMoved
  <2>3. /\ nrun + 1 \in Runs
        /\ agentOf' = [agentOf EXCEPT ![nrun + 1] = th[t].agent]
        /\ \/ current' = [current EXCEPT ![th[t].agent] = nrun + 1]
           \/ UNCHANGED current
    BY <1>8, <1>11 DEF StartRunOK, NewRun
  <2> QED
    BY <1>7, <2>1, <2>2, <2>3
<1>12. CASE FinishInline(t)
  <2>1. UNCHANGED leaseVars
    BY <1>12 DEF FinishInline, leaseVars, managerVars, outsideVars, ghostVars
  <2>2. Moved
    <3>1. PICK s : Goto(t, s) /\ s.pc # "sdwait"
      BY <1>1, <1>12 DEF FinishInline
    <3> QED
      BY <1>1, <1>12, <2>1, <3>1, GotoMoved DEF FinishInline, At, leaseVars
  <2> QED
    BY <1>12, <2>1, <2>2, QuietKeeps
<1>13. CASE PersistRun(t)
  <2>1. UNCHANGED leaseVars
    BY <1>13 DEF PersistRun, leaseVars, managerVars, outsideVars, ghostVars
  <2>2. Moved
    <3>1. PICK s : Goto(t, s) /\ s.pc # "sdwait"
      BY <1>1, <1>13 DEF PersistRun
    <3> QED
      BY <1>1, <1>13, <2>1, <3>1, GotoMoved DEF PersistRun, At, leaseVars
  <2> QED
    BY <1>13, <2>1, <2>2, QuietKeeps
<1> QED
  BY <1>2, <1>3, <1>4, <1>6, <1>10, <1>11, <1>12, <1>13 DEF Rotation

---------------------------------------------------------------------------
(* The FINISH of a run.                                                    *)

\* The steps of finishIfReadyCtx and of Shutdown's FINISHes keep it.
LEMMA LeaseFinish ==
  ASSUME TypeOK, LeaseInv, NEW t \in Threads, Finish(t)
  PROVE  LeaseInv'
<1>1. /\ t \in Threads /\ nrun \in Nat /\ Created = 1..nrun /\ Created \subseteq Runs
      /\ finishing \subseteq Created /\ NoRun \notin Created
      /\ current \in [Agents -> Created \cup {NoRun}]
      /\ lease \in [Clients -> Created \cup {NoRun}]
      /\ inflight \in [Runs -> Nat] /\ th[t] \in ThreadState
      /\ IdleThread.pc = "idle"
      /\ \A r : /\ Done(th[t]).pc # "sdwait" /\ Failed(th[t]).pc # "sdwait"
               /\ Retire(th[t], r).pc # "sdwait"
  BY Basics, ReturnPc DEF Threads, Procs, IdleThread, Call
<1>2. CASE FinishClaim(t)
  <2>1. PICK r : r = th[t].held
    OBVIOUS
  <2>3. r \in Created
    <3>1. ThreadOK(nrun, th[t])
      BY <1>1, Basics
    <3> QED
      BY <1>1, <1>2, <2>1, <3>1 DEF FinishClaim, At, ThreadOK
  <2>4. inflight[r] \in Nat
    BY <1>1, <2>3
  <2>2. /\ UNCHANGED <<nrun, agentOf, inflight, current, shuttingDown, lease>>
        /\ finishing' \subseteq finishing \cup {r}
        /\ r \in finishing' /\ r \notin finishing => inflight[r] = 0 /\ current[agentOf[r]] # r
    BY <1>1, <1>2, <2>1, <2>3, <2>4 DEF FinishClaim, FinishBusy
  <2>5. Moved
    <3>1. PICK s : Goto(t, s) /\ s.pc # "sdwait"
      BY <1>1, <1>2 DEF FinishClaim, ThreadState
    <3> QED
      BY <1>1, <1>2, <2>2, <3>1, GotoMoved DEF FinishClaim, At
  <2>6. LeasesRest' /\ ShutdownBegun'
    BY <2>2, <2>5, MovedKeeps
  <2>7. CountsHolders' /\ AgentsOwn'
    BY <2>2 DEF LeaseInv, CountsHolders, Holders, AgentsOwn
  <2>8. ClaimsIdle'
    <3> SUFFICES ASSUME ~shuttingDown, NEW a \in Agents, current[a] \in finishing' PROVE FALSE
      BY <2>2 DEF ClaimsIdle
    <3>1. current[a] \notin finishing
      BY DEF LeaseInv, ClaimsIdle
    <3>2. current[a] = r /\ r # NoRun
      BY <1>1, <2>2, <2>3, <3>1
    <3>3. agentOf[r] = a
      BY <3>2 DEF LeaseInv, AgentsOwn
    <3> QED
      BY <2>2, <3>1, <3>2, <3>3
  <2>9. NoFinishUnderLease'
    BY <2>2 DEF LeaseInv, NoFinishUnderLease, Created
  <2> QED
    BY <2>6, <2>7, <2>8, <2>9 DEF LeaseInv
<1>3. CASE RemoveRun(t)
  <2>1. UNCHANGED leaseVars
    BY <1>3 DEF RemoveRun, leaseVars, managerVars, outsideVars, ghostVars
  <2>2. Moved
    <3>1. PICK s : Goto(t, s) /\ s.pc # "sdwait"
      BY <1>1, <1>3 DEF RemoveRun, ThreadState
    <3> QED
      BY <1>1, <1>3, <2>1, <3>1, GotoMoved DEF RemoveRun, At, leaseVars
  <2> QED
    BY <1>3, <2>1, <2>2, QuietKeeps
<1>4. CASE SendFinish(t)
  <2>1. UNCHANGED leaseVars
    BY <1>4 DEF SendFinish, leaseVars, managerVars, outsideVars, ghostVars
  <2>2. Moved
    <3>1. PICK s : Goto(t, s) /\ s.pc # "sdwait"
      BY <1>1, <1>4 DEF SendFinish, ThreadState
    <3> QED
      BY <1>1, <1>4, <2>1, <3>1, GotoMoved DEF SendFinish, At, leaseVars
  <2> QED
    BY <1>4, <2>1, <2>2, QuietKeeps
<1>5. CASE FinishOK(t)
  <2>1. UNCHANGED leaseVars
    BY <1>5 DEF FinishOK, leaseVars, managerVars, outsideVars, ghostVars
  <2>2. Moved
    <3>1. PICK s : Goto(t, s) /\ s.pc # "sdwait"
      BY <1>1, <1>5 DEF FinishOK
    <3> QED
      BY <1>1, <1>5, <2>1, <3>1, GotoMoved DEF FinishOK, At, leaseVars
  <2> QED
    BY <1>5, <2>1, <2>2, QuietKeeps
<1>6. CASE FinishErr(t)
  <2>1. /\ UNCHANGED <<nrun, agentOf, inflight, current, shuttingDown, lease>>
        /\ finishing' \subseteq finishing
    BY <1>6 DEF FinishErr
  <2>2. Moved
    <3>1. PICK s : Goto(t, s) /\ s.pc # "sdwait"
      BY <1>1, <1>6 DEF FinishErr
    <3> QED
      BY <1>1, <1>6, <2>1, <3>1, GotoMoved DEF FinishErr, At
  <2>3. LeasesRest' /\ ShutdownBegun'
    BY <2>1, <2>2, MovedKeeps
  <2>4. CountsHolders' /\ AgentsOwn' /\ ClaimsIdle' /\ NoFinishUnderLease'
    BY <2>1 DEF LeaseInv, CountsHolders, Holders, AgentsOwn, ClaimsIdle,
                NoFinishUnderLease, Created
  <2> QED
    BY <2>3, <2>4 DEF LeaseInv
<1> QED
  BY <1>2, <1>3, <1>4, <1>5, <1>6 DEF Finish

---------------------------------------------------------------------------
(* The queue.                                                              *)

\* Ends of contexts and the FINISH queue keep it.
LEMMA LeaseQueue ==
  ASSUME TypeOK, LeaseInv, NEW t \in Procs, CtxDone(t) \/ EnqueueFinish(t) \/ Enqueue(t)
  PROVE  LeaseInv'
<1>1. /\ t \in Threads /\ nrun \in Nat /\ Created = 1..nrun /\ Created \subseteq Runs
      /\ finishing \subseteq Created /\ NoRun \notin Created
      /\ current \in [Agents -> Created \cup {NoRun}]
      /\ lease \in [Clients -> Created \cup {NoRun}]
      /\ inflight \in [Runs -> Nat] /\ th[t] \in ThreadState
      /\ IdleThread.pc = "idle"
      /\ \A r : /\ Done(th[t]).pc # "sdwait" /\ Failed(th[t]).pc # "sdwait"
               /\ Retire(th[t], r).pc # "sdwait"
  BY Basics, ReturnPc DEF Threads, Procs, IdleThread, Call
<1>2. CASE CtxDone(t)
  <2>1. UNCHANGED leaseVars
    BY <1>2 DEF CtxDone, leaseVars, managerVars, outsideVars, ghostVars
  <2>2. Moved
    <3>1. PICK s : Goto(t, s) /\ s.pc # "sdwait"
      BY <1>1, <1>2 DEF CtxDone
    <3> QED
      BY <1>1, <1>2, <2>1, <3>1, GotoMoved DEF CtxDone, At, leaseVars
  <2> QED
    BY <1>2, <2>1, <2>2, QuietKeeps
<1>3. CASE EnqueueFinish(t)
  <2>1. UNCHANGED leaseVars
    BY <1>3 DEF EnqueueFinish, leaseVars, managerVars, outsideVars, ghostVars
  <2>2. Moved
    <3>1. PICK s : Goto(t, s) /\ s.pc # "sdwait"
      BY <1>1, <1>3 DEF EnqueueFinish, ThreadState
    <3> QED
      BY <1>1, <1>3, <2>1, <3>1, GotoMoved DEF EnqueueFinish, At, leaseVars
  <2> QED
    BY <1>3, <2>1, <2>2, QuietKeeps
<1>4. CASE Enqueue(t)
  <2>1. UNCHANGED leaseVars
    BY <1>4 DEF Enqueue, leaseVars
  <2>2. Moved
    <3>0. t # Worker /\ Worker \in Threads /\ Worker \notin Clients
      BY ConstantsAssumption DEF ConstantsAssumption, Procs, Threads
    <3>1. Done(th[Worker]).pc # "sdwait"
      BY <3>0, Basics, ReturnPc
    <3>2. PICK s : /\ s.pc # "sdwait"
                   /\ th' = [th EXCEPT ![t] = s,
                                       ![Worker] = IF @.pc = "off" THEN Done(@) ELSE @]
      BY <1>1, <1>4 DEF Enqueue, ThreadState
    <3>3. th \in [Threads -> ThreadState]
      BY DEF TypeOK, ThreadsOK
    <3>4. /\ th'[t] = s /\ \A u \in Threads \ {t, Worker} : th'[u] = th[u]
          /\ th'[Worker] = th[Worker] \/ th'[Worker].pc # "sdwait"
      BY <1>1, <3>0, <3>1, <3>2, <3>3
    <3>5. t \in Clients => lease[t] = NoRun
      BY <1>4 DEF Enqueue, At, LeaseInv, LeasesRest
    <3> QED
      BY <2>1, <3>0, <3>2, <3>4, <3>5 DEF Moved, leaseVars
  <2> QED
    BY <2>1, <2>2, QuietKeeps
<1> QED
  BY <1>2, <1>3, <1>4

---------------------------------------------------------------------------
(* Background passes.                                                      *)

\* Precreate, Maintain, FinishAllRuns and Shutdown keep it.
LEMMA LeaseBackground ==
  ASSUME TypeOK, LeaseInv, NEW t \in Keepers, Background(t)
  PROVE  LeaseInv'
<1>1. /\ t \in Threads /\ nrun \in Nat /\ Created = 1..nrun /\ Created \subseteq Runs
      /\ finishing \subseteq Created /\ NoRun \notin Created
      /\ current \in [Agents -> Created \cup {NoRun}]
      /\ lease \in [Clients -> Created \cup {NoRun}]
      /\ inflight \in [Runs -> Nat] /\ th[t] \in ThreadState
      /\ IdleThread.pc = "idle"
      /\ \A r : /\ Done(th[t]).pc # "sdwait" /\ Failed(th[t]).pc # "sdwait"
               /\ Retire(th[t], r).pc # "sdwait"
  BY Basics, ReturnPc DEF Threads, Procs, IdleThread, Call
<1>2. t \notin Clients
  BY ConstantsAssumption DEF ConstantsAssumption
<1>3. ASSUME NEW a \in Agents, CallPrecreate(t, a) PROVE LeaseInv'
  <2>1. UNCHANGED leaseVars
    BY <1>3 DEF CallPrecreate, leaseVars, managerVars, outsideVars, ghostVars
  <2>2. Moved
    <3>1. PICK s : Goto(t, s) /\ s.pc # "sdwait"
      BY <1>3 DEF CallPrecreate, Call
    <3> QED
      BY <1>1, <2>1, <3>1, GotoMoved DEF leaseVars
  <2> QED
    BY <2>1, <2>2, QuietKeeps
<1>4. CASE Maintain(t)
  <2>1. UNCHANGED leaseVars
    BY <1>4 DEF Maintain, leaseVars, managerVars, outsideVars, ghostVars
  <2>2. Moved
    <3>1. \A j, o : [Call("next", "maintain", NoAgent) EXCEPT !.jobs = j, !.rot = o].pc = "next"
      BY DEF Call
    <3>2. PICK j, o : Goto(t, [Call("next", "maintain", NoAgent) EXCEPT !.jobs = j, !.rot = o])
      BY <1>4 DEF Maintain
    <3>3. PICK s : Goto(t, s) /\ s.pc # "sdwait"
      BY <3>1, <3>2
    <3> QED
      BY <1>1, <1>4, <2>1, <3>3, GotoMoved DEF Maintain, At, leaseVars
  <2> QED
    BY <1>4, <2>1, <2>2, QuietKeeps
<1>5. CASE LoopNext(t)
  <2>1. UNCHANGED leaseVars
    BY <1>5 DEF LoopNext, leaseVars, managerVars, outsideVars, ghostVars
  <2>2. Moved
    <3>1. /\ \A p, a, o : [th[t] EXCEPT !.pc = p, !.agent = a, !.rot = o].pc = p
          /\ \A p, h, j : [th[t] EXCEPT !.pc = p, !.held = h, !.jobs = j].pc = p
      BY <1>1, PcOf
    <3>2. \/ \E a, o : Goto(t, [th[t] EXCEPT !.pc = "rotate", !.agent = a, !.rot = o])
          \/ \E p, h, j : p # "sdwait" /\ Goto(t, [th[t] EXCEPT !.pc = p, !.held = h, !.jobs = j])
          \/ Goto(t, IdleThread)
      <4>1. (CASE th[t].op = "maintain" -> "enqueue"
               [] th[t].op = "finishall" -> "claim"
               [] OTHER -> "send") # "sdwait"
        OBVIOUS
      <4> QED
        BY <1>5, <4>1 DEF LoopNext
    <3>3. ASSUME NEW s, Goto(t, s), s.pc # "sdwait" PROVE Moved
      BY <1>1, <1>5, <2>1, <3>3, GotoMoved DEF LoopNext, At, leaseVars
    <3>4. ASSUME NEW a, NEW o, Goto(t, [th[t] EXCEPT !.pc = "rotate", !.agent = a, !.rot = o])
          PROVE  Moved
      <4>1. [th[t] EXCEPT !.pc = "rotate", !.agent = a, !.rot = o].pc = "rotate"
        BY <3>1
      <4> QED
        BY <3>3, <3>4, <4>1
    <3>5. ASSUME NEW q, NEW h, NEW j, q # "sdwait",
                 Goto(t, [th[t] EXCEPT !.pc = q, !.held = h, !.jobs = j])
          PROVE  Moved
      <4>1. [th[t] EXCEPT !.pc = q, !.held = h, !.jobs = j].pc = q
        BY <3>1
      <4> QED
        BY <3>3, <3>5, <4>1
    <3> QED
      BY <1>1, <3>2, <3>3, <3>4, <3>5
  <2> QED
    BY <1>5, <2>1, <2>2, QuietKeeps
<1>6. CASE ShutdownSave(t)
  <2>1. UNCHANGED leaseVars
    BY <1>6 DEF ShutdownSave, leaseVars, managerVars, outsideVars, ghostVars
  <2>2. Moved
    <3>1. /\ \A p : [th[t] EXCEPT !.pc = p].pc = p
          /\ \A v : [th[t] EXCEPT !.saves = v].pc = th[t].pc
          /\ th[t].pc = "sdsave"
      BY <1>1, <1>6, PcOf DEF ShutdownSave, At
    <3>2. \/ \E v : Goto(t, [th[t] EXCEPT !.saves = v])
          \/ Goto(t, [th[t] EXCEPT !.pc = "next"])
      BY <1>6 DEF ShutdownSave
    <3>3. PICK s : Goto(t, s) /\ s.pc # "sdwait"
      BY <3>1, <3>2
    <3> QED
      BY <1>1, <1>6, <2>1, <3>3, GotoMoved DEF ShutdownSave, At, leaseVars
  <2> QED
    BY <1>6, <2>1, <2>2, QuietKeeps
<1>7. ASSUME Moved, shuttingDown => shuttingDown',
             UNCHANGED <<nrun, agentOf, inflight, lease>>,
             \A a \in Agents : current'[a] \in {current[a], NoRun},
             shuttingDown' \/ finishing' = finishing
      PROVE  LeaseInv'
  <2>1. LeasesRest' /\ ShutdownBegun'
    BY <1>7, MovedKeeps
  <2>2. CountsHolders' /\ AgentsOwn'
    BY <1>7 DEF LeaseInv, CountsHolders, Holders, AgentsOwn
  <2>3. ClaimsIdle' /\ NoFinishUnderLease'
    BY <1>1, <1>7 DEF LeaseInv, ClaimsIdle, NoFinishUnderLease, Created
  <2> QED
    BY <2>1, <2>2, <2>3 DEF LeaseInv
<1>8. CASE FinishAllRuns(t)
  <2>1. /\ UNCHANGED <<nrun, agentOf, inflight, lease, shuttingDown, finishing>>
        /\ \A a \in Agents : current'[a] \in {current[a], NoRun}
    BY <1>8 DEF FinishAllRuns
  <2>2. Moved
    <3>1. PICK s : Goto(t, s) /\ s.pc # "sdwait"
      BY <1>8 DEF FinishAllRuns, Call
    <3> QED
      BY <1>1, <2>1, <3>1, GotoMoved
  <2> QED
    BY <1>7, <2>1, <2>2
<1>9. CASE Shutdown(t)
  <2>1. UNCHANGED <<nrun, agentOf, inflight, lease, current, finishing>> /\ shuttingDown'
    BY <1>9 DEF Shutdown
  <2>2. Moved
    <3>0. Worker \notin Clients
      BY ConstantsAssumption DEF ConstantsAssumption
    <3>1. th \in [Threads -> ThreadState]
      BY DEF TypeOK, ThreadsOK
    <3>2. \A u \in Threads \ {t, Worker} : th'[u] = th[u]
      BY <1>9, <3>1 DEF Shutdown
    <3> QED
      BY <1>2, <2>1, <3>0, <3>2 DEF Moved
  <2> QED
    BY <1>7, <2>1, <2>2
<1>10. CASE ShutdownClaim(t)
  <2>1. shuttingDown
    BY <1>1, <1>10 DEF ShutdownClaim, At, LeaseInv, ShutdownBegun
  <2>2. /\ UNCHANGED <<nrun, agentOf, inflight, lease, shuttingDown>>
        /\ \A a \in Agents : current'[a] \in {current[a], NoRun}
    BY <1>10 DEF ShutdownClaim
  <2>3. Moved
    <3>1. /\ \A p, j : [th[t] EXCEPT !.pc = p, !.jobs = j].pc = p
          /\ \A p, j, v : [th[t] EXCEPT !.pc = p, !.jobs = j, !.saves = v].pc = p
      BY <1>1, PcOf
    <3>2. \/ \E j, v : Goto(t, [th[t] EXCEPT !.pc = "sdsave", !.jobs = j, !.saves = v])
          \/ \E j : Goto(t, [th[t] EXCEPT !.pc = "next", !.jobs = j])
      BY <1>10 DEF ShutdownClaim
    <3>3. ASSUME NEW s, Goto(t, s), s.pc # "sdwait" PROVE Moved
      BY <1>1, <2>2, <3>3, GotoMoved
    <3>4. ASSUME NEW j, NEW v, Goto(t, [th[t] EXCEPT !.pc = "sdsave", !.jobs = j, !.saves = v])
          PROVE  Moved
      <4>1. [th[t] EXCEPT !.pc = "sdsave", !.jobs = j, !.saves = v].pc = "sdsave"
        BY <3>1
      <4> QED
        BY <3>3, <3>4, <4>1
    <3>5. ASSUME NEW j, Goto(t, [th[t] EXCEPT !.pc = "next", !.jobs = j]) PROVE Moved
      <4>1. [th[t] EXCEPT !.pc = "next", !.jobs = j].pc = "next"
        BY <3>1
      <4> QED
        BY <3>3, <3>5, <4>1
    <3> QED
      BY <3>2, <3>4, <3>5
  <2> QED
    BY <1>7, <2>1, <2>2, <2>3
<1> QED
  BY <1>3, <1>4, <1>5, <1>6, <1>8, <1>9, <1>10 DEF Background

\* The worker's own steps, time and a crash keep it.
LEMMA LeaseRest ==
  ASSUME TypeOK, LeaseInv, FinishLoopTake \/ FinishLoopExit \/ RunAges \/ Crash
  PROVE  LeaseInv'
<1>1. /\ Worker \in Threads /\ th[Worker] \in ThreadState
  BY Basics DEF Threads
<1>2. CASE FinishLoopTake
  <2>1. UNCHANGED leaseVars
    BY <1>2 DEF FinishLoopTake, leaseVars, managerVars, outsideVars, ghostVars
  <2>2. Moved
    <3>1. \A p, h : [th[Worker] EXCEPT !.pc = p, !.held = h].pc = p
      BY <1>1, PcOf
    <3>2. PICK s : Goto(Worker, s) /\ s.pc # "sdwait"
      <4>1. PICK h : Goto(Worker, [th[Worker] EXCEPT !.pc = "claim", !.held = h])
        BY <1>2 DEF FinishLoopTake
      <4>2. [th[Worker] EXCEPT !.pc = "claim", !.held = h].pc = "claim"
        BY <3>1
      <4> QED
        BY <4>1, <4>2
    <3> QED
      BY <1>1, <1>2, <2>1, <3>2, GotoMoved DEF FinishLoopTake, At, leaseVars
  <2> QED
    BY <2>1, <2>2, QuietKeeps
<1>3. CASE FinishLoopExit
  <2>1. UNCHANGED leaseVars
    BY <1>3 DEF FinishLoopExit, leaseVars, managerVars, outsideVars, ghostVars
  <2>2. Moved
    <3>1. PICK s : Goto(Worker, s) /\ s.pc # "sdwait"
      BY <1>3 DEF FinishLoopExit, Call
    <3> QED
      BY <1>1, <1>3, <2>1, <3>1, GotoMoved DEF FinishLoopExit, At, leaseVars
  <2> QED
    BY <2>1, <2>2, QuietKeeps
<1>4. CASE RunAges
  <2>1. UNCHANGED leaseVars /\ UNCHANGED th
    BY <1>4 DEF RunAges, leaseVars, managerVars, outsideVars, ghostVars
  <2>2. Moved
    BY <2>1 DEF Moved, leaseVars
  <2> QED
    BY <2>1, <2>2, QuietKeeps
<1>5. CASE Crash
  <2>1. /\ inflight' = [r \in Runs |-> 0] /\ finishing' = {}
        /\ current' = [a \in Agents |-> NoRun]
        /\ lease' = [t \in Clients |-> NoRun]
        /\ th' = [t \in Threads |-> IF t = Worker THEN OffWorker ELSE IdleThread]
    BY <1>5 DEF Crash, FreshManager
  <2>2. LeasesRest'
    BY <2>1 DEF LeasesRest
  <2>3. ShutdownBegun'
    BY <2>1 DEF ShutdownBegun, OffWorker, IdleThread, Call
  <2>4. CountsHolders'
    <3>1. \A r \in Runs : Holders(r)' = {}
      BY <2>1 DEF Holders, Runs, NoRun
    <3> QED
      BY <2>1, <3>1, FS_EmptySet DEF CountsHolders
  <2>5. AgentsOwn' /\ ClaimsIdle' /\ NoFinishUnderLease'
    BY <2>1 DEF AgentsOwn, ClaimsIdle, NoFinishUnderLease
  <2> QED
    BY <2>2, <2>3, <2>4, <2>5 DEF LeaseInv
<1> QED
  BY <1>2, <1>3, <1>4, <1>5

---------------------------------------------------------------------------
(* The theorems.                                                           *)

\* A new manager has no lease.
LEMMA LeaseInit == Init => LeaseInv
<1> SUFFICES ASSUME Init PROVE LeaseInv
  OBVIOUS
<1>1. \A r \in Runs : Holders(r) = {}
  <2>1. \A t \in Clients : lease[t] = 0
    BY DEF Init, NoRun
  <2>2. 0 \notin Runs
    BY DEF Runs
  <2> QED
    BY <2>1, <2>2 DEF Holders
<1>2. CountsHolders
  BY <1>1, FS_EmptySet DEF Init, CountsHolders
<1>3. ShutdownBegun
  BY DEF Init, ShutdownBegun, OffWorker, IdleThread, Call
<1> QED
  BY <1>2, <1>3 DEF Init, LeaseInv, LeasesRest, AgentsOwn, ClaimsIdle, NoFinishUnderLease

\* Every step keeps the invariant.
LEMMA LeaseNext == TypeOK /\ LeaseInv /\ [Next]_vars => LeaseInv'
<1> SUFFICES ASSUME TypeOK, LeaseInv, [Next]_vars PROVE LeaseInv'
  OBVIOUS
<1>1. ASSUME NEW t \in Clients, Request(t) PROVE LeaseInv'
  BY <1>1, LeaseRequest
<1>2. ASSUME NEW t \in Keepers, Background(t) PROVE LeaseInv'
  BY <1>2, LeaseBackground
<1>3. ASSUME NEW t \in Procs, Rotation(t) PROVE LeaseInv'
  BY <1>3, LeaseRotation
<1>4. ASSUME NEW t \in Procs, CtxDone(t) \/ EnqueueFinish(t) \/ Enqueue(t) PROVE LeaseInv'
  BY <1>4, LeaseQueue
<1>5. ASSUME NEW t \in Threads, Finish(t) PROVE LeaseInv'
  BY <1>5, LeaseFinish
<1>6. ASSUME FinishLoopTake \/ FinishLoopExit \/ RunAges \/ Crash PROVE LeaseInv'
  BY <1>6, LeaseRest
<1>7. CASE UNCHANGED vars
  <2>1. UNCHANGED leaseVars /\ UNCHANGED th
    BY <1>7 DEF vars, leaseVars, managerVars, outsideVars, ghostVars
  <2>2. Moved
    BY <2>1 DEF Moved, leaseVars
  <2> QED
    BY <2>1, <2>2, QuietKeeps
<1> QED
  BY <1>1, <1>2, <1>3, <1>4, <1>5, <1>6, <1>7 DEF Next

\* The in-flight counter of a run is the number of requests that hold a lease
\* on it: Acquire, Release and ReleaseAbandoned never leak or lose a count.
THEOREM InflightCorrect == Spec => []InflightExact
<1>1. TypeOK /\ LeaseInv => InflightExact
  BY Basics DEF LeaseInv, CountsHolders, InflightExact
<1> QED
  BY <1>1, TypeInit, TypeNext, LeaseInit, LeaseNext, PTL DEF Spec

\* finishIfReadyCtx never sends a FINISH for a run that a request leases, unless
\* the manager is shutting down.
THEOREM FinishSparesLeases == Spec => []NoFinishUnderLease
<1>1. LeaseInv => NoFinishUnderLease
  BY DEF LeaseInv
<1> QED
  BY <1>1, TypeInit, TypeNext, LeaseInit, LeaseNext, PTL DEF Spec

---------------------------------------------------------------------------
(* What a step may never do.                                               *)

\* The status of a run that failed changes only with the process.
LEMMA StatusStep ==
  ASSUME TypeOK, [Next]_vars
  PROVE  \/ UNCHANGED status
         \/ \E t \in Clients : MarkFailed(t) \/ ReleaseAbandoned(t)
         \/ Crash
<1>1. ASSUME NEW t \in Clients, Request(t)
      PROVE  UNCHANGED status \/ MarkFailed(t) \/ ReleaseAbandoned(t)
  BY <1>1 DEF Request, CallAcquire, AcquireCheck, LeaseRun, Release, Invalidate, managerVars
<1>2. ASSUME NEW t \in Keepers, Background(t) PROVE UNCHANGED status
  BY <1>2 DEF Background, CallPrecreate, Maintain, FinishAllRuns, LoopNext, Shutdown,
              ShutdownClaim, ShutdownSave, managerVars
<1>3. ASSUME NEW t \in Procs, Rotation(t) PROVE UNCHANGED status
  BY <1>3 DEF Rotation, RotateCheck, LoadRun, DropStaleRecord, ResumeRun, StartRunOK,
              StartRunFailed, FinishInline, PersistRun, managerVars
<1>4. ASSUME NEW t \in Procs, CtxDone(t) \/ EnqueueFinish(t) \/ Enqueue(t)
      PROVE  UNCHANGED status
  BY <1>4 DEF CtxDone, EnqueueFinish, Enqueue, managerVars
<1>5. ASSUME NEW t \in Threads, Finish(t) PROVE UNCHANGED status
  BY <1>5 DEF Finish, FinishClaim, RemoveRun, SendFinish, FinishOK, FinishErr, managerVars
<1>6. CASE FinishLoopTake \/ FinishLoopExit \/ RunAges
  BY <1>6 DEF FinishLoopTake, FinishLoopExit, RunAges, managerVars
<1>7. CASE UNCHANGED vars
  BY <1>7 DEF vars, managerVars
<1> QED
  BY <1>1, <1>2, <1>3, <1>4, <1>5, <1>6, <1>7 DEF Next

\* A run whose chat failed is never relabelled by a later release.
THEOREM FailedIsFinal == Spec => FailedStaysFailed
<1> DEFINE Kept == \A r \in Runs : status[r] = "failed" /\ crashes' = crashes
                                     => status'[r] = "failed"
<1>1. ASSUME TypeOK, [Next]_vars PROVE Kept
  <2>0. crashes \in Nat
    <3>1. MaxCrashes \in Nat
      BY ConstantsAssumption DEF ConstantsAssumption
    <3>2. crashes \in 0..MaxCrashes
      BY <1>1 DEF TypeOK, ManagerOK
    <3> QED
      BY <3>1, <3>2
  <2>1. status \in [Runs -> {"", "cancelled", "failed"}]
    BY <1>1 DEF TypeOK, RunsOK
  <2>2. ASSUME NEW t \in Clients, MarkFailed(t) PROVE Kept
    BY <2>1, <2>2 DEF MarkFailed
  <2>3. ASSUME NEW t \in Clients, ReleaseAbandoned(t) PROVE Kept
    BY <2>1, <2>3 DEF ReleaseAbandoned, AbandonedStatus
  <2>4. CASE Crash
    <3>1. crashes' = crashes + 1
      BY <2>4 DEF Crash
    <3>2. crashes' # crashes
      BY <2>0, <3>1
    <3> QED
      BY <3>2
  <2> QED
    BY <1>1, <2>2, <2>3, <2>4, StatusStep
<1>2. TypeOK /\ [Next]_vars => [Kept]_vars
  BY <1>1
<1> QED
  BY <1>2, TypeInit, TypeNext, PTL DEF Spec, FailedStaysFailed

\* Once Shutdown has begun, no START or resume makes a run current.
THEOREM ShutdownIsFinal == Spec => NoRunAfterShutdown
<1> DEFINE Kept == shuttingDown /\ shuttingDown' =>
                     \A a \in Agents : current'[a] \in {current[a], NoRun}
<1>1. ASSUME TypeOK, [Next]_vars PROVE Kept
  <2>0. current \in [Agents -> Created \cup {NoRun}]
    BY <1>1, Basics
  <2>1. ASSUME NEW t \in Clients, Request(t) PROVE Kept
    BY <2>0, <2>1 DEF Request, CallAcquire, AcquireCheck, LeaseRun, Release, ReleaseAbandoned,
       MarkFailed, Invalidate, DropCurrent, managerVars
  <2>2. ASSUME NEW t \in Keepers, Background(t) PROVE Kept
    BY <2>2 DEF Background, CallPrecreate, Maintain, FinishAllRuns, LoopNext, Shutdown,
                ShutdownClaim, ShutdownSave, managerVars
  <2>3. ASSUME NEW t \in Procs, Rotation(t) PROVE Kept
    BY <2>3 DEF Rotation, RotateCheck, LoadRun, DropStaleRecord, ResumeRun, StartRunOK,
                StartDiscarded, StartRunFailed, FinishInline, PersistRun, managerVars
  <2>4. ASSUME NEW t \in Procs, CtxDone(t) \/ EnqueueFinish(t) \/ Enqueue(t) PROVE Kept
    BY <2>4 DEF CtxDone, EnqueueFinish, Enqueue, managerVars
  <2>5. ASSUME NEW t \in Threads, Finish(t) PROVE Kept
    BY <2>5 DEF Finish, FinishClaim, RemoveRun, SendFinish, FinishOK, FinishErr, managerVars
  <2>6. CASE FinishLoopTake \/ FinishLoopExit \/ RunAges \/ Crash
    BY <2>6 DEF FinishLoopTake, FinishLoopExit, RunAges, Crash, FreshManager, managerVars
  <2>7. CASE UNCHANGED vars
    BY <2>7 DEF vars, managerVars
  <2> QED
    BY <1>1, <2>1, <2>2, <2>3, <2>4, <2>5, <2>6, <2>7 DEF Next
<1>2. TypeOK /\ [Next]_vars => [Kept]_vars
  BY <1>1
<1> QED
  BY <1>2, TypeInit, TypeNext, PTL DEF Spec, NoRunAfterShutdown

---------------------------------------------------------------------------
(* The draining list.                                                      *)

\* Whatever appendDrainingLocked prunes, the list stays within its cap.
LEMMA AppendBounded ==
  ASSUME TypeOK, DrainBounded, NEW r, AppendDraining(r)
  PROVE  DrainBounded'
<1>1. DrainCap \in Nat /\ IsFiniteSet(draining) /\ Cardinality(draining) <= DrainCap
  <2>1. IsFiniteSet(1..nrun)
    BY NrunNat, FS_Interval
  <2>2. draining \subseteq 1..nrun
    BY DEF TypeOK, ManagerOK, Created
  <2> QED
    BY <2>1, <2>2, FS_Subset, ConstantsAssumption DEF ConstantsAssumption, DrainBounded
<1>2. CASE UNCHANGED draining
  BY <1>2 DEF DrainBounded
<1>3. ASSUME NEW old \in SUBSET draining, draining' = Pruned(old, r) PROVE DrainBounded'
  <2> DEFINE rest == draining \ old
  <2>1. IsFiniteSet(rest) /\ Cardinality(rest) \in Nat /\ Cardinality(rest) <= Cardinality(draining)
    BY <1>1, FS_Subset, FS_CardinalityType
  <2>2. Cardinality(draining) \in Nat
    BY <1>1, FS_CardinalityType
  <2>3. Cardinality(rest \cup {r}) <= Cardinality(rest) + 1 /\ Cardinality(rest \cup {r}) \in Nat
    BY <2>1, FS_AddElement
  <2>4. draining' = IF Cardinality(rest) < DrainCap THEN rest \cup {r} ELSE rest
    BY <1>3 DEF Pruned
  <2> HIDE DEF rest
  <2>5. Cardinality(draining') <= DrainCap
    BY <1>1, <2>1, <2>2, <2>3, <2>4
  <2> QED
    BY <2>5 DEF DrainBounded
<1> QED
  BY <1>2, <1>3 DEF AppendDraining

\* A shorter list is within the cap.
LEMMA ShrinkBounded ==
  ASSUME TypeOK, DrainBounded, draining' \subseteq draining
  PROVE  DrainBounded'
<1>1. IsFiniteSet(1..nrun) /\ draining \subseteq 1..nrun
  BY NrunNat, FS_Interval DEF TypeOK, ManagerOK, Created
<1>2. IsFiniteSet(draining)
  BY <1>1, FS_Subset
<1>3. /\ Cardinality(draining') <= Cardinality(draining) /\ Cardinality(draining') \in Nat
      /\ Cardinality(draining) \in Nat /\ DrainCap \in Nat
  BY <1>2, FS_Subset, FS_CardinalityType, ConstantsAssumption DEF ConstantsAssumption
<1>4. Cardinality(draining') <= DrainCap
  BY <1>3 DEF DrainBounded
<1> QED
  BY <1>4 DEF DrainBounded

\* The draining list never exceeds RUNS_DRAIN_QUEUE_CAP.
THEOREM DrainCapHolds == Spec => []DrainBounded
<1>0. ASSUME Init PROVE DrainBounded
  <2>1. Cardinality({}) = 0 /\ DrainCap \in Nat
    BY FS_EmptySet, ConstantsAssumption DEF ConstantsAssumption
  <2>2. draining = {}
    BY <1>0 DEF Init
  <2>3. Cardinality(draining) = 0
    BY <2>1, <2>2
  <2> QED
    BY <2>1, <2>3 DEF DrainBounded
<1>1. ASSUME TypeOK, DrainBounded, [Next]_vars PROVE DrainBounded'
  <2>1. ASSUME NEW t \in Clients, Request(t) PROVE DrainBounded'
    <3>1. UNCHANGED draining \/ \E r : AppendDraining(r)
      BY <2>1 DEF Request, CallAcquire, AcquireCheck, LeaseRun, Release, ReleaseAbandoned,
         MarkFailed, Invalidate, managerVars
    <3> QED
      BY <1>1, <3>1, AppendBounded, ShrinkBounded
  <2>2. ASSUME NEW t \in Keepers, Background(t) PROVE DrainBounded'
    <3>1. \/ draining' \subseteq draining
          \/ Cardinality(draining') <= DrainCap
      BY <2>2 DEF Background, CallPrecreate, Maintain, FinishAllRuns, LoopNext, Shutdown,
                  ShutdownClaim, ShutdownSave, managerVars
    <3> QED
      BY <1>1, <3>1, ShrinkBounded DEF DrainBounded
  <2>3. ASSUME NEW t \in Procs, Rotation(t) PROVE DrainBounded'
    <3>1. UNCHANGED draining \/ \E r : AppendDraining(r)
      BY <2>3 DEF Rotation, RotateCheck, LoadRun, DropStaleRecord, ResumeRun, StartRunOK,
                  StartRunFailed, FinishInline, PersistRun, managerVars
    <3> QED
      BY <1>1, <3>1, AppendBounded, ShrinkBounded
  <2>4. ASSUME NEW t \in Procs, CtxDone(t) \/ EnqueueFinish(t) \/ Enqueue(t) PROVE DrainBounded'
    <3>1. UNCHANGED draining
      BY <2>4 DEF CtxDone, EnqueueFinish, Enqueue, managerVars
    <3> QED
      BY <1>1, <3>1, ShrinkBounded
  <2>5. ASSUME NEW t \in Threads, Finish(t) PROVE DrainBounded'
    <3>1. draining' \subseteq draining \/ \E r : AppendDraining(r)
      BY <2>5 DEF Finish, FinishClaim, RemoveRun, SendFinish, FinishOK, FinishErr, managerVars
    <3> QED
      BY <1>1, <3>1, AppendBounded, ShrinkBounded
  <2>6. CASE FinishLoopTake \/ FinishLoopExit \/ RunAges \/ Crash \/ UNCHANGED vars
    <3>1. draining' \subseteq draining
      BY <2>6 DEF FinishLoopTake, FinishLoopExit, RunAges, Crash, FreshManager, vars, managerVars
    <3> QED
      BY <1>1, <3>1, ShrinkBounded
  <2> QED
    BY <1>1, <2>1, <2>2, <2>3, <2>4, <2>5, <2>6 DEF Next
<1> QED
  BY <1>0, <1>1, TypeInit, TypeNext, PTL DEF Spec

-----------------------------------------------------------------------------
(* Flights, FINISH and lost runs.                                          *)

\* The calls that loop over jobs.
Loops == {"maintain", "finishall", "shutdown"}

\* The points inside rotate and Acquire.
RotatePoints == {"acquire", "rotate", "wait", "load", "stale", "resume", "start",
                 "discard", "persist", "lease"}

\* In which call a goroutine is at which point, and which calls have jobs.
ControlOK(s) ==
  /\ s.pc \in {"idle", "off", "loop", "exited"} => s.jobs = {}
  /\ s.op \notin Loops => s.jobs = {}
  /\ s.op # "maintain" => s.rot = {}
  /\ s.pc \in RotatePoints => s.op \in {"acquire", "precreate", "maintain"}
  /\ s.pc \in {"acquire", "lease"} => s.op = "acquire"
  /\ s.pc = "next" => s.op \in Loops
  /\ s.pc \in {"sdwait", "sdsave"} => s.op = "shutdown"

Controlled == \A t \in Threads : ControlOK(th[t])

\* SingleFlight, and a leader has registered its flight.
FlightInv ==
  /\ SingleFlight
  /\ \A t \in Threads : Leading(t) => th[t].agent \in flight

\* What refers to a run: the manager and the leases, or a goroutine.
IsCurrent(r) == \E a \in Agents : current[a] = r
InQueue(r)   == \E i \in 1..Len(queue) : queue[i] = r
SharedRef(r) == \/ IsCurrent(r) \/ r \in draining \/ InQueue(r)
                \/ \E t \in Clients : lease[t] = r
Named(s, r)  == s.held = r \/ r \in s.jobs
Ref(r)       == SharedRef(r) \/ \E t \in Threads : Named(th[t], r)

\* A goroutine inside a FINISH attempt.
Busy(s) == s.pc \in {"unpersist", "send", "sentOK", "sentErr"}

\* There is one Shutdown at a time.
ShutdownAlone ==
  /\ \A t \in Threads : th[t].op = "shutdown" => shuttingDown
  /\ \A t, u \in Threads : th[t].op = "shutdown" /\ th[u].op = "shutdown" => t = u

\* A run is claimed while it is being finished, by one goroutine, and upstream
\* has acknowledged it exactly when that goroutine has the answer.
ClaimsHeld ==
  /\ \A t \in Threads : Busy(th[t]) => th[t].held \in finishing
  /\ \A t, u \in Threads : Busy(th[t]) /\ Busy(th[u]) /\ th[t].held = th[u].held => t = u
  /\ \A t \in Threads : Busy(th[t]) => (th[t].held \in Acked <=> th[t].pc = "sentOK")

\* A finished run that something still refers to stays claimed.
AckedClaimed ==
  /\ Acked \subseteq Created
  /\ \A r \in Acked : Ref(r) => r \in finishing

\* What Shutdown has claimed and not yet sent.
ShutdownJobs ==
  \A t \in Threads : th[t].op = "shutdown" =>
    \A r \in th[t].jobs : /\ r \in finishing /\ r \notin Acked
                          /\ \A u \in Threads : Busy(th[u]) => th[u].held # r

FinishInv ==
  ShutdownAlone /\ ClaimsHeld /\ AckedClaimed /\ ShutdownJobs /\ HonestFinish

\* A goroutine that will offer r to finishIfReadyCtx, or is doing so.
Tends(s, r) ==
  \/ r \in s.jobs
  \/ s.held = r /\ s.pc \in {"persist", "enqueue", "push", "claim", "unpersist",
                             "send", "sentOK", "sentErr"}
  \/ s.fresh = r /\ s.pc = "discard"
Tended(r) == \E t \in Threads : Tends(th[t], r)

\* Nothing is left to do for r, or the manager will do it.
Settled(r) == r \in Acked \cup gone \cup draining \/ IsCurrent(r) \/ shuttingDown

\* No run is lost; a queued marker stands for a queue entry or for a goroutine
\* about to make one or to clear the marker; a claim has its goroutine; a leased
\* run has not left the manager.
LostInv ==
  /\ \A r \in Created : Settled(r) \/ InQueue(r) \/ Tended(r)
  /\ \A r \in queued : \/ InQueue(r)
                       \/ \E t \in Threads : th[t].pc \in {"push", "claim"} /\ th[t].held = r
  /\ \A r \in finishing : \/ r \in Acked \/ shuttingDown
                          \/ \E t \in Threads : Busy(th[t]) /\ th[t].held = r
  /\ \A t \in Clients : lease[t] # NoRun => Settled(lease[t])

RunsInv == Controlled /\ FlightInv /\ FinishInv /\ LostInv

---------------------------------------------------------------------------
(* Where calls return to.                                                  *)

\* What Done makes of a control state: the jobs stay, nothing is held.
LEMMA DoneFacts ==
  ASSUME NEW s \in ThreadState, ControlOK(s)
  PROVE  /\ ControlOK(Done(s))
         /\ Done(s).pc \in {"lease", "loop", "next", "idle"}
         /\ Done(s).jobs = s.jobs /\ Done(s).held = NoRun
         /\ Done(s).op = "shutdown" => s.op = "shutdown"
<1>0. NoRun \in RunRef
  BY DEF RunRef
<1>1. CASE s.op = "acquire"
  <2>1. Done(s) = [s EXCEPT !.pc = "lease", !.held = NoRun, !.fresh = NoRun]
    BY <1>1 DEF Done
  <2> QED
    BY <1>0, <1>1, <2>1 DEF ThreadState, ControlOK, PCs, Loops, RotatePoints
<1>2. CASE s.op = "worker"
  <2>1. Done(s) = Call("loop", "worker", NoAgent)
    BY <1>2 DEF Done
  <2> QED
    BY <1>0, <1>2, <2>1 DEF Call, ControlOK, PCs, Ops, Loops, RotatePoints
<1>3. CASE s.op \in Loops
  <2>1. Done(s) = [s EXCEPT !.pc = "next", !.agent = NoAgent, !.held = NoRun, !.fresh = NoRun]
    BY <1>3 DEF Done, Loops
  <2> QED
    BY <1>0, <1>3, <2>1 DEF ThreadState, ControlOK, PCs, Loops, RotatePoints
<1>4. CASE s.op \notin {"acquire", "worker"} \cup Loops
  <2>1. Done(s) = IdleThread
    BY <1>4 DEF Done, Loops
  <2> QED
    BY <1>0, <1>4, <2>1 DEF IdleThread, Call, ControlOK, PCs, Ops, Loops, RotatePoints
<1> QED
  BY <1>1, <1>2, <1>3, <1>4

\* What Failed makes of a control state inside rotate.
LEMMA FailedFacts ==
  ASSUME NEW s \in ThreadState, ControlOK(s), s.pc \in RotatePoints
  PROVE  /\ ControlOK(Failed(s))
         /\ Failed(s).pc \in {"lease", "loop", "next", "idle"}
         /\ Failed(s).jobs = s.jobs /\ Failed(s).held = NoRun
         /\ Failed(s).op = "shutdown" => s.op = "shutdown"
<1>1. CASE s.op = "maintain"
  BY <1>1, DoneFacts DEF Failed
<1>2. CASE s.op # "maintain"
  <2>1. Failed(s) = IdleThread /\ s.jobs = {}
    BY <1>2 DEF Failed, ControlOK, Loops
  <2> QED
    BY <2>1 DEF IdleThread, Call, ControlOK, Loops, RotatePoints
<1> QED
  BY <1>1, <1>2

\* What Retire makes of it: the replaced run, if any, is held.
LEMMA RetireFacts ==
  ASSUME NEW s \in ThreadState, ControlOK(s), NEW r
  PROVE  /\ ControlOK(Retire(s, r))
         /\ Retire(s, r).pc \in {"lease", "loop", "next", "idle", "enqueue"}
         /\ Retire(s, r).jobs = s.jobs /\ Retire(s, r).held = r
         /\ r # NoRun => Retire(s, r).pc = "enqueue"
         /\ Retire(s, r).op = "shutdown" => s.op = "shutdown"
<1>1. CASE r = NoRun
  BY <1>1, DoneFacts DEF Retire
<1>2. CASE r # NoRun
  <2>1. Retire(s, r) = [s EXCEPT !.pc = "enqueue", !.held = r, !.fresh = NoRun]
    BY <1>2 DEF Retire
  <2> QED
    BY <1>2, <2>1 DEF ThreadState, ControlOK, Loops, RotatePoints
<1> QED
  BY <1>1, <1>2

---------------------------------------------------------------------------
(* Single flight.                                                          *)

FlightPoints == {"wait", "load", "stale", "resume", "start"}

\* A goroutine that neither joins nor leaves a flight.
SteadyStep(x, y) ==
  \/ y.pc \notin FlightPoints /\ x.pc \notin FlightPoints \ {"wait"}
  \/ /\ x.pc \in FlightPoints \ {"wait"} /\ y.pc \in FlightPoints \ {"wait"}
     /\ y.agent = x.agent
  \/ y.pc = "wait" /\ x.pc \notin FlightPoints /\ y.agent \in flight

\* Steps that open and close no flight.
LEMMA FlightQuiet ==
  ASSUME FlightInv, UNCHANGED flight,
         \A q \in Threads : th'[q] = th[q] \/ SteadyStep(th[q], th'[q])
  PROVE  FlightInv'
<1>1. \A q \in Threads : /\ Leading(q)' => Leading(q) /\ th'[q].agent = th[q].agent
                         /\ Leading(q) => Leading(q)' /\ th'[q].agent = th[q].agent
                         /\ th'[q].pc = "wait" => th'[q].agent \in flight
  BY DEF FlightInv, SingleFlight, Leading, At, SteadyStep, FlightPoints
<1>2. SingleFlight'
  BY <1>1 DEF FlightInv, SingleFlight, At
<1>3. \A q \in Threads : Leading(q)' => th'[q].agent \in flight'
  BY <1>1 DEF FlightInv
<1> QED
  BY <1>2, <1>3 DEF FlightInv

\* The leader's last step closes its flight and wakes its waiters.
LEMMA FlightClosed ==
  ASSUME FlightInv, NEW t \in Threads, Leading(t), NEW s, NEW woken,
         CloseFlight(t, th[t].agent, s, woken), s.pc \notin FlightPoints,
         \A q \in Threads : th[q].pc = "wait" => woken[q].pc \notin FlightPoints
  PROVE  FlightInv'
<1> DEFINE a == th[t].agent
<1>1. /\ flight' = flight \ {a} /\ th'[t] = s
      /\ \A q \in Threads \ {t} :
           th'[q] = IF th[q].pc = "wait" /\ th[q].agent = a THEN woken[q] ELSE th[q]
  BY DEF CloseFlight
<1>2. \A q \in Threads : Leading(q)' => q # t /\ th'[q] = th[q] /\ Leading(q) /\ th[q].agent # a
  BY <1>1 DEF FlightInv, SingleFlight, Leading, FlightPoints
<1>3. \A q \in Threads : At(q, "wait")' => th'[q] = th[q] /\ th[q].agent # a
  BY <1>1 DEF At, FlightPoints
<1>4. \A q \in Threads : Leading(q) /\ th[q].agent # a => th'[q] = th[q]
  BY <1>1 DEF Leading
<1> HIDE DEF a
<1>5. \A x, y \in Threads : Leading(x)' /\ Leading(y)' /\ th'[x].agent = th'[y].agent => x = y
  BY <1>2 DEF FlightInv, SingleFlight
<1>6. \A q \in Threads : At(q, "wait")' => th'[q].agent \in flight'
  BY <1>1, <1>3 DEF FlightInv, SingleFlight, At
<1>7. \A b \in flight' : \E q \in Threads : Leading(q)' /\ th'[q].agent = b
  <2> SUFFICES ASSUME NEW b \in flight' PROVE \E q \in Threads : Leading(q)' /\ th'[q].agent = b
    OBVIOUS
  <2>1. b \in flight /\ b # a
    BY <1>1
  <2>2. PICK q \in Threads : Leading(q) /\ th[q].agent = b
    BY <2>1 DEF FlightInv, SingleFlight
  <2>3. th'[q] = th[q]
    BY <1>4, <2>1, <2>2
  <2> QED
    BY <2>2, <2>3 DEF Leading
<1>8. \A q \in Threads : Leading(q)' => th'[q].agent \in flight'
  BY <1>1, <1>2 DEF FlightInv
<1> QED
  BY <1>5, <1>6, <1>7, <1>8 DEF FlightInv, SingleFlight

---------------------------------------------------------------------------
(* Steps that claim nothing and let go of nothing.                         *)

PlainStep(x, y) ==
  /\ ControlOK(y) /\ ~Busy(x) /\ ~Busy(y) /\ x.pc \notin {"push", "claim"}
  /\ y.op = "shutdown" => x.op = "shutdown" /\ y.jobs \subseteq x.jobs
  /\ \A r \in Acked : Named(y, r) => Ref(r)
  /\ \A r \in Created : Tends(x, r) => Tends(y, r) \/ r \in gone'

Plain == \A q \in Threads : th'[q] = th[q] \/ PlainStep(th[q], th'[q])

\* Such a step keeps what upstream hears exact.
LEMMA PlainFinish ==
  ASSUME TypeOK, FinishInv, Plain, nrun' \in Nat, nrun <= nrun',
         UNCHANGED <<finishing, reported, shuttingDown>>,
         \A r \in Acked : SharedRef(r)' => SharedRef(r),
         \A r \in Created : status'[r] = "failed" /\ ~shuttingDown
                              => status[r] = "failed" \/ r \notin Acked,
         nrun' <= MaxRuns
  PROVE  FinishInv'
<1>0. /\ nrun \in Nat /\ Created' = 1..nrun' /\ Created \subseteq Created' /\ Created' \subseteq Runs
      /\ Acked' = Acked /\ MaxRuns \in Nat
  <2>1. nrun \in Nat /\ MaxRuns \in Nat
    BY NrunNat
  <2>2. Created' = 1..nrun' /\ Created = 1..nrun /\ Acked' = Acked
    BY DEF Created, Acked
  <2> QED
    BY <2>1, <2>2 DEF Runs
<1>1. \A q \in Threads : /\ Busy(th'[q]) => th'[q] = th[q]
                         /\ th'[q].op = "shutdown" => th[q].op = "shutdown" /\ th'[q].jobs \subseteq th[q].jobs
                         /\ \A r \in Acked : Named(th'[q], r) => Ref(r)
  <2>1. \A q \in Threads : th'[q] = th[q] => \A r \in Acked : Named(th'[q], r) => Ref(r)
    BY DEF Ref
  <2> QED
    BY <2>1 DEF Plain, PlainStep
<1>2. ShutdownAlone'
  BY <1>1 DEF FinishInv, ShutdownAlone
<1>3. ClaimsHeld'
  BY <1>0, <1>1 DEF FinishInv, ClaimsHeld
<1>4. AckedClaimed'
  <2>1. \A r \in Acked : Ref(r)' => Ref(r)
    BY <1>1 DEF Ref
  <2> QED
    BY <1>0, <2>1 DEF FinishInv, AckedClaimed
<1>5. ShutdownJobs'
  BY <1>0, <1>1 DEF FinishInv, ShutdownJobs
<1>6. HonestFinish'
  <2> SUFFICES ASSUME NEW r \in Created', status'[r] = "failed", ~shuttingDown
               PROVE  reported[r] \in {"", "failed"}
    BY DEF HonestFinish
  <2>1. CASE r \in Acked
    BY <2>1 DEF FinishInv, AckedClaimed, HonestFinish
  <2>2. CASE r \notin Acked
    BY <1>0, <2>2 DEF Acked
  <2> QED
    BY <2>1, <2>2
<1> QED
  BY <1>2, <1>3, <1>4, <1>5, <1>6 DEF FinishInv

\* Such a step loses no run.
LEMMA PlainLost ==
  ASSUME TypeOK, LostInv, Plain, nrun' \in Nat, nrun <= nrun',
         UNCHANGED <<finishing, queued, queue, reported, shuttingDown>>,
         gone \subseteq gone',
         \A r \in Created : Settled(r) => Settled(r)' \/ Tended(r)',
         \A q \in Clients, r \in Runs : lease'[q] = r => Settled(r)',
         lease' \in [Clients -> Runs \cup {NoRun}],
         \A r \in Created' \ Created : Settled(r)' \/ Tended(r)'
  PROVE  LostInv'
<1>0. Created \subseteq Created' /\ Acked' = Acked /\ \A r : InQueue(r)' <=> InQueue(r)
  BY NrunNat DEF Created, Acked, InQueue
<1>1. \A q \in Threads : /\ Busy(th[q]) \/ th[q].pc \in {"push", "claim"} => th'[q] = th[q]
                         /\ \A r \in Created : Tends(th[q], r) => Tends(th'[q], r) \/ r \in gone'
  BY DEF Plain, PlainStep
<1>2. \A r \in Created : Tended(r) => Tended(r)' \/ Settled(r)'
  BY <1>1 DEF Tended, Settled
<1>3. \A r \in Created' : Settled(r)' \/ InQueue(r)' \/ Tended(r)'
  BY <1>0, <1>2 DEF LostInv
<1>4. \A r \in queued' : \/ InQueue(r)'
                         \/ \E t \in Threads : th'[t].pc \in {"push", "claim"} /\ th'[t].held = r
  BY <1>0, <1>1 DEF LostInv
<1>5. \A r \in finishing' : \/ r \in Acked' \/ shuttingDown'
                            \/ \E t \in Threads : Busy(th'[t]) /\ th'[t].held = r
  BY <1>0, <1>1 DEF LostInv
<1>6. ASSUME NEW q \in Clients, lease'[q] # NoRun PROVE Settled(lease[q])'
  <2>1. PICK r \in Runs : lease'[q] = r
    BY <1>6
  <2> QED
    BY <2>1 DEF Settled, IsCurrent
<1> QED
  BY <1>3, <1>4, <1>5, <1>6 DEF LostInv

\* A plain step keeps control in order.
LEMMA PlainControl == ASSUME Controlled, Plain PROVE Controlled'
  BY DEF Controlled, Plain, PlainStep

\* What a step finds.
LEMMA Start ==
  ASSUME TypeOK, RunsInv
  PROVE  /\ Controlled /\ FlightInv /\ FinishInv /\ LostInv
         /\ nrun \in Nat /\ nrun <= MaxRuns /\ Created = 1..nrun /\ Created \subseteq Runs
         /\ NoRun \notin Created /\ NoRun \notin Runs /\ NoRun \notin Acked
         /\ current \in [Agents -> Created \cup {NoRun}]
         /\ lease \in [Clients -> Created \cup {NoRun}]
         /\ draining \subseteq Created /\ Acked \subseteq Created
         /\ \A t \in Threads : ThreadOK(nrun, th[t]) /\ th[t] \in ThreadState /\ ControlOK(th[t])
<1>1. NoRun \notin Runs
  BY DEF Runs, NoRun
<1>2. NoRun \notin Acked
  BY <1>1 DEF Acked
<1>3. draining \subseteq Created
  BY DEF TypeOK, ManagerOK
<1> QED
  BY <1>1, <1>2, <1>3, Basics, NrunNat DEF RunsInv, Controlled, FinishInv, AckedClaimed

\* Only one goroutine's control changes.
LEMMA Moves ==
  ASSUME TypeOK, RunsInv, NEW t \in Threads, NEW s, Goto(t, s),
         PlainStep(th[t], s), SteadyStep(th[t], s),
         UNCHANGED <<nrun, managerVars, lease, ghostVars>>
  PROVE  RunsInv'
<1>0. th'[t] = s /\ \A q \in Threads \ {t} : th'[q] = th[q]
  BY DEF Goto, TypeOK, ThreadsOK
<1>1. Plain
  BY <1>0 DEF Plain
<1>2. /\ nrun' = nrun /\ current' = current /\ draining' = draining /\ queue' = queue /\ lease' = lease
      /\ finishing' = finishing /\ reported' = reported /\ shuttingDown' = shuttingDown
      /\ status' = status /\ flight' = flight /\ gone' = gone /\ queued' = queued
  BY DEF managerVars, ghostVars
<1>3. Controlled'
  BY <1>1, PlainControl, Start
<1>4. FlightInv'
  BY <1>0, <1>2, FlightQuiet, Start
<1>5. \A r : /\ SharedRef(r)' <=> SharedRef(r)
             /\ Settled(r)' <=> Settled(r)
  BY <1>2 DEF SharedRef, Settled, IsCurrent, InQueue, Acked
<1>6. FinishInv'
  <2>1. nrun' \in Nat /\ nrun <= nrun' /\ nrun' <= MaxRuns
    BY <1>2, NrunNat
  <2> QED
    BY <1>1, <1>2, <1>5, <2>1, PlainFinish, Start
<1>7. LostInv'
  <2>1. nrun' \in Nat /\ nrun <= nrun' /\ Created' \ Created = {}
    BY <1>2, NrunNat DEF Created
  <2>2. \A q \in Clients, r \in Runs : lease'[q] = r => Settled(r)'
    BY <1>2, <1>5, Start DEF LostInv
  <2>3. lease' \in [Clients -> Runs \cup {NoRun}]
    BY <1>2, Start
  <2> QED
    BY <1>1, <1>2, <1>5, <2>1, <2>2, <2>3, PlainLost, Start
<1> QED
  BY <1>3, <1>4, <1>6, <1>7 DEF RunsInv

\* Where a goroutine inside Acquire or rotate may go: back to its caller, or on
\* with the run it replaced.
LEMMA Returns ==
  ASSUME TypeOK, RunsInv, gone \subseteq gone', NEW t \in Threads,
         th[t].pc \in RotatePoints \ {"discard", "persist"}
  PROVE  /\ PlainStep(th[t], Done(th[t])) /\ PlainStep(th[t], Failed(th[t]))
         /\ \A a \in Agents : PlainStep(th[t], Retire(th[t], current[a]))
         /\ Done(th[t]).pc \notin FlightPoints /\ Failed(th[t]).pc \notin FlightPoints
         /\ \A r : Retire(th[t], r).pc \notin FlightPoints
<1> DEFINE x == th[t]
<1>1. x \in ThreadState /\ ControlOK(x) /\ \A r : r \in x.jobs => Ref(r)
  BY Start DEF Ref, Named
<1>2. /\ \A r : Tends(x, r) => r \in x.jobs
      /\ ~Busy(x) /\ x.pc \notin {"push", "claim"}
  BY DEF Tends, Busy, RotatePoints
<1>3. ASSUME NEW y, ControlOK(y), y.jobs = x.jobs, y.op = "shutdown" => x.op = "shutdown",
             y.pc \in {"lease", "loop", "next", "idle", "enqueue"},
             \A r \in Acked : y.held = r => Ref(r)
      PROVE  PlainStep(x, y)
  BY <1>1, <1>2, <1>3 DEF PlainStep, Busy, Named, Tends
<1> HIDE DEF x
<1>4. NoRun \notin Acked
  BY Start
<1>5. /\ ControlOK(Done(x)) /\ Done(x).pc \in {"lease", "loop", "next", "idle"}
      /\ Done(x).jobs = x.jobs /\ Done(x).held = NoRun
      /\ Done(x).op = "shutdown" => x.op = "shutdown"
  BY <1>1, DoneFacts
<1>6. /\ ControlOK(Failed(x)) /\ Failed(x).pc \in {"lease", "loop", "next", "idle"}
      /\ Failed(x).jobs = x.jobs /\ Failed(x).held = NoRun
      /\ Failed(x).op = "shutdown" => x.op = "shutdown"
  BY <1>1, FailedFacts DEF x
<1>7. PlainStep(x, Done(x)) /\ PlainStep(x, Failed(x))
  <2>1. ASSUME NEW y, y.held = NoRun PROVE \A r \in Acked : y.held = r => Ref(r)
    BY <1>4, <2>1
  <2>2. PlainStep(x, Done(x))
    BY <1>3, <1>5, <2>1
  <2>3. PlainStep(x, Failed(x))
    BY <1>3, <1>6, <2>1
  <2> QED
    BY <2>2, <2>3
<1>8. ASSUME NEW a \in Agents PROVE PlainStep(x, Retire(x, current[a]))
  <2>1. Ref(current[a])
    BY <1>8 DEF Ref, SharedRef, IsCurrent
  <2>2. /\ ControlOK(Retire(x, current[a])) /\ Retire(x, current[a]).jobs = x.jobs
        /\ Retire(x, current[a]).held = current[a]
        /\ Retire(x, current[a]).op = "shutdown" => x.op = "shutdown"
        /\ Retire(x, current[a]).pc \in {"lease", "loop", "next", "idle", "enqueue"}
    BY <1>1, RetireFacts
  <2> QED
    BY <1>3, <2>1, <2>2
<1>9. \A r : Retire(x, r).pc \in {"lease", "loop", "next", "idle", "enqueue"}
  BY <1>1, RetireFacts
<1> QED
  BY <1>5, <1>6, <1>7, <1>8, <1>9 DEF x, FlightPoints

\* A plain step that may change who refers to which run.
LEMMA PlainKeeps ==
  ASSUME TypeOK, RunsInv, TypeOK', Plain, FlightInv', nrun <= nrun',
         UNCHANGED <<finishing, queued, queue, reported, shuttingDown>>,
         gone \subseteq gone',
         \A r \in Acked : IsCurrent(r)' \/ r \in draining' \/ (\E q \in Clients : lease'[q] = r)
                            => SharedRef(r),
         \A r \in Created : status'[r] = "failed" /\ ~shuttingDown
                              => status[r] = "failed" \/ r \notin Acked,
         \A r \in Created : Settled(r) => Settled(r)' \/ Tended(r)',
         \A q \in Clients, r \in Runs : lease'[q] = r => Settled(r)',
         \A r \in Created' \ Created : Settled(r)' \/ Tended(r)'
  PROVE  RunsInv'
<1>1. Controlled'
  BY PlainControl, Start
<1>2. nrun' \in Nat /\ nrun' <= MaxRuns /\ lease' \in [Clients -> Runs \cup {NoRun}]
  <2>1. nrun' \in 0..MaxRuns /\ MaxRuns \in Nat
    BY NrunNat DEF TypeOK, RunsOK
  <2>2. lease' \in [Clients -> Created' \cup {NoRun}] /\ Created' = 1..nrun'
    BY DEF TypeOK, ManagerOK, Created
  <2> QED
    BY <2>1, <2>2 DEF Runs
<1>3. \A r \in Acked : SharedRef(r)' => SharedRef(r)
  BY DEF SharedRef, InQueue
<1>4. FinishInv'
  BY <1>2, <1>3, PlainFinish, Start
<1>5. LostInv'
  BY <1>2, PlainLost, Start
<1> QED
  BY <1>1, <1>4, <1>5 DEF RunsInv

\* What appendDrainingLocked leaves: every run listed before, and the new one,
\* is listed or was let go.
LEMMA AppendKeeps ==
  ASSUME TypeOK, NEW r, AppendDraining(r)
  PROVE  /\ gone \subseteq gone' /\ draining' \subseteq draining \cup {r}
         /\ \A x \in draining : x \in draining' \cup gone'
         /\ r # NoRun => r \in draining' \cup gone'
  BY DEF AppendDraining, Pruned

---------------------------------------------------------------------------
(* Requests.                                                               *)

\* Acquire, the releases, MarkFailed and Invalidate keep the invariant.
LEMMA RunsRequest ==
  ASSUME TypeOK, TypeOK', LeaseInv, RunsInv, NEW t \in Clients, Request(t)
  PROVE  RunsInv'
<1> DEFINE x == th[t]
<1>1. t \in Threads /\ x \in ThreadState /\ ControlOK(x) /\ \A r : r \in x.jobs => Ref(r)
  BY Start DEF Ref, Named, Threads, Procs
<1>2. NoRun \notin Acked /\ Acked \subseteq Created
  BY Start
<1>3. ASSUME NEW y, ControlOK(y), y.op # "shutdown",
             y.pc \notin {"unpersist", "send", "sentOK", "sentErr"},
             y.jobs = x.jobs, \A r \in Acked : y.held = r => Ref(r),
             x.pc \in {"idle", "acquire", "lease"}
      PROVE  PlainStep(x, y)
  BY <1>1, <1>3 DEF PlainStep, Busy, Named, Tends
<1>4. x.pc \in {"idle", "acquire", "lease"} => x.jobs = {}
  BY <1>1 DEF ControlOK, Loops
<1>5. /\ ControlOK(IdleThread) /\ IdleThread.op = "none" /\ IdleThread.jobs = {}
      /\ IdleThread.pc = "idle" /\ IdleThread.held = NoRun
  BY DEF IdleThread, Call, ControlOK, Loops, RotatePoints
<1>6. x.pc \in {"idle", "acquire", "lease"} => PlainStep(x, IdleThread)
  BY <1>2, <1>3, <1>4, <1>5
<1>7. ASSUME UNCHANGED flight, NEW s, UNCHANGED th \/ Goto(t, s),
             x.pc \in {"idle", "acquire", "lease"}, s.pc \notin FlightPoints
      PROVE  FlightInv'
  <2>1. \A q \in Threads : th'[q] = th[q] \/ SteadyStep(th[q], th'[q])
    BY <1>7, <1>1 DEF Goto, TypeOK, ThreadsOK, SteadyStep, FlightPoints
  <2> QED
    BY <1>7, <2>1, FlightQuiet, Start
<1>8. ASSUME NEW s, UNCHANGED th \/ Goto(t, s), PlainStep(x, s) PROVE Plain
  BY <1>8, <1>1 DEF Goto, TypeOK, ThreadsOK, Plain
<1>9. ASSUME NEW a \in Agents, CallAcquire(t, a) PROVE RunsInv'
  <2> DEFINE s == Call("acquire", "acquire", a)
  <2>1. /\ Goto(t, s) /\ x.pc = "idle"
        /\ UNCHANGED <<nrun, managerVars, lease, ghostVars>>
    BY <1>9 DEF CallAcquire, At
  <2>2. /\ ControlOK(s) /\ s.op = "acquire" /\ s.pc = "acquire" /\ s.jobs = {} /\ s.held = NoRun
    BY DEF Call, ControlOK, Loops, RotatePoints
  <2> HIDE DEF s
  <2>3. PlainStep(x, s)
    BY <1>2, <1>3, <1>4, <2>1, <2>2
  <2>4. SteadyStep(x, s)
    BY <2>1, <2>2 DEF SteadyStep, FlightPoints
  <2> QED
    BY <1>1, <2>1, <2>3, <2>4, Moves
<1>10. CASE AcquireCheck(t)
  <2>1. x.pc = "acquire" /\ UNCHANGED <<nrun, managerVars, lease, ghostVars>>
    BY <1>10 DEF AcquireCheck, At
  <2>2. PICK p \in {"rotate", "lease"} : Goto(t, IdleThread) \/ Goto(t, [x EXCEPT !.pc = p])
    BY <1>10 DEF AcquireCheck
  <2>3. CASE Goto(t, IdleThread)
    <3>1. PlainStep(x, IdleThread) /\ SteadyStep(x, IdleThread)
      BY <1>5, <1>6, <2>1 DEF SteadyStep, FlightPoints
    <3> QED
      BY <1>1, <2>1, <2>3, <3>1, Moves
  <2>4. CASE Goto(t, [x EXCEPT !.pc = p])
    <3> DEFINE s == [x EXCEPT !.pc = p]
    <3>1. /\ s.pc = p /\ s.op = x.op /\ s.jobs = x.jobs /\ s.held = x.held /\ s.rot = x.rot
      BY <1>1 DEF ThreadState
    <3>2. s.op # "shutdown" /\ ControlOK(s)
      BY <1>1, <2>1, <3>1 DEF ControlOK, Loops, RotatePoints
    <3>3. \A r \in Acked : s.held = r => Ref(r)
      BY <1>1, <3>1 DEF Ref, Named
    <3>6. s.pc \notin {"unpersist", "send", "sentOK", "sentErr"} /\ s.jobs = x.jobs
      BY <3>1
    <3> HIDE DEF s
    <3>4. PlainStep(x, s)
      BY <1>3, <2>1, <3>2, <3>3, <3>6
    <3>5. SteadyStep(x, s)
      BY <2>1, <3>1 DEF SteadyStep, FlightPoints
    <3> QED
      BY <1>1, <2>1, <2>4, <3>4, <3>5, Moves DEF s
  <2> QED
    BY <2>2, <2>3, <2>4
<1>11. CASE LeaseRun(t) /\ current[x.agent] = NoRun
  <2> DEFINE s == [x EXCEPT !.pc = "acquire"]
  <2>1. /\ x.pc = "lease" /\ Goto(t, s)
        /\ UNCHANGED <<nrun, managerVars, lease, ghostVars>>
    BY <1>11 DEF LeaseRun, At, managerVars, ghostVars
  <2>2. /\ s.pc = "acquire" /\ s.op = x.op /\ s.jobs = x.jobs /\ s.held = x.held /\ s.rot = x.rot
    BY <1>1 DEF ThreadState
  <2>3. s.op # "shutdown" /\ ControlOK(s)
    BY <1>1, <2>1, <2>2 DEF ControlOK, Loops, RotatePoints
  <2>4. \A r \in Acked : s.held = r => Ref(r)
    BY <1>1, <2>2 DEF Ref, Named
  <2> HIDE DEF s
  <2>5. PlainStep(x, s)
    BY <1>3, <2>1, <2>2, <2>3, <2>4
  <2>6. SteadyStep(x, s)
    BY <2>1, <2>2 DEF SteadyStep, FlightPoints
  <2> QED
    BY <1>1, <2>1, <2>5, <2>6, Moves
<1>12. CASE LeaseRun(t) /\ current[x.agent] # NoRun
  <2> DEFINE r == current[x.agent]
  <2>1. x.agent \in Agents
    <3>1. ThreadOK(nrun, x) /\ x.pc = "lease"
      BY <1>1, <1>12, Start DEF LeaseRun, At
    <3> QED
      BY <1>1, <3>1 DEF ThreadOK, ThreadState
  <2>2. /\ x.pc = "lease" /\ Goto(t, IdleThread) /\ lease' = [lease EXCEPT ![t] = r]
        /\ UNCHANGED <<nrun, agentOf, finishing, queued, status, current, flight, draining, queue,
                       shuttingDown, reported, gone>>
    BY <1>12 DEF LeaseRun, At, ghostVars
  <2>3. r \in Created /\ IsCurrent(r)
    BY <1>12, <2>1, Start DEF IsCurrent
  <2> HIDE DEF r
  <2>4. lease' \in [Clients -> Created \cup {NoRun}] /\ \A q \in Clients : lease'[q] \in {lease[q], r}
    BY <2>2, <2>3, Start
  <2>5. Plain /\ FlightInv'
    BY <1>5, <1>6, <1>7, <1>8, <2>2 DEF FlightPoints
  <2>6. \A y : /\ IsCurrent(y)' <=> IsCurrent(y)
               /\ Settled(y)' <=> Settled(y)
    BY <2>2 DEF Settled, IsCurrent, Acked
  <2>7. Settled(r)
    BY <2>3 DEF Settled
  <2>8. \A y \in Acked : IsCurrent(y)' \/ y \in draining' \/ (\E q \in Clients : lease'[q] = y)
                            => SharedRef(y)
    BY <2>2, <2>3, <2>4, <2>6 DEF SharedRef
  <2>9. \A q \in Clients, y \in Runs : lease'[q] = y => Settled(y)'
    BY <2>4, <2>6, <2>7, Start DEF LostInv
  <2>10. nrun <= nrun' /\ Created' = Created
    BY <2>2, NrunNat DEF Created
  <2> QED
    BY <2>2, <2>5, <2>6, <2>8, <2>9, <2>10, PlainKeeps
\* A release takes its lease away and hands on what nobody refers to any more.
<1>13. ASSUME ReturnLease(t), UNCHANGED <<nrun, finishing, queued, queue, reported, shuttingDown, flight>>,
              gone \subseteq gone',
              NEW r, r = lease[t],
              \/ UNCHANGED th
              \/ Goto(t, [Call("enqueue", "release", NoAgent) EXCEPT !.held = r]),
              \A y \in Runs : IsCurrent(y)' => IsCurrent(y),
              draining' \subseteq draining \cup {r},
              \A y \in Runs : Settled(y) => Settled(y)',
              \A y \in Created : status'[y] = "failed" => status[y] = "failed"
       PROVE  RunsInv'
  <2> DEFINE s == [Call("enqueue", "release", NoAgent) EXCEPT !.held = r]
  <2>1. s.pc = "enqueue" /\ s.op = "release" /\ s.jobs = {} /\ s.held = r /\ ControlOK(s)
    BY DEF Call, ControlOK, Loops, RotatePoints
  <2>2. x.pc = "idle" /\ \A q \in Clients : lease'[q] \in {lease[q], NoRun}
    BY <1>13, Start DEF ReturnLease, At
  <2>3. SharedRef(r) /\ Ref(r)
    BY <1>13 DEF SharedRef, Ref
  <2> HIDE DEF s
  <2>4. PlainStep(x, s)
    BY <1>3, <1>4, <2>1, <2>2, <2>3
  <2>5. Plain /\ FlightInv'
    BY <1>7, <1>8, <1>13, <2>1, <2>2, <2>4 DEF FlightPoints, s
  <2>6. \A y \in Acked : IsCurrent(y)' \/ y \in draining' \/ (\E q \in Clients : lease'[q] = y)
                            => SharedRef(y)
    BY <1>2, <1>13, <2>2, <2>3, Start DEF SharedRef
  <2>7. \A q \in Clients, y \in Runs : lease'[q] = y => Settled(y)'
    BY <1>13, <2>2, Start DEF LostInv
  <2>8. nrun <= nrun' /\ Created' = Created /\ Created \subseteq Runs
    BY <1>13, Start DEF Created
  <2> QED
    BY <1>13, <2>5, <2>6, <2>7, <2>8, PlainKeeps
<1>14. CASE Release(t)
  <2> DEFINE r == lease[t]
  <2>1. /\ ReturnLease(t) /\ UNCHANGED <<nrun, finishing, queued, queue, reported, shuttingDown,
                                         flight, gone, draining, status>>
        /\ \/ UNCHANGED <<th, current>>
           \/ /\ r \in draining /\ current' = DropCurrent(r)
              /\ Goto(t, [Call("enqueue", "release", NoAgent) EXCEPT !.held = r])
    BY <1>14 DEF Release, ghostVars
  <2>2. /\ \A y \in Runs : IsCurrent(y)' => IsCurrent(y)
        /\ \A y : y # r => (IsCurrent(y) => IsCurrent(y)')
    BY <2>1, Start DEF IsCurrent, DropCurrent
  <2>3. \A y \in Runs : Settled(y) => Settled(y)'
    BY <2>1, <2>2 DEF Settled, IsCurrent, Acked
  <2> HIDE DEF r
  <2> QED
    BY <1>13, <2>1, <2>2, <2>3 DEF r
<1>15. CASE ReleaseAbandoned(t)
  <2>0. PICK r : r = lease[t]
    OBVIOUS
  <2>1. /\ ReturnLease(t) /\ UNCHANGED <<nrun, finishing, queued, queue, reported, shuttingDown,
                                         flight>>
        /\ \/ UNCHANGED <<th, current, draining, gone, status>>
           \/ /\ current' = DropCurrent(r)
              /\ status' = [status EXCEPT ![r] = AbandonedStatus(r)]
              /\ IF IsCurrent(r) THEN AppendDraining(r) ELSE UNCHANGED <<draining, gone>>
              /\ Goto(t, [Call("enqueue", "release", NoAgent) EXCEPT !.held = r])
    BY <1>15, <2>0 DEF ReleaseAbandoned, IsCurrent
  <2>2. r # NoRun /\ status \in [Runs -> {"", "cancelled", "failed"}]
    BY <2>0, <2>1 DEF ReturnLease, TypeOK, RunsOK
  <2>3. /\ \A y \in Runs : IsCurrent(y)' => IsCurrent(y)
        /\ \A y : y # r => (IsCurrent(y) => IsCurrent(y)')
    BY <2>1, Start DEF IsCurrent, DropCurrent
  <2>4. /\ gone \subseteq gone' /\ draining' \subseteq draining \cup {r}
        /\ \A y \in draining : y \in draining' \cup gone'
        /\ IsCurrent(r) => IsCurrent(r)' \/ r \in draining' \cup gone'
    <3>1. CASE UNCHANGED <<th, current, draining, gone, status>>
      <4>1. current' = current /\ draining' = draining /\ gone' = gone
        BY <3>1
      <4>2. IsCurrent(r) => IsCurrent(r)'
        BY <4>1 DEF IsCurrent
      <4> QED
        BY <4>1, <4>2
    <3>2. CASE IF IsCurrent(r) THEN AppendDraining(r) ELSE UNCHANGED <<draining, gone>>
      BY <2>2, <3>2, AppendKeeps
    <3> QED
      BY <2>1, <3>1, <3>2
  <2>5. \A y \in Runs : Settled(y) => Settled(y)'
    <3>1. shuttingDown' = shuttingDown /\ Acked' = Acked
      BY <2>1 DEF Acked
    <3> QED
      BY <2>3, <2>4, <3>1 DEF Settled
  <2>6. \A y \in Created : status'[y] = "failed" => status[y] = "failed"
    BY <2>0, <2>1, <2>2, Start DEF AbandonedStatus
  <2>7. \/ UNCHANGED th
        \/ Goto(t, [Call("enqueue", "release", NoAgent) EXCEPT !.held = r])
    BY <2>1
  <2> QED
    BY <1>13, <2>0, <2>1, <2>3, <2>4, <2>5, <2>6, <2>7
\* Steps of the request that leave control, leases and the queue alone.
<1>16. ASSUME UNCHANGED <<nrun, finishing, queued, queue, reported, shuttingDown, flight, th,
                          draining, lease>>,
              gone \subseteq gone',
              \A y \in Runs : IsCurrent(y)' => IsCurrent(y),
              \A y \in Runs : Settled(y) => Settled(y)',
              \A y \in Created : status'[y] = "failed" /\ ~shuttingDown
                                   => status[y] = "failed" \/ y \notin Acked
       PROVE  RunsInv'
  <2>1. Plain /\ FlightInv'
    <3>1. FlightInv'
      BY <1>16, FlightQuiet, Start
    <3> QED
      BY <1>16, <3>1 DEF Plain
  <2>2. \A y \in Acked : IsCurrent(y)' \/ y \in draining' \/ (\E q \in Clients : lease'[q] = y)
                            => SharedRef(y)
    BY <1>2, <1>16, Start DEF SharedRef
  <2>3. \A q \in Clients, y \in Runs : lease'[q] = y => Settled(y)'
    BY <1>16, Start DEF LostInv
  <2>4. nrun <= nrun' /\ Created' = Created /\ Created \subseteq Runs
    BY <1>16, Start DEF Created
  <2> QED
    BY <1>16, <2>1, <2>2, <2>3, <2>4, PlainKeeps
<1>17. CASE MarkFailed(t)
  <2> DEFINE r == lease[t]
  <2>1. /\ r # NoRun /\ status' = [status EXCEPT ![r] = "failed"]
        /\ UNCHANGED <<nrun, finishing, queued, queue, reported, shuttingDown, flight, th,
                       draining, lease, current, gone>>
    BY <1>17 DEF MarkFailed, ghostVars
  <2>2. r \in Created /\ r \in Runs /\ status \in [Runs -> {"", "cancelled", "failed"}]
    <3>1. r \in Created /\ r \in Runs
      BY <2>1, Start
    <3> QED
      BY <3>1 DEF TypeOK, RunsOK
  <2>3. ~shuttingDown => r \notin Acked
    <3> SUFFICES ASSUME ~shuttingDown, r \in Acked PROVE FALSE
      OBVIOUS
    <3>1. r \in finishing
      BY Start DEF FinishInv, AckedClaimed, Ref, SharedRef
    <3>2. inflight[r] = 0 /\ inflight[r] = Cardinality(Holders(r))
      BY <2>2, <3>1 DEF LeaseInv, NoFinishUnderLease, CountsHolders
    <3>3. t \in Holders(r) /\ IsFiniteSet(Holders(r))
      BY HoldersFinite DEF Holders
    <3> QED
      BY <3>2, <3>3, FS_EmptySet
  <2>4. \A y : (IsCurrent(y)' <=> IsCurrent(y)) /\ (Settled(y)' <=> Settled(y))
    BY <2>1 DEF IsCurrent, Settled, Acked
  <2>5. \A y \in Created : status'[y] = "failed" /\ ~shuttingDown
                              => status[y] = "failed" \/ y \notin Acked
    BY <2>1, <2>2, <2>3, Start
  <2> QED
    BY <1>16, <2>1, <2>4, <2>5
<1>18. CASE Invalidate(t)
  <2>1. PICK a : /\ current' = [current EXCEPT ![a] = NoRun]
                 /\ gone' = gone \cup ({current[a]} \ {NoRun})
                 /\ UNCHANGED <<nrun, finishing, queued, queue, reported, shuttingDown, flight, th,
                                draining, lease, status>>
    BY <1>18 DEF Invalidate
  <2>2. \A y \in Runs : IsCurrent(y)' => IsCurrent(y)
    BY <2>1, Start DEF IsCurrent
  <2>3. \A y \in Runs : Settled(y) => Settled(y)'
    <3> SUFFICES ASSUME NEW y \in Runs, NEW b \in Agents, current[b] = y
                 PROVE  current'[b] = y \/ y \in gone'
      BY <2>1 DEF Settled, IsCurrent, Acked
    <3> QED
      BY <2>1, Start
  <2> QED
    BY <1>16, <2>1, <2>2, <2>3
<1> QED
  BY <1>9, <1>10, <1>11, <1>12, <1>14, <1>15, <1>17, <1>18 DEF Request

---------------------------------------------------------------------------
(* Rotation.                                                               *)

\* The end of a flight is a plain step of the leader and of its waiters.
LEMMA FlightPlain ==
  ASSUME TypeOK, RunsInv, gone \subseteq gone', NEW t \in Threads, NEW a, NEW s, NEW woken,
         CloseFlight(t, a, s, woken), PlainStep(th[t], s),
         woken \in {AllDone, AllFailed, AllRetry}
  PROVE  /\ Plain
         /\ \A q \in Threads : th[q].pc = "wait" => woken[q].pc \notin FlightPoints
<1>1. ASSUME NEW q \in Threads, th[q].pc = "wait"
      PROVE  PlainStep(th[q], woken[q]) /\ woken[q].pc \notin FlightPoints
  <2>1. th[q].pc \in RotatePoints \ {"discard", "persist"}
    BY <1>1 DEF RotatePoints
  <2>2. CASE woken = AllDone
    BY <2>1, <2>2, Returns DEF AllDone
  <2>3. CASE woken = AllFailed
    BY <2>1, <2>3, Returns DEF AllFailed
  <2>4. CASE woken = AllRetry
    <3> DEFINE y == [th[q] EXCEPT !.pc = "rotate"]
    <3>1. /\ th[q] \in ThreadState /\ ControlOK(th[q])
          /\ \A r : Named(th[q], r) => Ref(r)
      BY Start DEF Ref
    <3>2. /\ y.pc = "rotate" /\ y.op = th[q].op /\ y.jobs = th[q].jobs /\ y.held = th[q].held
          /\ y.rot = th[q].rot
      BY <3>1 DEF ThreadState
    <3> HIDE DEF y
    <3>3. ControlOK(y)
      BY <1>1, <3>1, <3>2 DEF ControlOK, Loops, RotatePoints
    <3>4. /\ \A r : Named(y, r) => Ref(r)
          /\ \A r : Tends(th[q], r) => Tends(y, r)
          /\ ~Busy(y) /\ ~Busy(th[q])
      BY <1>1, <3>1, <3>2 DEF Named, Tends, Busy
    <3>5. PlainStep(th[q], y)
      BY <1>1, <3>2, <3>3, <3>4 DEF PlainStep
    <3> QED
      BY <2>4, <3>2, <3>5 DEF AllRetry, FlightPoints, y
  <2> QED
    BY <2>2, <2>3, <2>4
<1>2. \A q \in Threads : th'[q] = IF q = t THEN s
                                  ELSE IF th[q].pc = "wait" /\ th[q].agent = a THEN woken[q]
                                  ELSE th[q]
  BY DEF CloseFlight
<1>3. Plain
  BY <1>1, <1>2 DEF Plain
<1> QED
  BY <1>1, <1>3

\* A flight ends and nothing else changes but the runs let go.
LEMMA FlightEnds ==
  ASSUME TypeOK, TypeOK', RunsInv, NEW t \in Threads, Leading(t), NEW s, NEW woken,
         CloseFlight(t, th[t].agent, s, woken), PlainStep(th[t], s), s.pc \notin FlightPoints,
         woken \in {AllDone, AllFailed, AllRetry},
         UNCHANGED <<nrun, current, draining, lease, status, gone,
                     finishing, queued, queue, reported, shuttingDown>>
  PROVE  RunsInv'
<1>1. /\ Plain
      /\ \A q \in Threads : th[q].pc = "wait" => woken[q].pc \notin FlightPoints
  BY FlightPlain
<1>2. FlightInv'
  BY <1>1, FlightClosed, Start
<1>3. \A y : (IsCurrent(y)' <=> IsCurrent(y)) /\ (Settled(y)' <=> Settled(y))
  BY DEF IsCurrent, Settled, Acked
<1>4. \A q \in Clients, y \in Runs : lease'[q] = y => Settled(y)'
  BY <1>3, Start DEF LostInv
<1>5. nrun <= nrun' /\ Created' = Created
  BY NrunNat DEF Created
<1>6. \A y \in Acked : IsCurrent(y)' \/ y \in draining' \/ (\E q \in Clients : lease'[q] = y)
                          => SharedRef(y)
  BY <1>3 DEF SharedRef
<1> QED
  BY <1>1, <1>2, <1>3, <1>4, <1>5, <1>6, PlainKeeps

\* A flight ends with a new run for its agent: it becomes current, or it is
\* discarded by the leader.
LEMMA FlightLands ==
  ASSUME TypeOK, TypeOK', RunsInv, NEW t \in Threads, Leading(t), NEW s, NEW woken,
         NEW n, n = nrun + 1, nrun' = n, NEW a \in Agents, a = th[t].agent,
         CloseFlight(t, a, s, woken), PlainStep(th[t], s), s.pc \notin FlightPoints,
         woken \in {AllDone, AllFailed, AllRetry},
         \/ s.pc = "discard" /\ s.fresh = n /\ UNCHANGED <<current, draining, gone>>
         \/ current' = [current EXCEPT ![a] = n] /\ AppendDraining(current[a]),
         UNCHANGED <<lease, status, finishing, queued, queue, reported, shuttingDown>>
  PROVE  RunsInv'
<1>0. PICK old : old = current[a]
  OBVIOUS
<1>1. /\ gone \subseteq gone' /\ draining' \subseteq draining \cup {old}
      /\ \A y \in draining : y \in draining' \cup gone'
      /\ UNCHANGED current \/ (old # NoRun => old \in draining' \cup gone')
  <2>1. CASE UNCHANGED <<current, draining, gone>>
    BY <2>1
  <2>2. CASE AppendDraining(current[a])
    BY <1>0, <2>2, AppendKeeps
  <2> QED
    BY <2>1, <2>2
<1>2. /\ Plain
      /\ \A q \in Threads : th[q].pc = "wait" => woken[q].pc \notin FlightPoints
  BY <1>1, FlightPlain
<1>3. FlightInv'
  BY <1>2, FlightClosed, Start
<1>4. /\ Created = 1..nrun /\ Created' = 1..n /\ nrun \in Nat /\ n \notin Created
      /\ \A y \in Created' \ Created : y = n
  BY Start DEF Created
<1>5. n \notin Acked /\ Acked' = Acked
  BY <1>4, Start DEF Acked
<1>6. \A y : /\ IsCurrent(y)' => IsCurrent(y) \/ y = n
             /\ IsCurrent(y) => IsCurrent(y)' \/ y = old
  BY <1>0, Start DEF IsCurrent
<1>7. \A y \in Runs : Settled(y) => Settled(y)'
  <2> SUFFICES ASSUME NEW y \in Runs, Settled(y) PROVE Settled(y)'
    OBVIOUS
  <2>1. CASE IsCurrent(y) /\ ~IsCurrent(y)'
    <3>1. y = old /\ ~UNCHANGED current /\ y # NoRun
      BY <1>6, <2>1, Start DEF IsCurrent
    <3> QED
      BY <1>1, <3>1 DEF Settled
  <2>2. CASE ~(IsCurrent(y) /\ ~IsCurrent(y)')
    BY <1>1, <1>5, <2>2 DEF Settled
  <2> QED
    BY <2>1, <2>2
<1>8. Settled(n)' \/ Tended(n)'
  <2>1. CASE s.pc = "discard" /\ s.fresh = n
    <3>1. th'[t] = s
      BY DEF CloseFlight
    <3> QED
      BY <2>1, <3>1 DEF Tended, Tends
  <2>2. CASE current' = [current EXCEPT ![a] = n]
    <3>1. IsCurrent(n)'
      BY <2>2, Start DEF IsCurrent
    <3> QED
      BY <3>1 DEF Settled
  <2> QED
    BY <2>1, <2>2
<1>9. \A y \in Acked : IsCurrent(y)' \/ y \in draining' \/ (\E q \in Clients : lease'[q] = y)
                          => SharedRef(y)
  <2>1. \A y : y = old => IsCurrent(y)
    BY <1>0 DEF IsCurrent
  <2> QED
    BY <1>1, <1>5, <1>6, <2>1 DEF SharedRef
<1>10. \A q \in Clients, y \in Runs : lease'[q] = y => Settled(y)'
  BY <1>7, Start DEF LostInv
<1>11. nrun <= nrun' /\ \A y \in Created' \ Created : Settled(y)' \/ Tended(y)'
  BY <1>4, <1>8
<1>12. \A y \in Created : Settled(y) => Settled(y)' \/ Tended(y)'
  BY <1>7, Start
<1>13. Plain /\ FlightInv'
  BY <1>2, <1>3
<1> QED
  BY <1>1, <1>9, <1>10, <1>11, <1>12, <1>13, PlainKeeps

\* The steps of rotate keep the invariant.
LEMMA RunsRotation ==
  ASSUME TypeOK, TypeOK', RunsInv, NEW t \in Procs, Rotation(t)
  PROVE  RunsInv'
<1> DEFINE x == th[t]
<1>1. /\ t \in Threads /\ x \in ThreadState /\ ControlOK(x) /\ ThreadOK(nrun, x)
      /\ \A r : Named(x, r) => Ref(r)
  BY Start DEF Ref, Threads
<1>2. x.pc \in RotatePoints => x.agent \in Agents
  BY <1>1 DEF ThreadOK, ThreadState, RotatePoints
<1>3. ASSUME x.pc \in RotatePoints \ {"discard", "persist"}, NEW y, y.pc \in RotatePoints,
             y.pc \notin {"acquire", "lease", "persist"},
             y.op = x.op, y.jobs = x.jobs, y.rot = x.rot,
             \A r \in Acked : y.held = r => Ref(r)
      PROVE  PlainStep(x, y)
  <2>1. ControlOK(y) /\ y.op # "shutdown"
    BY <1>1, <1>3 DEF ControlOK, Loops, RotatePoints
  <2>2. /\ ~Busy(x) /\ ~Busy(y) /\ x.pc \notin {"push", "claim"}
        /\ \A r : Tends(x, r) => r \in x.jobs
    BY <1>3 DEF Busy, RotatePoints, Tends
  <2> QED
    BY <1>1, <1>3, <2>1, <2>2 DEF PlainStep, Named, Tends
<1>4. \A p : LET y == [x EXCEPT !.pc = p] IN
         /\ y.pc = p /\ y.op = x.op /\ y.jobs = x.jobs /\ y.rot = x.rot /\ y.held = x.held
         /\ y.agent = x.agent
  BY <1>1 DEF ThreadState
<1>5. \A r \in Acked : x.held = r => Ref(r)
  BY <1>1 DEF Named
<1>6. CASE RotateCheck(t) /\ UNCHANGED flight
  <2>1. /\ x.pc = "rotate" /\ UNCHANGED <<nrun, managerVars, lease, ghostVars>>
    BY <1>6 DEF RotateCheck, At, managerVars
  <2>2. \/ Goto(t, Failed(x)) \/ Goto(t, Done(x))
        \/ x.agent \in flight /\ Goto(t, [x EXCEPT !.pc = "wait"])
    <3>1. CASE x.agent \in flight
      BY <1>6, <3>1 DEF RotateCheck
    <3>2. CASE x.agent \notin flight
      BY <1>6, <3>2 DEF RotateCheck
    <3> QED
      BY <3>1, <3>2
  <2>3. ASSUME NEW y, y.pc \notin FlightPoints PROVE SteadyStep(x, y)
    BY <2>1, <2>3 DEF SteadyStep, FlightPoints
  <2>4. CASE Goto(t, Failed(x)) \/ Goto(t, Done(x))
    <3>1. gone \subseteq gone' /\ x.pc \in RotatePoints \ {"discard", "persist"}
      BY <2>1 DEF ghostVars, RotatePoints
    <3>2. /\ PlainStep(x, Failed(x)) /\ SteadyStep(x, Failed(x))
          /\ PlainStep(x, Done(x)) /\ SteadyStep(x, Done(x))
      BY <1>1, <2>3, <3>1, Returns
    <3> QED
      BY <1>1, <2>1, <2>4, <3>2, Moves
  <2>5. CASE x.agent \in flight /\ Goto(t, [x EXCEPT !.pc = "wait"])
    <3> DEFINE y == [x EXCEPT !.pc = "wait"]
    <3>1. /\ y.pc = "wait" /\ y.op = x.op /\ y.jobs = x.jobs /\ y.rot = x.rot /\ y.held = x.held
          /\ y.agent = x.agent /\ Goto(t, y)
      BY <1>4, <2>5
    <3> HIDE DEF y
    <3>2. PlainStep(x, y)
      BY <1>3, <1>5, <2>1, <3>1 DEF RotatePoints
    <3>3. SteadyStep(x, y)
      BY <2>1, <2>5, <3>1 DEF SteadyStep, FlightPoints
    <3> QED
      BY <1>1, <2>1, <3>1, <3>2, <3>3, Moves
  <2> QED
    BY <2>2, <2>4, <2>5
<1>7. CASE RotateCheck(t) /\ ~UNCHANGED flight
  <2> DEFINE p == IF HasStore THEN "load" ELSE "start"
  <2> DEFINE y == [x EXCEPT !.pc = p]
  <2>1. PICK a \in Agents : a = x.agent
    BY <1>2, <1>7 DEF RotateCheck, At, RotatePoints
  <2>2. /\ x.pc = "rotate" /\ a \notin flight /\ flight' = flight \cup {a} /\ Goto(t, y)
        /\ UNCHANGED <<nrun, finishing, queued, status, current, draining, queue, shuttingDown,
                       lease, reported, gone>>
    BY <1>7, <2>1 DEF RotateCheck, At, ghostVars
  <2>3. p \in {"load", "start"}
    OBVIOUS
  <2>4. /\ y.pc = p /\ y.op = x.op /\ y.jobs = x.jobs /\ y.rot = x.rot /\ y.held = x.held
        /\ y.agent = a
    BY <1>4, <2>1
  <2> HIDE DEF y
  <2>5. PlainStep(x, y)
    BY <1>3, <1>5, <2>2, <2>3, <2>4 DEF RotatePoints
  <2>6. th'[t] = y /\ \A q \in Threads \ {t} : th'[q] = th[q]
    BY <1>1, <2>2 DEF Goto, TypeOK, ThreadsOK
  <2>7. Plain
    BY <2>5, <2>6 DEF Plain
  <2>8. FlightInv'
    <3>1. ~Leading(t) /\ Leading(t)' /\ th'[t].agent = a /\ th'[t].pc # "wait"
      BY <2>2, <2>3, <2>4, <2>6 DEF Leading
    <3>2. \A q \in Threads \ {t} : (Leading(q)' <=> Leading(q)) /\ th'[q].agent = th[q].agent
      BY <2>6 DEF Leading
    <3>3. \A q \in Threads : Leading(q) => th[q].agent # a
      BY <2>2, Start DEF FlightInv
    <3>4. \A u, v \in Threads : Leading(u)' /\ Leading(v)' /\ th'[u].agent = th'[v].agent => u = v
      BY <3>1, <3>2, <3>3, Start DEF FlightInv, SingleFlight
    <3>5. \A q \in Threads : At(q, "wait")' => th'[q].agent \in flight'
      BY <2>2, <2>6, <3>1, Start DEF FlightInv, SingleFlight, At
    <3>6. \A b \in flight' : \E q \in Threads : Leading(q)' /\ th'[q].agent = b
      <4> SUFFICES ASSUME NEW b \in flight' PROVE \E q \in Threads : Leading(q)' /\ th'[q].agent = b
        OBVIOUS
      <4>1. CASE b = a
        BY <1>1, <3>1, <4>1
      <4>2. CASE b \in flight
        <5>1. PICK q \in Threads : Leading(q) /\ th[q].agent = b
          BY <4>2, Start DEF FlightInv, SingleFlight
        <5> QED
          BY <2>6, <3>1, <3>2, <5>1
      <4> QED
        BY <2>2, <4>1, <4>2
    <3>7. \A q \in Threads : Leading(q)' => th'[q].agent \in flight'
      BY <2>2, <3>1, <3>2, Start DEF FlightInv
    <3> QED
      BY <3>4, <3>5, <3>6, <3>7 DEF FlightInv, SingleFlight
  <2>9. \A r : (IsCurrent(r)' <=> IsCurrent(r)) /\ (Settled(r)' <=> Settled(r))
    BY <2>2 DEF IsCurrent, Settled, Acked
  <2>10. \A q \in Clients, r \in Runs : lease'[q] = r => Settled(r)'
    BY <2>2, <2>9, Start DEF LostInv
  <2>11. nrun <= nrun' /\ Created' = Created
    BY <2>2, NrunNat DEF Created
  <2>12. \A r \in Acked : IsCurrent(r)' \/ r \in draining' \/ (\E q \in Clients : lease'[q] = r)
                             => SharedRef(r)
    BY <2>2, <2>9 DEF SharedRef
  <2> QED
    BY <2>2, <2>7, <2>8, <2>9, <2>10, <2>11, <2>12, PlainKeeps
<1>8. CASE LoadRun(t)
  <2>1. x.pc = "load" /\ UNCHANGED <<nrun, managerVars, lease, ghostVars>>
    BY <1>8 DEF LoadRun, At
  <2>0. PICK p : p = IF store[x.agent] = NoRun THEN "start"
                     ELSE IF store[x.agent] \in aged THEN "stale" ELSE "resume"
    OBVIOUS
  <2>9. PICK f : f = IF store[x.agent] \in aged THEN NoRun ELSE store[x.agent]
    OBVIOUS
  <2>2. p \in {"start", "stale", "resume"} /\ Goto(t, [x EXCEPT !.pc = p, !.fresh = f])
    BY <1>8, <2>0, <2>9 DEF LoadRun
  <2> DEFINE y == [x EXCEPT !.pc = p, !.fresh = f]
  <2>3. /\ y.pc = p /\ y.op = x.op /\ y.jobs = x.jobs /\ y.rot = x.rot /\ y.held = x.held
        /\ y.agent = x.agent
    BY <1>1 DEF ThreadState
  <2>4. Goto(t, y)
    BY <2>2
  <2> HIDE DEF y
  <2>5. PlainStep(x, y)
    BY <1>3, <1>5, <2>1, <2>2, <2>3 DEF RotatePoints
  <2>6. SteadyStep(x, y)
    BY <2>1, <2>2, <2>3 DEF SteadyStep, FlightPoints
  <2> QED
    BY <1>1, <2>1, <2>4, <2>5, <2>6, Moves
<1>9. CASE DropStaleRecord(t)
  <2> DEFINE y == [x EXCEPT !.pc = "start"]
  <2>1. x.pc = "stale" /\ Goto(t, y) /\ UNCHANGED <<nrun, managerVars, lease, ghostVars>>
    BY <1>9 DEF DropStaleRecord, At
  <2>2. /\ y.pc = "start" /\ y.op = x.op /\ y.jobs = x.jobs /\ y.rot = x.rot /\ y.held = x.held
        /\ y.agent = x.agent
    BY <1>4
  <2> HIDE DEF y
  <2>3. PlainStep(x, y)
    BY <1>3, <1>5, <2>1, <2>2 DEF RotatePoints
  <2>4. SteadyStep(x, y)
    BY <2>1, <2>2 DEF SteadyStep, FlightPoints
  <2> QED
    BY <1>1, <2>1, <2>3, <2>4, Moves
\* The leader gives up.
<1>10. ASSUME Leading(t), NEW woken, woken \in {AllDone, AllFailed, AllRetry},
              CloseFlight(t, x.agent, Failed(x), woken),
              UNCHANGED <<nrun, current, draining, lease, status, gone,
                          finishing, queued, queue, reported, shuttingDown>>
       PROVE  RunsInv'
  <2>1. gone \subseteq gone' /\ x.pc \in RotatePoints \ {"discard", "persist"}
    BY <1>10 DEF Leading, RotatePoints
  <2>2. PlainStep(x, Failed(x)) /\ Failed(x).pc \notin FlightPoints
    BY <1>1, <2>1, Returns
  <2> QED
    BY <1>1, <1>10, <2>2, FlightEnds
<1>11. CASE StartRunFailed(t)
  <2>1. /\ Leading(t)
        /\ UNCHANGED <<nrun, current, draining, lease, status, gone,
                       finishing, queued, queue, reported, shuttingDown>>
    BY <1>11 DEF StartRunFailed, At, Leading, ghostVars
  <2>2. \/ CloseFlight(t, x.agent, Failed(x), AllFailed)
        \/ CloseFlight(t, x.agent, Failed(x), AllRetry)
    BY <1>11 DEF StartRunFailed
  <2> QED
    BY <1>10, <2>1, <2>2
<1>12. CASE ResumeRun(t)
  <2>1. Leading(t) /\ UNCHANGED <<finishing, queued, status, queue, shuttingDown, lease, reported>>
    BY <1>12 DEF ResumeRun, At, Leading
  <2>2. CASE shuttingDown
    <3>1. /\ CloseFlight(t, x.agent, Failed(x), AllFailed)
          /\ UNCHANGED <<nrun, current, draining, gone>>
      BY <1>12, <2>2 DEF ResumeRun
    <3> QED
      BY <1>10, <2>1, <3>1
  <2>3. CASE ~shuttingDown
    <3>1. PICK a \in Agents : a = x.agent
      BY <1>2, <1>12 DEF ResumeRun, At, RotatePoints
    <3>2. PICK n : n = nrun + 1
      OBVIOUS
    <3> DEFINE s == Retire(x, current[a])
    <3>3. /\ nrun' = n /\ current' = [current EXCEPT ![a] = n] /\ AppendDraining(current[a])
          /\ CloseFlight(t, a, s, AllDone)
      BY <1>12, <2>3, <3>1, <3>2 DEF ResumeRun, NewRun
    <3>4. gone \subseteq gone' /\ x.pc \in RotatePoints \ {"discard", "persist"}
      BY <2>1, <3>3, AppendKeeps DEF Leading, RotatePoints
    <3>5. PlainStep(x, s) /\ s.pc \notin FlightPoints
      BY <1>1, <3>4, Returns
    <3> HIDE DEF s
    <3> QED
      BY <1>1, <2>1, <3>1, <3>2, <3>3, <3>5, FlightLands
  <2> QED
    BY <2>2, <2>3
<1>13. CASE StartRunOK(t)
  <2>1. /\ x.pc = "start" /\ Leading(t)
        /\ UNCHANGED <<finishing, queued, status, queue, shuttingDown, lease, reported>>
    BY <1>13 DEF StartRunOK, At, Leading
  <2>2. PICK a \in Agents : a = x.agent
    BY <1>2, <2>1 DEF RotatePoints
  <2>3. PICK n : n = nrun + 1
    OBVIOUS
  <2>4. nrun' = n
    BY <1>13, <2>3 DEF StartRunOK, NewRun
  <2>5. CASE shuttingDown
    <3> DEFINE s == [x EXCEPT !.pc = "discard", !.fresh = n]
    <3>1. CloseFlight(t, a, s, AllDone) /\ UNCHANGED <<current, draining, gone>>
      BY <1>13, <2>2, <2>3, <2>5 DEF StartRunOK, StartDiscarded
    <3>2. /\ s.pc = "discard" /\ s.op = x.op /\ s.jobs = x.jobs /\ s.rot = x.rot /\ s.held = x.held
          /\ s.fresh = n
      BY <1>1 DEF ThreadState
    <3> HIDE DEF s
    <3>3. PlainStep(x, s) /\ s.pc \notin FlightPoints
      BY <1>3, <1>5, <2>1, <3>2 DEF RotatePoints, FlightPoints
    <3> QED
      BY <1>1, <2>1, <2>2, <2>3, <2>4, <3>1, <3>2, <3>3, FlightLands
  <2>6. CASE ~shuttingDown
    <3>1. /\ current' = [current EXCEPT ![a] = n] /\ AppendDraining(current[a])
          /\ CloseFlight(t, a, IF HasStore
                               THEN [x EXCEPT !.pc = "persist", !.fresh = n, !.held = current[a]]
                               ELSE Retire(x, current[a]), AllDone)
      BY <1>13, <2>2, <2>3, <2>6 DEF StartRunOK, StartDiscarded
    <3>2. gone \subseteq gone' /\ x.pc \in RotatePoints \ {"discard", "persist"}
      BY <2>1, <3>1, AppendKeeps DEF RotatePoints
    <3>3. PICK s : /\ CloseFlight(t, a, s, AllDone)
                   /\ \/ s = [x EXCEPT !.pc = "persist", !.fresh = n, !.held = current[a]]
                      \/ s = Retire(x, current[a])
      BY <3>1
    <3>4. CASE s = [x EXCEPT !.pc = "persist", !.fresh = n, !.held = current[a]]
      <4>1. /\ s.pc = "persist" /\ s.op = x.op /\ s.jobs = x.jobs /\ s.rot = x.rot
            /\ s.held = current[a]
        BY <1>1, <3>4 DEF ThreadState
      <4>2. Ref(current[a])
        BY DEF Ref, SharedRef, IsCurrent
      <4>3. ControlOK(s) /\ s.op # "shutdown"
        BY <1>1, <2>1, <4>1 DEF ControlOK, Loops, RotatePoints
      <4>4. \A r : Tends(x, r) => r \in x.jobs
        BY <2>1 DEF Tends
      <4>5. PlainStep(x, s)
        BY <1>1, <2>1, <4>1, <4>2, <4>3, <4>4 DEF PlainStep, Busy, Named, Tends
      <4>6. s.pc \notin FlightPoints
        BY <4>1 DEF FlightPoints
      <4> QED
        BY <1>1, <2>1, <2>2, <2>3, <2>4, <3>1, <3>3, <4>5, <4>6, FlightLands
    <3>5. CASE s = Retire(x, current[a])
      <4>1. PlainStep(x, s) /\ s.pc \notin FlightPoints
        BY <1>1, <3>2, <3>5, Returns
      <4> QED
        BY <1>1, <2>1, <2>2, <2>3, <2>4, <3>1, <3>3, <4>1, FlightLands
    <3> QED
      BY <3>3, <3>4, <3>5
  <2> QED
    BY <2>5, <2>6
\* A goroutine leaves rotate and lets at most its fresh run go.
<1>14. ASSUME NEW y, Goto(t, y), x.pc \in {"discard", "persist"}, PlainStep(x, y),
              y.pc \notin FlightPoints, gone \subseteq gone',
              UNCHANGED <<nrun, managerVars, lease, reported>>
       PROVE  RunsInv'
  <2>0. /\ nrun' = nrun /\ current' = current /\ draining' = draining /\ queue' = queue
        /\ lease' = lease /\ finishing' = finishing /\ reported' = reported
        /\ shuttingDown' = shuttingDown /\ status' = status /\ flight' = flight /\ queued' = queued
    BY <1>14 DEF managerVars
  <2>1. th'[t] = y /\ \A q \in Threads \ {t} : th'[q] = th[q]
    BY <1>1, <1>14 DEF Goto, TypeOK, ThreadsOK
  <2>2. Plain
    BY <1>14, <2>1 DEF Plain
  <2>3. FlightInv'
    <3>1. \A q \in Threads : th'[q] = th[q] \/ SteadyStep(th[q], th'[q])
      BY <1>14, <2>1 DEF SteadyStep, FlightPoints
    <3> QED
      BY <2>0, <3>1, FlightQuiet, Start
  <2>4. \A r : (IsCurrent(r)' <=> IsCurrent(r)) /\ (Settled(r) => Settled(r)')
    BY <1>14, <2>0 DEF IsCurrent, Settled, Acked
  <2>5. \A q \in Clients, r \in Runs : lease'[q] = r => Settled(r)'
    BY <2>0, <2>4, Start DEF LostInv
  <2>6. nrun <= nrun' /\ Created' = Created
    BY <2>0, NrunNat DEF Created
  <2>7. \A r \in Acked : IsCurrent(r)' \/ r \in draining' \/ (\E q \in Clients : lease'[q] = r)
                            => SharedRef(r)
    BY <2>0, <2>4 DEF SharedRef
  <2> QED
    BY <1>14, <2>0, <2>2, <2>3, <2>4, <2>5, <2>6, <2>7, PlainKeeps
<1>15. CASE FinishInline(t)
  <2>1. /\ x.pc = "discard" /\ gone' = gone \cup {x.fresh} /\ Goto(t, Failed(x))
        /\ UNCHANGED <<nrun, managerVars, lease, reported>>
    BY <1>15 DEF FinishInline, At
  <2> DEFINE y == Failed(x)
  <2>2. /\ ControlOK(y) /\ y.pc \in {"lease", "loop", "next", "idle"} /\ y.jobs = x.jobs
        /\ y.held = NoRun
        /\ y.op = "shutdown" => x.op = "shutdown"
    BY <1>1, <2>1, FailedFacts DEF RotatePoints
  <2> HIDE DEF y
  <2>3. /\ \A r : Tends(x, r) => r \in x.jobs \/ r = x.fresh
        /\ ~Busy(x) /\ ~Busy(y) /\ x.pc \notin {"push", "claim"}
        /\ NoRun \notin Acked
    BY <2>1, <2>2, Start DEF Tends, Busy
  <2>4. PlainStep(x, y)
    BY <1>1, <2>1, <2>2, <2>3 DEF PlainStep, Named, Tends
  <2>5. Goto(t, y) /\ y.pc \notin FlightPoints
    BY <2>1, <2>2 DEF y, FlightPoints
  <2> QED
    BY <1>14, <2>1, <2>4, <2>5
<1>16. CASE PersistRun(t)
  <2>1. /\ x.pc = "persist" /\ Goto(t, Retire(x, x.held))
        /\ UNCHANGED <<nrun, managerVars, lease, reported, gone>>
    BY <1>16 DEF PersistRun, At, ghostVars
  <2> DEFINE y == Retire(x, x.held)
  <2>2. /\ ControlOK(y) /\ y.pc \in {"lease", "loop", "next", "idle", "enqueue"}
        /\ y.jobs = x.jobs /\ y.held = x.held
        /\ y.held # NoRun => y.pc = "enqueue"
        /\ y.op = "shutdown" => x.op = "shutdown"
    BY <1>1, RetireFacts
  <2> HIDE DEF y
  <2>3. /\ \A r \in Created : Tends(x, r) => Tends(y, r)
        /\ ~Busy(x) /\ ~Busy(y) /\ x.pc \notin {"push", "claim"}
    BY <2>1, <2>2, Start DEF Tends, Busy
  <2>4. PlainStep(x, y)
    BY <1>1, <2>2, <2>3 DEF PlainStep, Named
  <2>5. Goto(t, y) /\ y.pc \notin FlightPoints
    BY <2>1, <2>2 DEF y, FlightPoints
  <2> QED
    BY <1>14, <2>1, <2>4, <2>5
<1> QED
  BY <1>6, <1>7, <1>8, <1>9, <1>11, <1>12, <1>13, <1>15, <1>16 DEF Rotation

---------------------------------------------------------------------------
(* Steps that claim, finish and let go.                                    *)

\* Goroutine t moves to s; the worker may be started on the way.
Stirs(t, s) ==
  /\ th'[t] = s
  /\ \A u \in Threads \ {t} : \/ th'[u] = th[u]
                              \/ th[u].pc = "off" /\ th'[u] = Done(th[u])

\* What is left of the others.
LEMMA StirsFacts ==
  ASSUME TypeOK, RunsInv, NEW t \in Threads, NEW s, Stirs(t, s)
  PROVE  \A u \in Threads \ {t} :
           /\ ControlOK(th'[u]) /\ (Busy(th'[u]) <=> Busy(th[u]))
           /\ Busy(th[u]) => th'[u] = th[u]
           /\ th'[u].jobs = th[u].jobs
           /\ th'[u].op = "shutdown" => th[u].op = "shutdown"
           /\ \A r \in Created : /\ Named(th'[u], r) => Named(th[u], r)
                                 /\ Tends(th[u], r) => Tends(th'[u], r)
           /\ th[u].pc \in {"push", "claim"} => th'[u] = th[u]
           /\ th'[u] = th[u] \/ SteadyStep(th[u], th'[u])
<1> SUFFICES ASSUME NEW u \in Threads \ {t}
             PROVE  /\ ControlOK(th'[u]) /\ (Busy(th'[u]) <=> Busy(th[u]))
                    /\ Busy(th[u]) => th'[u] = th[u]
                    /\ th'[u].jobs = th[u].jobs
                    /\ th'[u].op = "shutdown" => th[u].op = "shutdown"
                    /\ \A r \in Created : /\ Named(th'[u], r) => Named(th[u], r)
                                          /\ Tends(th[u], r) => Tends(th'[u], r)
                    /\ th[u].pc \in {"push", "claim"} => th'[u] = th[u]
                    /\ th'[u] = th[u] \/ SteadyStep(th[u], th'[u])
  OBVIOUS
<1>1. ControlOK(th[u]) /\ th[u] \in ThreadState /\ NoRun \notin Created
  BY Start
<1>2. CASE th'[u] = th[u]
  BY <1>1, <1>2
<1>3. CASE th[u].pc = "off" /\ th'[u] = Done(th[u])
  <2>1. /\ ControlOK(th'[u]) /\ th'[u].pc \in {"lease", "loop", "next", "idle"}
        /\ th'[u].jobs = th[u].jobs /\ th'[u].held = NoRun
        /\ th'[u].op = "shutdown" => th[u].op = "shutdown"
    BY <1>1, <1>3, DoneFacts
  <2>2. ~Busy(th[u]) /\ ~Busy(th'[u]) /\ SteadyStep(th[u], th'[u])
    BY <1>3, <2>1 DEF Busy, SteadyStep, FlightPoints
  <2>3. \A r \in Created : /\ Named(th'[u], r) => Named(th[u], r)
                           /\ Tends(th[u], r) => Tends(th'[u], r)
    BY <1>1, <1>3, <2>1 DEF Named, Tends
  <2> QED
    BY <1>3, <2>1, <2>2, <2>3
<1> QED
  BY <1>2, <1>3 DEF Stirs

\* Such a step keeps control and flights in order.
LEMMA StirsSteady ==
  ASSUME TypeOK, RunsInv, NEW t \in Threads, NEW s, Stirs(t, s),
         ControlOK(s), SteadyStep(th[t], s), UNCHANGED flight
  PROVE  Controlled' /\ FlightInv'
<1>1. \A q \in Threads : ControlOK(th'[q]) /\ (th'[q] = th[q] \/ SteadyStep(th[q], th'[q]))
  BY StirsFacts DEF Stirs
<1>2. Controlled'
  BY <1>1 DEF Controlled
<1>3. FlightInv'
  BY <1>1, FlightQuiet, Start
<1> QED
  BY <1>2, <1>3

\* What upstream hears stays exact when a step touches the claim of one run k
\* at most, which no other goroutine is finishing.
LEMMA FinishStep ==
  ASSUME TypeOK, TypeOK', RunsInv, NEW t \in Threads, NEW s, Stirs(t, s), NEW k,
         UNCHANGED <<nrun, status>>, shuttingDown => shuttingDown',
         \A u \in Threads \ {t} : Busy(th[u]) => th[u].held # k,
         \A u \in Threads : th[u].op = "shutdown" => k \notin th[u].jobs,
         finishing \ {k} \subseteq finishing',
         Acked \subseteq Acked', Acked' \subseteq Acked \cup {k}, k \in Acked' => k \in finishing',
         Busy(s) => /\ s.held \in finishing' /\ (s.held \in Acked' <=> s.pc = "sentOK")
                    /\ \A u \in Threads \ {t} : Busy(th[u]) => th[u].held # s.held
                    /\ \A u \in Threads \ {t} : th[u].op = "shutdown" => s.held \notin th[u].jobs
                    /\ s.op = "shutdown" => s.held \notin s.jobs,
         s.op = "shutdown" =>
           /\ th[t].op = "shutdown" \/ (~shuttingDown /\ shuttingDown')
           /\ \A r \in s.jobs : \/ th[t].op = "shutdown" /\ r \in th[t].jobs
                                \/ /\ r \in finishing' /\ r \notin Acked'
                                   /\ \A u \in Threads \ {t} : Busy(th[u]) => th[u].held # r,
         \A r \in Acked : Named(s, r) \/ SharedRef(r)' => Ref(r),
         \A r \in Created : \/ reported'[r] = reported[r]
                            \/ status[r] = "failed" => reported'[r] = "failed"
  PROVE  FinishInv'
<1>1. \A u \in Threads \ {t} :
           /\ Busy(th'[u]) => th'[u] = th[u] /\ Busy(th[u])
           /\ th'[u].jobs = th[u].jobs
           /\ th'[u].op = "shutdown" => th[u].op = "shutdown"
           /\ \A r \in Created : Named(th'[u], r) => Named(th[u], r)
  BY StirsFacts
<1>2. th'[t] = s /\ Created' = Created
  BY DEF Stirs, Created
<1>3. ShutdownAlone'
  <2>1. \A u \in Threads : th'[u].op = "shutdown" => shuttingDown'
    BY <1>1, <1>2, Start DEF FinishInv, ShutdownAlone
  <2>2. \A u \in Threads : th'[u].op = "shutdown" =>
                             th[u].op = "shutdown" \/ (u = t /\ ~shuttingDown)
    BY <1>1, <1>2
  <2>3. \A u, v \in Threads : th'[u].op = "shutdown" /\ th'[v].op = "shutdown" => u = v
    BY <2>2, Start DEF FinishInv, ShutdownAlone
  <2> QED
    BY <2>1, <2>3 DEF ShutdownAlone
<1>4. ClaimsHeld'
  <2>1. \A u \in Threads \ {t} : Busy(th'[u]) =>
            th'[u].held \in finishing' /\ (th'[u].held \in Acked' <=> th'[u].pc = "sentOK")
    BY <1>1, Start DEF FinishInv, ClaimsHeld
  <2>2. \A u \in Threads : Busy(th'[u]) =>
            th'[u].held \in finishing' /\ (th'[u].held \in Acked' <=> th'[u].pc = "sentOK")
    BY <1>2, <2>1
  <2>3. \A u, v \in Threads : Busy(th'[u]) /\ Busy(th'[v]) /\ th'[u].held = th'[v].held => u = v
    <3> SUFFICES ASSUME NEW u \in Threads, NEW v \in Threads, Busy(th'[u]), Busy(th'[v]),
                        th'[u].held = th'[v].held, u # v
                 PROVE  FALSE
      OBVIOUS
    <3>1. CASE u # t /\ v # t
      BY <1>1, <3>1, Start DEF FinishInv, ClaimsHeld
    <3>2. CASE u = t \/ v = t
      BY <1>1, <1>2, <3>2
    <3> QED
      BY <3>1, <3>2
  <2> QED
    BY <2>2, <2>3 DEF ClaimsHeld
<1>5. AckedClaimed'
  <2>1. Acked' \subseteq Created'
    <3>1. finishing' \subseteq Created'
      BY DEF TypeOK, ManagerOK
    <3> QED
      BY <1>2, <3>1, Start
  <2>2. ASSUME NEW r \in Acked, Ref(r)' PROVE Ref(r)
    <3>1. SharedRef(r)' \/ \E u \in Threads : Named(th'[u], r)
      BY <2>2 DEF Ref
    <3>2. ASSUME NEW u \in Threads \ {t}, Named(th'[u], r) PROVE Ref(r)
      BY <1>1, <3>2, Start DEF Ref
    <3> QED
      BY <1>2, <3>1, <3>2
  <2>3. \A r \in Acked' : Ref(r)' => r \in finishing'
    BY <2>2, Start DEF FinishInv, AckedClaimed
  <2> QED
    BY <2>1, <2>3 DEF AckedClaimed
<1>6. ShutdownJobs'
  <2> SUFFICES ASSUME NEW u \in Threads, th'[u].op = "shutdown", NEW r \in th'[u].jobs
               PROVE  /\ r \in finishing' /\ r \notin Acked'
                      /\ \A v \in Threads : Busy(th'[v]) => th'[v].held # r
    BY DEF ShutdownJobs
  <2>1. ASSUME th[u].op = "shutdown", r \in th[u].jobs
        PROVE  /\ r \in finishing' /\ r \notin Acked'
               /\ \A v \in Threads \ {t} : Busy(th'[v]) => th'[v].held # r
    <3>1. /\ r \in finishing /\ r \notin Acked /\ r # k
          /\ \A v \in Threads : Busy(th[v]) => th[v].held # r
      BY <2>1, Start DEF FinishInv, ShutdownJobs
    <3> QED
      BY <1>1, <3>1
  <2>2. /\ r \in finishing' /\ r \notin Acked'
        /\ \A v \in Threads \ {t} : Busy(th'[v]) => th'[v].held # r
    <3>1. CASE u # t
      BY <1>1, <2>1, <3>1
    <3>2. CASE u = t
      BY <1>1, <1>2, <2>1, <3>2
    <3> QED
      BY <3>1, <3>2
  <2>3. Busy(th'[t]) => th'[t].held # r
    BY <1>1, <1>2
  <2> QED
    BY <2>2, <2>3
<1>7. HonestFinish'
  BY <1>2, Start DEF FinishInv, HonestFinish
<1> QED
  BY <1>3, <1>4, <1>5, <1>6, <1>7 DEF FinishInv

\* No run is lost when what t gives up is settled, queued or tended by another.
LEMMA LostStep ==
  ASSUME TypeOK, RunsInv, NEW t \in Threads, NEW s, Stirs(t, s), UNCHANGED <<nrun, lease>>,
         \A r \in Created : Settled(r) \/ InQueue(r) =>
           Settled(r)' \/ InQueue(r)' \/ Tends(s, r),
         \A r \in Created : Tends(th[t], r) =>
           \/ Settled(r)' \/ InQueue(r)' \/ Tends(s, r)
           \/ \E u \in Threads \ {t} : Tends(th[u], r),
         \A r \in queued' :
           \/ InQueue(r)'
           \/ s.pc \in {"push", "claim"} /\ s.held = r
           \/ \E u \in Threads \ {t} : th[u].pc \in {"push", "claim"} /\ th[u].held = r,
         \A r \in finishing' :
           \/ r \in Acked' \/ shuttingDown'
           \/ Busy(s) /\ s.held = r
           \/ \E u \in Threads \ {t} : Busy(th[u]) /\ th[u].held = r,
         \A q \in Clients : lease[q] # NoRun => Settled(lease[q])'
  PROVE  LostInv'
<1>1. /\ th'[t] = s /\ Created' = Created
      /\ \A u \in Threads \ {t} :
           /\ Busy(th[u]) => th'[u] = th[u]
           /\ \A r \in Created : Tends(th[u], r) => Tends(th'[u], r)
           /\ th[u].pc \in {"push", "claim"} => th'[u] = th[u]
  BY StirsFacts DEF Stirs, Created
<1>2. ASSUME NEW r \in Created PROVE Settled(r)' \/ InQueue(r)' \/ Tended(r)'
  <2>1. Tends(s, r) => Tended(r)'
    BY <1>1 DEF Tended
  <2>2. (\E u \in Threads \ {t} : Tends(th[u], r)) => Tended(r)'
    BY <1>1 DEF Tended
  <2>3. Tended(r) => Tends(th[t], r) \/ \E u \in Threads \ {t} : Tends(th[u], r)
    BY DEF Tended
  <2>4. Settled(r) \/ InQueue(r) \/ Tended(r)
    BY Start DEF LostInv
  <2> QED
    BY <2>1, <2>2, <2>3, <2>4
<1>3. \A r \in queued' : \/ InQueue(r)'
                         \/ \E u \in Threads : th'[u].pc \in {"push", "claim"} /\ th'[u].held = r
  BY <1>1
<1>4. \A r \in finishing' : \/ r \in Acked' \/ shuttingDown'
                            \/ \E u \in Threads : Busy(th'[u]) /\ th'[u].held = r
  BY <1>1
<1>5. ASSUME NEW q \in Clients, lease'[q] # NoRun PROVE Settled(lease[q])'
  <2>1. lease'[q] = lease[q]
    OBVIOUS
  <2> QED
    BY <1>5, <2>1 DEF Settled, IsCurrent
<1> QED
  BY <1>1, <1>2, <1>3, <1>4, <1>5 DEF LostInv

\* What is left of a claim or of a queued marker when t does not have it.
LEMMA Elsewhere ==
  ASSUME TypeOK, RunsInv, NEW t \in Threads
  PROVE  /\ \A r \in finishing :
              \/ r \in Acked \/ shuttingDown
              \/ Busy(th[t]) /\ th[t].held = r
              \/ \E u \in Threads \ {t} : Busy(th[u]) /\ th[u].held = r
         /\ \A r \in queued :
              \/ InQueue(r)
              \/ th[t].pc \in {"push", "claim"} /\ th[t].held = r
              \/ \E u \in Threads \ {t} : th[u].pc \in {"push", "claim"} /\ th[u].held = r
  BY Start DEF LostInv

\* A goroutine that is finishing a run has a run that exists and that nobody
\* else is finishing, and no run is NoRun.
LEMMA ClaimFacts ==
  ASSUME TypeOK, RunsInv, NEW t \in Threads
  PROVE  /\ th[t].pc \in {"enqueue", "push", "claim", "unpersist", "send", "sentOK", "sentErr"}
              => th[t].held \in Created
         /\ \A u \in Threads : Busy(th[u]) => th[u].held # NoRun /\ th[u].held \in finishing
         /\ \A u \in Threads : NoRun \notin th[u].jobs
         /\ Busy(th[t]) =>
              /\ \A u \in Threads \ {t} : Busy(th[u]) => th[u].held # th[t].held
              /\ \A u \in Threads : th[u].op = "shutdown" => th[t].held \notin th[u].jobs
<1>1. \A u \in Threads : ThreadOK(nrun, th[u])
  BY Start
<1>2. \A u \in Threads : Busy(th[u]) => th[u].held # NoRun /\ th[u].held \in finishing
  BY <1>1, Start DEF ThreadOK, Busy, FinishInv, ClaimsHeld
<1>3. \A u \in Threads : NoRun \notin th[u].jobs
  BY <1>1, Start DEF ThreadOK
<1>4. th[t].pc \in {"enqueue", "push", "claim", "unpersist", "send", "sentOK", "sentErr"}
              => th[t].held \in Created
  BY <1>1, Start DEF ThreadOK
<1>5. Busy(th[t]) =>
              /\ \A u \in Threads \ {t} : Busy(th[u]) => th[u].held # th[t].held
              /\ \A u \in Threads : th[u].op = "shutdown" => th[t].held \notin th[u].jobs
  BY Start DEF FinishInv, ClaimsHeld, ShutdownJobs
<1> QED
  BY <1>2, <1>3, <1>4, <1>5

\* Nobody holds NoRun under a claim: FinishStep for steps that claim and let go
\* of nothing.
LEMMA QuietFinish ==
  ASSUME TypeOK, TypeOK', RunsInv, NEW t \in Threads, NEW s, Stirs(t, s),
         UNCHANGED <<nrun, status, finishing, reported>>, shuttingDown => shuttingDown',
         ~Busy(s),
         s.op = "shutdown" => th[t].op = "shutdown" /\ s.jobs \subseteq th[t].jobs,
         \A r \in Acked : Named(s, r) \/ SharedRef(r)' => Ref(r)
  PROVE  FinishInv'
<1>1. PICK k : k = NoRun
  OBVIOUS
<1>2. /\ \A u \in Threads \ {t} : Busy(th[u]) => th[u].held # k
      /\ \A u \in Threads : th[u].op = "shutdown" => k \notin th[u].jobs
  BY <1>1, ClaimFacts
<1>3. /\ Acked' = Acked /\ finishing' = finishing /\ k \notin Acked
  BY <1>1, Start DEF Acked
<1> QED
  BY <1>2, <1>3, FinishStep

\* The claim, the FINISH and what follows keep the invariant.
LEMMA RunsFinish ==
  ASSUME TypeOK, TypeOK', LeaseInv, RunsInv, NEW t \in Threads, Finish(t)
  PROVE  RunsInv'
<1> DEFINE x == th[t]
<1>1. x \in ThreadState /\ ControlOK(x) /\ \A r : Named(x, r) => Ref(r)
  BY Start DEF Ref
<1>2. /\ ControlOK(Done(x)) /\ Done(x).pc \in {"lease", "loop", "next", "idle"}
      /\ Done(x).jobs = x.jobs /\ Done(x).held = NoRun
      /\ Done(x).op = "shutdown" => x.op = "shutdown"
  BY <1>1, DoneFacts
<1>3. \A p : LET y == [x EXCEPT !.pc = p] IN
         y.pc = p /\ y.op = x.op /\ y.jobs = x.jobs /\ y.rot = x.rot /\ y.held = x.held
  BY <1>1 DEF ThreadState
<1>4. NoRun \notin Acked /\ NoRun \notin Created
  BY Start
<1>5. /\ ~Busy(Done(x)) /\ Done(x).pc \notin FlightPoints
      /\ \A r \in Acked : Named(Done(x), r) => Ref(r)
      /\ \A r : r \in x.jobs => Tends(Done(x), r)
  BY <1>1, <1>2, <1>4 DEF Busy, FlightPoints, Named, Tends
<1>6. ASSUME NEW s, Goto(t, s) PROVE Stirs(t, s)
  BY <1>6 DEF Goto, TypeOK, ThreadsOK, Stirs
<1>7. ASSUME NEW p, p \in {"unpersist", "send", "sentOK", "sentErr"}, NEW s, s = [x EXCEPT !.pc = p],
             x.pc \in {"claim", "unpersist", "send"}
      PROVE  /\ ControlOK(s) /\ Busy(s) /\ SteadyStep(x, s)
             /\ s.pc = p /\ s.op = x.op /\ s.jobs = x.jobs /\ s.held = x.held
             /\ \A r : Tends(x, r) => Tends(s, r)
             /\ \A r \in Acked : Named(s, r) => Ref(r)
  <2>1. s.pc = p /\ s.op = x.op /\ s.jobs = x.jobs /\ s.held = x.held /\ s.rot = x.rot
    BY <1>3, <1>7
  <2>2. ControlOK(s)
    BY <1>1, <1>7, <2>1 DEF ControlOK, RotatePoints
  <2>3. Busy(s) /\ SteadyStep(x, s)
    BY <1>7, <2>1 DEF Busy, SteadyStep, FlightPoints
  <2>4. \A r : Tends(x, r) => Tends(s, r)
    BY <1>7, <2>1 DEF Tends
  <2>5. \A r \in Acked : Named(s, r) => Ref(r)
    BY <1>1, <2>1 DEF Named
  <2> QED
    BY <2>1, <2>2, <2>3, <2>4, <2>5
<1>8. CASE FinishClaim(t) /\ FinishBusy(x.held)
  <2> DEFINE r == x.held
             s == Done(x)
  <2>1. /\ x.pc = "claim" /\ Goto(t, s) /\ queued' = queued \ {r}
        /\ UNCHANGED <<nrun, finishing, status, current, flight, draining, queue, shuttingDown, lease,
                       reported, gone>>
    BY <1>8 DEF FinishClaim, At, ghostVars
  <2>2. Stirs(t, s) /\ SteadyStep(x, s)
    BY <1>5, <1>6, <2>1 DEF SteadyStep, FlightPoints
  <2>3. Controlled' /\ FlightInv'
    BY <1>2, <2>1, <2>2, StirsSteady
  <2>4. \A y : (SharedRef(y)' <=> SharedRef(y)) /\ (Settled(y)' <=> Settled(y))
               /\ (InQueue(y)' <=> InQueue(y))
    BY <2>1 DEF SharedRef, Settled, IsCurrent, InQueue, Acked
  <2>5. FinishInv'
    BY <1>2, <1>5, <2>1, <2>2, <2>4, QuietFinish DEF Ref
  <2>6. r \in Created /\ ThreadOK(nrun, x)
    BY <2>1, ClaimFacts, Start
  <2>7. Settled(r) \/ \E u \in Threads \ {t} : Tends(th[u], r)
    <3>1. CASE inflight[r] > 0
      <4>1. inflight[r] = Cardinality(Holders(r)) /\ Cardinality({}) = 0
        BY <2>6, FS_EmptySet, Start DEF LeaseInv, CountsHolders
      <4>2. PICK q \in Clients : lease[q] = r
        BY <3>1, <4>1 DEF Holders
      <4> QED
        BY <1>4, <2>6, <4>2, Start DEF LostInv
    <3>2. CASE r \in finishing
      <4>1. ~Busy(x)
        BY <2>1 DEF Busy
      <4>2. r \in Acked \/ shuttingDown \/ \E u \in Threads \ {t} : Busy(th[u]) /\ th[u].held = r
        BY <3>2, <4>1, Elsewhere
      <4> QED
        BY <4>2 DEF Settled, Tends, Busy
    <3>3. CASE current[agentOf[r]] = r
      <4>1. agentOf[r] \in Agents
        BY <2>6 DEF TypeOK, RunsOK
      <4> QED
        BY <3>3, <4>1 DEF Settled, IsCurrent
    <3> QED
      BY <1>8, <3>1, <3>2, <3>3 DEF FinishBusy
  <2>8. \A y \in Created : Tends(x, y) => Tends(s, y) \/ y = r
    BY <1>5, <2>1 DEF Tends
  <2> HIDE DEF s, r
  <2>9. LostInv'
    <3>1. \A y \in queued' : \/ InQueue(y)'
                             \/ \E u \in Threads \ {t} : th[u].pc \in {"push", "claim"} /\ th[u].held = y
      BY <2>1, <2>4, Elsewhere DEF r
    <3>2. \A y \in finishing' : \/ y \in Acked' \/ shuttingDown'
                                \/ \E u \in Threads \ {t} : Busy(th[u]) /\ th[u].held = y
      <4>1. ~Busy(x) /\ Acked' = Acked
        BY <2>1 DEF Busy, Acked
      <4> QED
        BY <2>1, <4>1, Elsewhere
    <3>3. \A q \in Clients : lease[q] # NoRun => Settled(lease[q])'
      BY <2>1, <2>4, Start DEF LostInv
    <3>4. \A y \in Created : Tends(th[t], y) =>
             \/ Settled(y)' \/ InQueue(y)' \/ Tends(s, y)
             \/ \E u \in Threads \ {t} : Tends(th[u], y)
      BY <2>4, <2>7, <2>8
    <3> QED
      BY <2>1, <2>2, <2>4, <3>1, <3>2, <3>3, <3>4, LostStep
  <2> QED
    BY <2>3, <2>5, <2>9 DEF RunsInv
\* A step inside a FINISH attempt: the goroutine goes on with the run it holds.
<1>9. ASSUME NEW p, p \in {"unpersist", "send", "sentOK", "sentErr"}, NEW s, s = [x EXCEPT !.pc = p],
             Goto(t, s), x.pc \in {"claim", "unpersist", "send"},
             x.held \in finishing', finishing \subseteq finishing', finishing' \subseteq finishing \cup {x.held},
             queued' \subseteq queued \ {x.held} \/ (queued' = queued /\ x.pc # "claim"),
             UNCHANGED <<nrun, status, current, flight, draining, queue, shuttingDown, lease, gone>>,
             Acked \subseteq Acked', Acked' \subseteq Acked \cup {x.held},
             x.held \in Acked' <=> p = "sentOK",
             \A u \in Threads \ {t} : Busy(th[u]) => th[u].held # x.held,
             \A u \in Threads : th[u].op = "shutdown" => x.held \notin th[u].jobs,
             \A r \in Created : \/ reported'[r] = reported[r]
                                \/ status[r] = "failed" => reported'[r] = "failed"
      PROVE  RunsInv'
  <2>1. Stirs(t, s) /\ ControlOK(s) /\ Busy(s) /\ SteadyStep(x, s)
    BY <1>6, <1>7, <1>9
  <2>2. /\ s.pc = p /\ s.op = x.op /\ s.jobs = x.jobs /\ s.held = x.held
        /\ \A r : Tends(x, r) => Tends(s, r)
        /\ \A r \in Acked : Named(s, r) => Ref(r)
    BY <1>7, <1>9
  <2>3. Controlled' /\ FlightInv'
    BY <1>9, <2>1, StirsSteady
  <2>4. /\ \A y : (SharedRef(y)' <=> SharedRef(y)) /\ (InQueue(y)' <=> InQueue(y))
        /\ \A y : Settled(y) => Settled(y)'
    BY <1>9 DEF SharedRef, Settled, IsCurrent, InQueue
  <2>5. PICK k : k = x.held
    OBVIOUS
  <2>6. FinishInv'
    <3>1. \A r \in Acked : Named(s, r) \/ SharedRef(r)' => Ref(r)
      BY <2>2, <2>4 DEF Ref
    <3>2. Busy(s) => /\ s.held \in finishing' /\ (s.held \in Acked' <=> s.pc = "sentOK")
                     /\ \A u \in Threads \ {t} : Busy(th[u]) => th[u].held # s.held
                     /\ \A u \in Threads \ {t} : th[u].op = "shutdown" => s.held \notin th[u].jobs
                     /\ s.op = "shutdown" => s.held \notin s.jobs
      BY <1>9, <2>2
    <3>3. s.op = "shutdown" =>
            /\ th[t].op = "shutdown" \/ (~shuttingDown /\ shuttingDown')
            /\ \A r \in s.jobs : \/ th[t].op = "shutdown" /\ r \in th[t].jobs
                                 \/ /\ r \in finishing' /\ r \notin Acked'
                                    /\ \A u \in Threads \ {t} : Busy(th[u]) => th[u].held # r
      BY <2>2
    <3>5. UNCHANGED <<nrun, status>> /\ (shuttingDown => shuttingDown') /\ Acked \subseteq Acked'
      BY <1>9
    <3>6. \A r \in Created : \/ reported'[r] = reported[r]
                             \/ status[r] = "failed" => reported'[r] = "failed"
      BY <1>9
    <3>4. /\ \A u \in Threads \ {t} : Busy(th[u]) => th[u].held # k
          /\ \A u \in Threads : th[u].op = "shutdown" => k \notin th[u].jobs
          /\ finishing \ {k} \subseteq finishing' /\ Acked' \subseteq Acked \cup {k}
          /\ k \in Acked' => k \in finishing'
      BY <1>9, <2>5
    <3> QED
      BY <2>1, <3>1, <3>2, <3>3, <3>4, <3>5, <3>6, FinishStep
  <2>7. LostInv'
    <3>1. \A y \in queued' : \/ InQueue(y)'
                             \/ \E u \in Threads \ {t} : th[u].pc \in {"push", "claim"} /\ th[u].held = y
      BY <1>9, <2>4, Elsewhere
    <3>2. \A y \in finishing' : \/ y \in Acked' \/ shuttingDown'
                                \/ Busy(s) /\ s.held = y
                                \/ \E u \in Threads \ {t} : Busy(th[u]) /\ th[u].held = y
      BY <1>9, <2>1, <2>2, Elsewhere
    <3>3. \A q \in Clients : lease[q] # NoRun => Settled(lease[q])'
      BY <1>9, <2>4, Start DEF LostInv
    <3>4. /\ \A y \in Created : Settled(y) \/ InQueue(y) =>
                 Settled(y)' \/ InQueue(y)' \/ Tends(s, y)
          /\ \A y \in Created : Tends(th[t], y) =>
                 \/ Settled(y)' \/ InQueue(y)' \/ Tends(s, y)
                 \/ \E u \in Threads \ {t} : Tends(th[u], y)
      BY <2>2, <2>4
    <3>5. /\ \A y \in queued' :
               \/ InQueue(y)' \/ (s.pc \in {"push", "claim"} /\ s.held = y)
               \/ \E u \in Threads \ {t} : th[u].pc \in {"push", "claim"} /\ th[u].held = y
          /\ UNCHANGED <<nrun, lease>>
      BY <1>9, <3>1
    <3> QED
      BY <2>1, <3>2, <3>3, <3>4, <3>5, LostStep
  <2> QED
    BY <2>3, <2>6, <2>7 DEF RunsInv
<1>10. CASE FinishClaim(t) /\ ~FinishBusy(x.held)
  <2>1. PICK p : p \in {"unpersist", "send"} /\ p = IF HasStore THEN "unpersist" ELSE "send"
    OBVIOUS
  <2>2. PICK s : s = [x EXCEPT !.pc = p]
    OBVIOUS
  <2>3. /\ x.pc = "claim" /\ Goto(t, s) /\ queued' = queued \ {x.held}
        /\ finishing' = finishing \cup {x.held} /\ x.held \notin finishing
        /\ UNCHANGED <<nrun, status, current, flight, draining, queue, shuttingDown, lease,
                       reported, gone>>
    BY <1>10, <2>1, <2>2 DEF FinishClaim, FinishBusy, At, ghostVars
  <2>4. Acked' = Acked
    BY <2>3 DEF Acked
  <2>5. x.held \notin Acked
    BY <1>1, <2>3, Start DEF FinishInv, AckedClaimed, Named
  <2>6. /\ \A u \in Threads \ {t} : Busy(th[u]) => th[u].held # x.held
        /\ \A u \in Threads : th[u].op = "shutdown" => x.held \notin th[u].jobs
    BY <2>3, Start DEF FinishInv, ClaimsHeld, ShutdownJobs
  <2>7. x.held \in Acked' <=> p = "sentOK"
    BY <2>1, <2>4, <2>5
  <2> QED
    BY <1>9, <2>1, <2>2, <2>3, <2>4, <2>6, <2>7
<1>11. CASE RemoveRun(t)
  <2>1. PICK s : s = [x EXCEPT !.pc = "send"]
    OBVIOUS
  <2>2. /\ x.pc = "unpersist" /\ Goto(t, s) /\ Busy(x)
        /\ UNCHANGED <<nrun, managerVars, lease, ghostVars>>
    BY <1>11, <2>1 DEF RemoveRun, At, Busy
  <2>3. UNCHANGED <<nrun, finishing, queued, status, current, flight, draining, queue, shuttingDown,
                    lease, reported, gone>>
    BY <2>2 DEF managerVars, ghostVars
  <2>4. Acked' = Acked
    BY <2>3 DEF Acked
  <2>5. x.held \in finishing /\ x.held \notin Acked
    BY <2>2, Start DEF FinishInv, ClaimsHeld
  <2>6. /\ \A u \in Threads \ {t} : Busy(th[u]) => th[u].held # x.held
        /\ \A u \in Threads : th[u].op = "shutdown" => x.held \notin th[u].jobs
    BY <2>2, ClaimFacts
  <2> QED
    BY <1>9, <2>1, <2>2, <2>3, <2>4, <2>5, <2>6
<1>12. CASE SendFinish(t)
  <2>1. PICK p : /\ p \in {"sentOK", "sentErr"} /\ Goto(t, [x EXCEPT !.pc = p])
                 /\ \/ p = "sentOK" /\ reported' = [reported EXCEPT ![x.held] = Payload(x.held)]
                    \/ p = "sentErr" /\ UNCHANGED reported
    BY <1>12 DEF SendFinish
  <2>2. PICK s : s = [x EXCEPT !.pc = p]
    OBVIOUS
  <2>3. /\ x.pc = "send" /\ Goto(t, s) /\ Busy(x)
        /\ UNCHANGED <<nrun, finishing, queued, status, current, flight, draining, queue, shuttingDown,
                       lease, gone>>
    BY <1>12, <2>1, <2>2 DEF SendFinish, At, Busy, managerVars
  <2>4. x.held \in finishing /\ x.held \notin Acked /\ x.held \in Created /\ x.held \in Runs
    BY <2>3, ClaimFacts, Start DEF FinishInv, ClaimsHeld
  <2>5. /\ \A u \in Threads \ {t} : Busy(th[u]) => th[u].held # x.held
        /\ \A u \in Threads : th[u].op = "shutdown" => x.held \notin th[u].jobs
    BY <2>3, ClaimFacts
  <2>6. /\ reported \in [Runs -> {"", "completed", "cancelled", "failed"}]
        /\ Payload(x.held) # "" /\ (status[x.held] = "failed" => Payload(x.held) = "failed")
    BY DEF TypeOK, RunsOK, Payload
  <2>7. /\ Acked \subseteq Acked' /\ Acked' \subseteq Acked \cup {x.held}
        /\ x.held \in Acked' <=> p = "sentOK"
        /\ \A r \in Created : \/ reported'[r] = reported[r]
                              \/ status[r] = "failed" => reported'[r] = "failed"
    <3>1. CASE p = "sentOK" /\ reported' = [reported EXCEPT ![x.held] = Payload(x.held)]
      <4>1. reported'[x.held] = Payload(x.held) /\ \A r \in Runs : r # x.held => reported'[r] = reported[r]
        BY <2>4, <2>6, <3>1
      <4>2. Acked' = Acked \cup {x.held}
        BY <2>4, <2>6, <4>1 DEF Acked
      <4> QED
        BY <2>6, <3>1, <4>1, <4>2, Start
    <3>2. CASE p = "sentErr" /\ UNCHANGED reported
      <4>1. Acked' = Acked
        BY <3>2 DEF Acked
      <4> QED
        BY <2>4, <3>2, <4>1
    <3> QED
      BY <2>1, <3>1, <3>2
  <2> QED
    BY <1>9, <2>1, <2>2, <2>3, <2>4, <2>5, <2>7
\* The end of an attempt: the goroutine returns.
<1>13. ASSUME Busy(x), Goto(t, Done(x)), UNCHANGED <<nrun, queued, status, current, flight, queue,
                                                     shuttingDown, lease, reported>>,
              finishing \ {x.held} \subseteq finishing', finishing' \subseteq finishing,
              x.held \in Acked => x.held \in finishing',
              x.held \in finishing' => x.held \in Acked \/ shuttingDown,
              draining' \subseteq draining \cup {x.held},
              \A r \in Created : r \in draining => r \in draining' \cup gone' \cup Acked,
              gone \subseteq gone',
              x.held \in Acked \/ shuttingDown \/ x.held \in draining' \cup gone'
       PROVE  RunsInv'
  <2>1. PICK s : s = Done(x)
    OBVIOUS
  <2>2. /\ Goto(t, s) /\ Stirs(t, s) /\ ControlOK(s) /\ ~Busy(s) /\ SteadyStep(x, s)
        /\ s.jobs = x.jobs /\ (s.op = "shutdown" => x.op = "shutdown")
        /\ \A r \in Acked : Named(s, r) => Ref(r)
    BY <1>2, <1>5, <1>6, <1>13, <2>1 DEF SteadyStep, FlightPoints, Busy
  <2>3. Controlled' /\ FlightInv'
    BY <1>13, <2>2, StirsSteady
  <2>4. Acked' = Acked
    BY <1>13 DEF Acked
  <2>5. PICK k : k = x.held
    OBVIOUS
  <2>6. \A r \in Created : Settled(r) => Settled(r)'
    BY <1>13, <2>4 DEF Settled, IsCurrent
  <2>7. FinishInv'
    <3>1. \A r \in Acked : Named(s, r) \/ SharedRef(r)' => Ref(r)
      BY <1>1, <1>13, <2>2 DEF Ref, SharedRef, IsCurrent, InQueue, Named
    <3>2. /\ \A u \in Threads \ {t} : Busy(th[u]) => th[u].held # k
          /\ \A u \in Threads : th[u].op = "shutdown" => k \notin th[u].jobs
      BY <1>13, <2>5, ClaimFacts
    <3>3. /\ finishing \ {k} \subseteq finishing' /\ Acked' \subseteq Acked \cup {k}
          /\ Acked \subseteq Acked' /\ (k \in Acked' => k \in finishing')
          /\ UNCHANGED <<nrun, status>> /\ (shuttingDown => shuttingDown')
          /\ \A r \in Created : \/ reported'[r] = reported[r]
                                \/ status[r] = "failed" => reported'[r] = "failed"
      BY <1>13, <2>4, <2>5
    <3>4. s.op = "shutdown" =>
            /\ th[t].op = "shutdown" \/ (~shuttingDown /\ shuttingDown')
            /\ \A r \in s.jobs : \/ th[t].op = "shutdown" /\ r \in th[t].jobs
                                 \/ /\ r \in finishing' /\ r \notin Acked'
                                    /\ \A u \in Threads \ {t} : Busy(th[u]) => th[u].held # r
      BY <2>2
    <3> QED
      BY <2>2, <3>1, <3>2, <3>3, <3>4, FinishStep
  <2>8. LostInv'
    <3>1. \A y : InQueue(y)' <=> InQueue(y)
      BY <1>13 DEF InQueue
    <3>2. \A y \in queued' : \/ InQueue(y)'
                             \/ \E u \in Threads \ {t} : th[u].pc \in {"push", "claim"} /\ th[u].held = y
      BY <1>13, <3>1, Elsewhere DEF Busy
    <3>3. \A y \in finishing' : \/ y \in Acked' \/ shuttingDown'
                                \/ \E u \in Threads \ {t} : Busy(th[u]) /\ th[u].held = y
      BY <1>13, <2>4, Elsewhere
    <3>4. \A q \in Clients : lease[q] # NoRun => Settled(lease[q])'
      BY <1>13, <2>6, Start DEF LostInv
    <3>5. \A y \in Created : Tends(x, y) => Tends(s, y) \/ Settled(y)'
      <4> SUFFICES ASSUME NEW y \in Created, Tends(x, y) PROVE Tends(s, y) \/ Settled(y)'
        OBVIOUS
      <4>1. y \in x.jobs \/ y = x.held
        BY <1>13 DEF Tends, Busy
      <4>2. y = x.held => Settled(y)'
        BY <1>13, <2>4 DEF Settled
      <4> QED
        BY <2>2, <4>1, <4>2 DEF Tends
    <3> QED
      BY <1>13, <2>2, <2>6, <3>1, <3>2, <3>3, <3>4, <3>5, LostStep
  <2> QED
    BY <2>3, <2>7, <2>8 DEF RunsInv
<1>14. CASE FinishOK(t)
  <2>1. /\ x.pc = "sentOK" /\ Goto(t, Done(x))
        /\ UNCHANGED <<nrun, finishing, queued, status, current, flight, queue, shuttingDown, lease,
                       reported, gone>>
        /\ draining' = draining \/ draining' = draining \ {x.held}
    BY <1>14 DEF FinishOK, At, ghostVars
  <2>2. Busy(x) /\ x.held \in finishing /\ x.held \in Acked
    BY <2>1, Start DEF FinishInv, ClaimsHeld, Busy
  <2> QED
    BY <1>13, <2>1, <2>2
<1>15. CASE FinishErr(t)
  <2>1. /\ x.pc = "sentErr" /\ Goto(t, Done(x))
        /\ UNCHANGED <<nrun, queued, status, current, flight, queue, shuttingDown, lease, reported>>
        /\ \/ x.op = "shutdown" /\ UNCHANGED <<finishing, draining, gone>>
           \/ finishing' = finishing \ {x.held} /\ AppendDraining(x.held)
    BY <1>15 DEF FinishErr, At
  <2>2. Busy(x) /\ x.held \notin Acked /\ x.held # NoRun
    BY <2>1, ClaimFacts, Start DEF FinishInv, ClaimsHeld, Busy
  <2>3. x.op = "shutdown" => shuttingDown
    BY Start DEF FinishInv, ShutdownAlone
  <2>4. CASE x.op = "shutdown" /\ UNCHANGED <<finishing, draining, gone>>
    BY <1>13, <2>1, <2>2, <2>3, <2>4
  <2>5. CASE finishing' = finishing \ {x.held} /\ AppendDraining(x.held)
    <3>1. /\ gone \subseteq gone' /\ draining' \subseteq draining \cup {x.held}
          /\ \A y \in draining : y \in draining' \cup gone'
          /\ x.held \in draining' \cup gone'
      BY <2>2, <2>5, AppendKeeps
    <3> QED
      BY <1>13, <2>1, <2>2, <2>5, <3>1
  <2> QED
    BY <2>1, <2>4, <2>5
<1> QED
  BY <1>8, <1>10, <1>11, <1>12, <1>14, <1>15 DEF Finish

---------------------------------------------------------------------------
(* The deferred FINISH and the context of a request.                       *)

LEMMA RunsQueue ==
  ASSUME TypeOK, TypeOK', RunsInv, NEW t \in Procs,
         CtxDone(t) \/ EnqueueFinish(t) \/ Enqueue(t)
  PROVE  RunsInv'
<1> DEFINE x == th[t]
<1>1. /\ t \in Threads /\ x \in ThreadState /\ ControlOK(x)
      /\ \A r : Named(x, r) => Ref(r)
  BY Start DEF Ref, Threads
<1>2. /\ ControlOK(Done(x)) /\ Done(x).pc \in {"lease", "loop", "next", "idle"}
      /\ Done(x).jobs = x.jobs /\ Done(x).held = NoRun
      /\ Done(x).op = "shutdown" => x.op = "shutdown"
  BY <1>1, DoneFacts
<1>3. \A p : LET y == [x EXCEPT !.pc = p] IN
         y.pc = p /\ y.op = x.op /\ y.jobs = x.jobs /\ y.rot = x.rot /\ y.held = x.held
  BY <1>1 DEF ThreadState
<1>4. NoRun \notin Acked /\ NoRun \notin Created
  BY Start
<1>5. CASE CtxDone(t)
  <2>1. /\ x.pc \in {"acquire", "rotate", "wait"} /\ Goto(t, Failed(x))
        /\ UNCHANGED <<nrun, managerVars, lease, ghostVars>>
    BY <1>5 DEF CtxDone
  <2>2. gone \subseteq gone' /\ x.pc \in RotatePoints \ {"discard", "persist"}
    BY <2>1 DEF ghostVars, RotatePoints
  <2>3. PlainStep(x, Failed(x)) /\ Failed(x).pc \notin FlightPoints
    BY <1>1, <2>2, Returns
  <2>4. SteadyStep(x, Failed(x))
    BY <2>1, <2>3 DEF SteadyStep, FlightPoints
  <2> QED
    BY <1>1, <2>1, <2>3, <2>4, Moves
\* A step of the queue: t returns, or goes on with the run it holds.
<1>6. ASSUME NEW s, Stirs(t, s), x.pc \in {"enqueue", "push"},
             s = Done(x) \/ \E p \in {"push", "claim"} : s = [x EXCEPT !.pc = p],
             UNCHANGED <<nrun, finishing, status, current, flight, draining, shuttingDown, lease,
                         reported, gone>>,
             \A y : InQueue(y) => InQueue(y)',
             NEW r, r = x.held,
             \A y : InQueue(y)' => InQueue(y) \/ y = r,
             s = Done(x) => InQueue(r)' \/ (x.pc = "enqueue" /\ r \in queued),
             queued' = queued \/ queued' = queued \cup {x.held}
      PROVE  RunsInv'
  <2>1. /\ ControlOK(s) /\ ~Busy(s) /\ s.jobs = x.jobs /\ (s.op = "shutdown" => x.op = "shutdown")
        /\ s.held \in {x.held, NoRun} /\ s.pc \notin FlightPoints
        /\ s = Done(x) \/ (s.pc \in {"push", "claim"} /\ s.held = x.held)
    <3>1. CASE s = Done(x)
      BY <1>2, <3>1 DEF Busy, FlightPoints
    <3>2. ASSUME NEW p \in {"push", "claim"}, s = [x EXCEPT !.pc = p]
          PROVE  /\ ControlOK(s) /\ ~Busy(s) /\ s.jobs = x.jobs /\ s.op = x.op
                 /\ s.held = x.held /\ s.pc \notin FlightPoints /\ s.pc = p
      <4>1. s.pc = p /\ s.op = x.op /\ s.jobs = x.jobs /\ s.rot = x.rot /\ s.held = x.held
        BY <1>3, <3>2
      <4> QED
        BY <1>1, <3>2, <4>1 DEF ControlOK, RotatePoints, Busy, FlightPoints, Loops
    <3> QED
      BY <1>6, <3>1, <3>2
  <2>2. SteadyStep(x, s)
    BY <1>6, <2>1 DEF SteadyStep, FlightPoints
  <2>3. Controlled' /\ FlightInv'
    BY <1>1, <1>6, <2>1, <2>2, StirsSteady
  <2>4. /\ Acked' = Acked
        /\ \A y : Settled(y)' <=> Settled(y)
    BY <1>6 DEF Settled, IsCurrent, Acked
  <2>5. FinishInv'
    <3>1. \A y \in Acked : Named(s, y) \/ SharedRef(y)' => Ref(y)
      <4> SUFFICES ASSUME NEW y \in Acked, Named(s, y) \/ SharedRef(y)' PROVE Ref(y)
        OBVIOUS
      <4>1. Named(s, y) => Named(x, y)
        BY <1>4, <2>1 DEF Named
      <4>2. SharedRef(y)' => SharedRef(y) \/ Named(x, y)
        BY <1>6 DEF SharedRef, IsCurrent, Named
      <4> QED
        BY <1>1, <4>1, <4>2 DEF Ref
    <3>2. /\ UNCHANGED <<nrun, status, finishing, reported>> /\ (shuttingDown => shuttingDown')
          /\ s.op = "shutdown" => th[t].op = "shutdown" /\ s.jobs \subseteq th[t].jobs
      BY <1>6, <2>1
    <3> QED
      BY <1>1, <1>6, <2>1, <3>1, <3>2, QuietFinish
  <2>6. LostInv'
    <3>1. s = Done(x) => \/ InQueue(r)'
                         \/ \E u \in Threads \ {t} : th[u].pc \in {"push", "claim"} /\ th[u].held = r
      <4>1. x.pc = "enqueue" /\ r \in queued =>
              \/ InQueue(r)
              \/ \E u \in Threads \ {t} : th[u].pc \in {"push", "claim"} /\ th[u].held = r
        BY <1>1, Elsewhere
      <4>2. s = Done(x) => InQueue(r)' \/ (x.pc = "enqueue" /\ r \in queued)
        BY <1>6
      <4>3. InQueue(r) => InQueue(r)'
        BY <1>6
      <4> QED
        BY <4>1, <4>2, <4>3
    <3>9. s = Done(x) \/ (s.pc \in {"push", "claim"} /\ s.held = r)
      BY <1>6, <2>1
    <3>2. \A y \in queued' :
            \/ InQueue(y)' \/ (s.pc \in {"push", "claim"} /\ s.held = y)
            \/ \E u \in Threads \ {t} : th[u].pc \in {"push", "claim"} /\ th[u].held = y
      <4> SUFFICES ASSUME NEW y \in queued' 
                   PROVE  \/ InQueue(y)' \/ (s.pc \in {"push", "claim"} /\ s.held = y)
                          \/ \E u \in Threads \ {t} : th[u].pc \in {"push", "claim"} /\ th[u].held = y
        OBVIOUS
      <4>1. CASE y = x.held
        BY <3>1, <3>9, <4>1, <1>6
      <4>2. CASE y # x.held
        <5>1. y \in queued
          BY <1>6, <4>2
        <5> QED
          BY <1>1, <1>6, <4>2, <5>1, Elsewhere
      <4> QED
        BY <4>1, <4>2
    <3>3. \A y \in finishing' :
            \/ y \in Acked' \/ shuttingDown' \/ (Busy(s) /\ s.held = y)
            \/ \E u \in Threads \ {t} : Busy(th[u]) /\ th[u].held = y
      BY <1>1, <1>6, <2>4, Elsewhere DEF Busy
    <3>4. \A q \in Clients : lease[q] # NoRun => Settled(lease[q])'
      BY <1>6, <2>4, Start DEF LostInv
    <3>5. \A y \in Created : Tends(th[t], y) =>
            \/ Settled(y)' \/ InQueue(y)' \/ Tends(s, y)
            \/ \E u \in Threads \ {t} : Tends(th[u], y)
      <4> SUFFICES ASSUME NEW y \in Created, Tends(x, y)
                   PROVE  \/ InQueue(y)' \/ Tends(s, y)
                          \/ \E u \in Threads \ {t} : Tends(th[u], y)
        OBVIOUS
      <4>1. y \in x.jobs \/ y = x.held
        BY <1>6 DEF Tends
      <4>2. CASE y \in x.jobs
        BY <2>1, <4>2 DEF Tends
      <4>3. CASE y = x.held
        <5>1. CASE s = Done(x)
          <6>1. \/ InQueue(y)'
                \/ \E u \in Threads \ {t} : th[u].pc \in {"push", "claim"} /\ th[u].held = y
            BY <1>6, <3>1, <4>3, <5>1
          <6> QED
            BY <6>1 DEF Tends
        <5>2. CASE s.pc \in {"push", "claim"} /\ s.held = r
          BY <1>6, <4>3, <5>2 DEF Tends
        <5> QED
          BY <3>9, <5>1, <5>2
      <4> QED
        BY <4>1, <4>2, <4>3
    <3>6. \A y \in Created : Settled(y) \/ InQueue(y) =>
            Settled(y)' \/ InQueue(y)' \/ Tends(s, y)
      BY <1>6, <2>4
    <3>7. UNCHANGED <<nrun, lease>>
      BY <1>6
    <3> QED
      BY <1>1, <1>6, <3>2, <3>3, <3>4, <3>5, <3>6, <3>7, LostStep
  <2> QED
    BY <2>3, <2>5, <2>6 DEF RunsInv
<1>7. CASE EnqueueFinish(t)
  <2>1. PICK s : s = IF x.held \in queued THEN Done(x) ELSE [x EXCEPT !.pc = "push"]
    OBVIOUS
  <2>2. /\ x.pc = "enqueue" /\ Goto(t, s) /\ queued' = queued \cup {x.held}
        /\ UNCHANGED <<nrun, finishing, status, current, flight, draining, queue, shuttingDown, lease,
                       reported, gone>>
    BY <1>7, <2>1 DEF EnqueueFinish, At, ghostVars
  <2>3. Stirs(t, s)
    BY <1>1, <2>2 DEF Goto, TypeOK, ThreadsOK, Stirs
  <2>4. \A y : InQueue(y)' <=> InQueue(y)
    BY <2>2 DEF InQueue
  <2>5. CASE x.held \in queued
    <3>1. s = Done(x) /\ (s = Done(x) => x.pc = "enqueue" /\ x.held \in queued)
      BY <2>1, <2>2, <2>5
    <3> QED
      BY <1>6, <2>2, <2>3, <2>4, <3>1
  <2>6. CASE x.held \notin queued
    <3>1. s = [x EXCEPT !.pc = "push"] /\ s # Done(x)
      <4>1. s = [x EXCEPT !.pc = "push"]
        BY <2>1, <2>6
      <4>2. s.pc = "push" /\ Done(x).pc # "push"
        BY <1>2, <1>3, <4>1
      <4> QED
        BY <4>1, <4>2
    <3> QED
      BY <1>6, <2>2, <2>3, <2>4, <3>1
  <2> QED
    BY <2>5, <2>6
<1>8. CASE Enqueue(t)
  <2>1. PICK s : s = IF Len(queue) < QueueSize THEN Done(x) ELSE [x EXCEPT !.pc = "claim"]
    OBVIOUS
  <2>2. /\ x.pc = "push"
        /\ queue' = IF Len(queue) < QueueSize THEN Append(queue, x.held) ELSE queue
        /\ th' = [th EXCEPT ![t] = s, ![Worker] = IF @.pc = "off" THEN Done(@) ELSE @]
        /\ UNCHANGED <<nrun, finishing, queued, status, current, flight, draining, shuttingDown, lease,
                       reported, gone>>
    BY <1>8, <2>1 DEF Enqueue, At, ghostVars
  <2>3. s.pc # "off"
    <3>1. CASE s = Done(x)
      BY <1>2, <3>1
    <3>2. CASE s = [x EXCEPT !.pc = "claim"]
      BY <1>3, <3>2
    <3> QED
      BY <2>1, <3>1, <3>2
  <2>4. Stirs(t, s)
    BY <1>1, <2>2, <2>3 DEF TypeOK, ThreadsOK, Stirs
  <2>5. queue \in Seq(Created) /\ x.held \in Created
    BY <1>1, <2>2, ClaimFacts DEF TypeOK, ManagerOK
  <2>6. CASE Len(queue) < QueueSize
    <3>1. queue' = Append(queue, x.held) /\ s = Done(x)
      BY <2>1, <2>2, <2>6
    <3>2. /\ Len(queue) \in Nat /\ Len(queue') = Len(queue) + 1
          /\ \A i \in 1..Len(queue) : queue'[i] = queue[i]
          /\ queue'[Len(queue) + 1] = x.held
      BY <2>5, <3>1
    <3>9. PICK r : r = x.held
      OBVIOUS
    <3>3. /\ \A y : InQueue(y) => InQueue(y)'
          /\ \A y : InQueue(y)' => InQueue(y) \/ y = r
          /\ InQueue(r)'
      <4>1. PICK n \in Nat : n = Len(queue)
        BY <3>2
      <4>2. 1..Len(queue') = (1..n) \cup {n + 1}
        BY <3>2, <4>1
      <4>3. \A y : InQueue(y) <=> \E i \in 1..n : queue[i] = y
        BY <4>1 DEF InQueue
      <4>4. \A y : InQueue(y)' <=> \E i \in (1..n) \cup {n + 1} : queue'[i] = y
        BY <4>2 DEF InQueue
      <4>5. queue'[n + 1] = r /\ \A i \in 1..n : queue'[i] = queue[i]
        BY <3>2, <3>9, <4>1
      <4> QED
        BY <4>3, <4>4, <4>5, Zenon
    <3> QED
      BY <1>6, <2>2, <2>4, <3>1, <3>3, <3>9
  <2>7. CASE ~(Len(queue) < QueueSize)
    <3>1. queue' = queue /\ s = [x EXCEPT !.pc = "claim"]
      BY <2>1, <2>2, <2>7
    <3>2. \A y : InQueue(y)' <=> InQueue(y)
      BY <3>1 DEF InQueue
    <3>3. s # Done(x)
      <4>1. s.pc = "claim" /\ Done(x).pc # "claim"
        BY <1>2, <1>3, <3>1
      <4> QED
        BY <4>1
    <3> QED
      BY <1>6, <2>2, <2>4, <3>1, <3>2, <3>3
  <2> QED
    BY <2>6, <2>7
<1> QED
  BY <1>5, <1>7, <1>8

---------------------------------------------------------------------------
(* The background passes.                                                  *)

\* Once Shutdown has begun every run is settled: the next process, or nobody,
\* takes care of it.
LEMMA ShutdownLost ==
  ASSUME TypeOK, RunsInv, NEW t \in Threads, NEW s, Stirs(t, s), UNCHANGED <<nrun, lease>>,
         shuttingDown', th[t].pc \notin {"push", "claim"},
         queued' = queued, queue' = queue
  PROVE  LostInv'
<1>1. \A r \in queued' : \/ InQueue(r)'
                         \/ \E u \in Threads \ {t} : th[u].pc \in {"push", "claim"} /\ th[u].held = r
  BY Elsewhere DEF InQueue
<1>2. /\ \A r \in Created : Settled(r)'
      /\ \A q \in Clients : Settled(lease[q])'
  BY DEF Settled
<1> QED
  BY <1>1, <1>2, LostStep

\* A pass that hands itself runs to finish keeps the invariant.
LEMMA PassStarts ==
  ASSUME TypeOK, TypeOK', LeaseInv, RunsInv, NEW t \in Threads, NEW s, Goto(t, s),
         th[t].pc = "idle", s.pc = "next", s.op \in {"maintain", "finishall"}, s.held = NoRun,
         s.op # "maintain" => s.rot = {},
         UNCHANGED <<nrun, finishing, queued, status, flight, queue, shuttingDown, lease, reported>>,
         \A r \in s.jobs : SharedRef(r),
         \A r \in Created : IsCurrent(r)' \/ r \in draining' => IsCurrent(r) \/ r \in draining,
         gone \subseteq gone',
         \A r \in Created : IsCurrent(r) \/ r \in draining =>
           \/ IsCurrent(r)' \/ r \in draining' \cup gone'
           \/ r \in s.jobs /\ inflight[r] = 0
  PROVE  RunsInv'
<1>1. Stirs(t, s)
  BY DEF Goto, TypeOK, ThreadsOK, Stirs
<1>2. ControlOK(s) /\ ~Busy(s) /\ SteadyStep(th[t], s) /\ s.pc \notin {"push", "claim"}
  BY DEF ControlOK, Busy, SteadyStep, FlightPoints, Loops, RotatePoints
<1>3. Controlled' /\ FlightInv'
  BY <1>1, <1>2, StirsSteady
<1>4. Acked' = Acked /\ NoRun \notin Acked /\ Acked \subseteq Created
  BY Start DEF Acked
<1>5. FinishInv'
  <2>1. \A r \in Acked : Named(s, r) \/ SharedRef(r)' => Ref(r)
    BY <1>4 DEF Named, Ref, SharedRef, InQueue
  <2> QED
    BY <1>1, <1>2, <2>1, QuietFinish
<1>6. \A r \in Created : Settled(r) => Settled(r)' \/ (r \in s.jobs /\ inflight[r] = 0)
  BY <1>4 DEF Settled
<1>7. LostInv'
  <2>1. ASSUME NEW q \in Clients, lease[q] # NoRun PROVE Settled(lease[q])'
    <3>1. PICK r : r = lease[q]
      OBVIOUS
    <3>2. r \in Created /\ Settled(r)
      BY <2>1, <3>1, Start DEF LostInv
    <3>3. inflight[r] # 0
      <4>1. inflight[r] = Cardinality(Holders(r))
        BY <3>2, Start DEF LeaseInv, CountsHolders
      <4>2. q \in Holders(r) /\ IsFiniteSet(Holders(r))
        BY <3>1, HoldersFinite DEF Holders
      <4> QED
        BY <4>1, <4>2, FS_EmptySet
    <3>4. Settled(r)'
      BY <1>6, <3>2, <3>3
    <3> QED
      BY <3>1, <3>4 DEF Settled, IsCurrent
  <2>2. \A r : (InQueue(r)' <=> InQueue(r)) /\ (r \in s.jobs => Tends(s, r))
    BY DEF InQueue, Tends
  <2>3. \A r \in queued' : \/ InQueue(r)'
                           \/ \E u \in Threads \ {t} : th[u].pc \in {"push", "claim"} /\ th[u].held = r
    BY <2>2, Elsewhere
  <2>4. \A r \in finishing' : \/ r \in Acked' \/ shuttingDown'
                              \/ \E u \in Threads \ {t} : Busy(th[u]) /\ th[u].held = r
    BY <1>4, Elsewhere DEF Busy
  <2>5. \A r \in Created : ~Tends(th[t], r)
    BY Start DEF Tends, ControlOK
  <2> QED
    BY <1>1, <1>6, <2>1, <2>2, <2>3, <2>4, <2>5, LostStep
<1> QED
  BY <1>3, <1>5, <1>7 DEF RunsInv

LEMMA RunsBackground ==
  ASSUME TypeOK, TypeOK', LeaseInv, RunsInv, NEW t \in Keepers, Background(t)
  PROVE  RunsInv'
<1> DEFINE x == th[t]
<1>1. /\ t \in Threads /\ x \in ThreadState /\ ControlOK(x)
      /\ \A r : Named(x, r) => Ref(r)
  BY Start DEF Ref, Threads, Procs
<1>2. NoRun \notin Acked /\ NoRun \notin Created /\ Acked \subseteq Created
  BY Start
<1>3. ASSUME NEW a \in Agents, CallPrecreate(t, a) PROVE RunsInv'
  <2> DEFINE s == Call("rotate", "precreate", a)
  <2>1. x.pc = "idle" /\ Goto(t, s) /\ UNCHANGED <<nrun, managerVars, lease, ghostVars>>
    BY <1>3 DEF CallPrecreate, At
  <2>2. s.pc = "rotate" /\ s.op = "precreate" /\ s.jobs = {} /\ s.held = NoRun /\ s.rot = {}
    BY DEF Call
  <2> HIDE DEF s
  <2>3. ControlOK(s) /\ ~Busy(s) /\ ~Busy(x)
    BY <2>1, <2>2 DEF ControlOK, RotatePoints, Loops, Busy
  <2>4. \A r : Named(s, r) => r = NoRun
    BY <2>2 DEF Named
  <2>5. \A r : ~Tends(x, r)
    BY <1>1, <2>1 DEF Tends, ControlOK
  <2>6. PlainStep(x, s)
    BY <1>2, <2>1, <2>2, <2>3, <2>4, <2>5 DEF PlainStep
  <2>7. SteadyStep(x, s)
    BY <2>1, <2>2 DEF SteadyStep, FlightPoints
  <2> QED
    BY <1>1, <2>1, <2>6, <2>7, Moves
<1>4. CASE Maintain(t)
  <2>1. PICK rot, old :
          /\ old \in SUBSET draining
          /\ x.pc = "idle" /\ draining' = draining \ old /\ gone' = gone \cup old
          /\ Goto(t, [Call("next", "maintain", NoAgent) EXCEPT !.jobs = draining \ old, !.rot = rot])
          /\ UNCHANGED <<nrun, finishing, queued, status, current, flight, queue, shuttingDown,
                         lease, reported>>
    BY <1>4 DEF Maintain, At
  <2>2. PICK s : s = [Call("next", "maintain", NoAgent) EXCEPT !.jobs = draining \ old, !.rot = rot]
    OBVIOUS
  <2>3. s.pc = "next" /\ s.op = "maintain" /\ s.held = NoRun /\ s.jobs = draining \ old
    BY <2>2 DEF Call
  <2>4. \A r \in s.jobs : SharedRef(r)
    BY <2>3 DEF SharedRef
  <2>5. \A r : IsCurrent(r)' <=> IsCurrent(r)
    BY <2>1 DEF IsCurrent
  <2>6. /\ gone \subseteq gone'
        /\ \A r \in Created : IsCurrent(r)' \/ r \in draining' => IsCurrent(r) \/ r \in draining
        /\ \A r \in Created : IsCurrent(r) \/ r \in draining => IsCurrent(r)' \/ r \in draining' \cup gone'
    BY <2>1, <2>5
  <2> QED
    BY <1>1, <2>1, <2>2, <2>3, <2>4, <2>6, PassStarts
<1>5. CASE FinishAllRuns(t)
  <2> DEFINE active == {current[a] : a \in Agents} \ {NoRun}
             idle(S) == {r \in S : inflight[r] = 0}
             kept == draining \ idle(draining)
             mark == (active \ idle(active)) \ kept
  <2>1. PICK s : s = [Call("next", "finishall", NoAgent) EXCEPT !.jobs = idle(active) \cup idle(draining)]
    OBVIOUS
  <2>2. PICK left :
          /\ left \subseteq kept \cup mark /\ draining' = left
          /\ gone' = gone \cup ((kept \cup mark) \ left)
    BY <1>5 DEF FinishAllRuns
  <2>3. /\ x.pc = "idle" /\ Goto(t, s)
        /\ current' = [a \in Agents |-> IF current[a] \in idle(active) THEN NoRun ELSE current[a]]
        /\ UNCHANGED <<nrun, finishing, queued, status, flight, queue, shuttingDown, lease, reported>>
    BY <1>5, <2>1 DEF FinishAllRuns, At
  <2>4. s.pc = "next" /\ s.op = "finishall" /\ s.held = NoRun /\ s.rot = {}
        /\ s.jobs = idle(active) \cup idle(draining)
    BY <2>1 DEF Call
  <2>5. \A r \in Created : r \in active <=> IsCurrent(r)
    BY <1>2 DEF IsCurrent
  <2>6. \A r \in s.jobs : SharedRef(r)
    BY <2>4 DEF SharedRef, IsCurrent
  <2>7. \A r \in Created : IsCurrent(r)' <=> IsCurrent(r) /\ inflight[r] # 0
    BY <1>2, <2>3, <2>5 DEF IsCurrent
  <2>8. \A r \in Created : /\ r \in idle(active) <=> IsCurrent(r) /\ inflight[r] = 0
                           /\ r \in idle(draining) <=> r \in draining /\ inflight[r] = 0
                           /\ r \in kept <=> r \in draining /\ inflight[r] # 0
                           /\ r \in mark => IsCurrent(r)
    BY <2>5
  <2> HIDE DEF active, idle, kept, mark
  <2>9. /\ gone \subseteq gone'
        /\ \A r \in Created : IsCurrent(r)' \/ r \in draining' => IsCurrent(r) \/ r \in draining
        /\ \A r \in Created : IsCurrent(r) \/ r \in draining =>
             \/ IsCurrent(r)' \/ r \in draining' \cup gone'
             \/ r \in s.jobs /\ inflight[r] = 0
    BY <2>2, <2>4, <2>7, <2>8
  <2> QED
    BY <1>1, <2>3, <2>4, <2>6, <2>9, PassStarts
\* The loops: on to an agent, to a run, or back.
<1>6. ASSUME NEW s, Goto(t, s), x.pc = "next", ControlOK(s), ~Busy(s),
             s.pc \notin FlightPoints, s.op = "shutdown" => x.op = "shutdown",
             s.jobs \subseteq x.jobs,
             \A r \in Acked : s.held = r => Ref(r),
             \A r \in x.jobs : Tends(s, r),
             UNCHANGED <<nrun, managerVars, lease, ghostVars>>
      PROVE  RunsInv'
  <2>1. \A r : Tends(x, r) => Tends(s, r)
    BY <1>6 DEF Tends
  <2>2. PlainStep(x, s)
    BY <1>1, <1>6, <2>1 DEF PlainStep, Busy, Named
  <2>3. SteadyStep(x, s)
    BY <1>6 DEF SteadyStep, FlightPoints
  <2> QED
    BY <1>1, <1>6, <2>2, <2>3, Moves
<1>7. CASE LoopNext(t)
  <2>1. x.pc = "next" /\ x.op \in Loops /\ UNCHANGED <<nrun, managerVars, lease, ghostVars>>
    BY <1>1, <1>7 DEF LoopNext, At, ControlOK
  <2>2. ASSUME NEW a \in x.rot, Goto(t, [x EXCEPT !.pc = "rotate", !.agent = a, !.rot = @ \ {a}])
        PROVE  RunsInv'
    <3>1. PICK s : s = [x EXCEPT !.pc = "rotate", !.agent = a, !.rot = @ \ {a}]
      OBVIOUS
    <3>2. s.pc = "rotate" /\ s.op = x.op /\ s.held = x.held /\ s.jobs = x.jobs
      BY <1>1, <3>1 DEF ThreadState
    <3>3. x.op = "maintain"
      BY <1>1, <2>2 DEF ControlOK
    <3>4. ControlOK(s) /\ ~Busy(s) /\ s.pc \notin FlightPoints
      BY <3>2, <3>3 DEF ControlOK, Loops, RotatePoints, Busy, FlightPoints
    <3>5. /\ \A r \in Acked : s.held = r => Ref(r)
          /\ \A r \in x.jobs : Tends(s, r)
      BY <1>1, <3>2 DEF Named, Tends
    <3> QED
      BY <1>6, <2>1, <2>2, <3>1, <3>2, <3>4, <3>5
  <2>3. ASSUME NEW r \in x.jobs, x.rot = {}, NEW p,
               p = CASE x.op = "maintain" -> "enqueue"
                     [] x.op = "finishall" -> "claim"
                     [] OTHER -> "send",
               NEW s, s = [x EXCEPT !.pc = p, !.held = r, !.jobs = @ \ {r}], Goto(t, s)
        PROVE  RunsInv'
    <3>1. s.pc = p /\ s.op = x.op /\ s.held = r /\ s.jobs = x.jobs \ {r} /\ s.rot = {}
      BY <1>1, <2>3 DEF ThreadState
    <3>2. r \in Created /\ Ref(r)
      <4>1. ThreadOK(nrun, x)
        BY <1>1, Start
      <4> QED
        BY <1>1, <2>3, <4>1, Start DEF ThreadOK, Named
    <3>3. CASE x.op # "shutdown"
      <4>1. p \in {"enqueue", "claim"}
        BY <2>1, <2>3, <3>3 DEF Loops
      <4>2. ControlOK(s) /\ ~Busy(s) /\ s.pc \notin FlightPoints
        BY <2>1, <3>1, <4>1 DEF ControlOK, Loops, RotatePoints, Busy, FlightPoints
      <4>3. \A y \in x.jobs : Tends(s, y)
        BY <3>1, <4>1 DEF Tends
      <4> QED
        BY <1>6, <2>1, <2>3, <3>1, <3>2, <4>2, <4>3
    <3>4. CASE x.op = "shutdown"
      <4>1. s.pc = "send" /\ Busy(s) /\ ControlOK(s) /\ SteadyStep(x, s) /\ Stirs(t, s)
        <5>1. p = "send"
          BY <2>3, <3>4
        <5>2. Stirs(t, s)
          BY <1>1, <2>3 DEF Goto, TypeOK, ThreadsOK, Stirs
        <5> QED
          BY <2>1, <3>1, <3>4, <5>1, <5>2 DEF Busy, ControlOK, Loops, RotatePoints, SteadyStep, FlightPoints
      <4>2. /\ UNCHANGED <<nrun, lease, finishing, queued, queue, status, current, draining, flight,
                           shuttingDown, reported>>
            /\ Acked' = Acked
        BY <2>1 DEF managerVars, ghostVars, Acked
      <4>3. Controlled' /\ FlightInv'
        BY <1>1, <4>1, <4>2, StirsSteady
      <4>4. shuttingDown /\ \A u \in Threads : th[u].op = "shutdown" => u = t
        BY <1>1, <3>4, Start DEF FinishInv, ShutdownAlone
      <4>5. /\ r \in finishing /\ r \notin Acked
            /\ \A u \in Threads : Busy(th[u]) => th[u].held # r
        BY <1>1, <2>3, <3>4, Start DEF FinishInv, ShutdownJobs
      <4>6. FinishInv'
        <5>1. PICK k : k = NoRun
          OBVIOUS
        <5>2. /\ \A u \in Threads \ {t} : Busy(th[u]) => th[u].held # k
              /\ \A u \in Threads : th[u].op = "shutdown" => k \notin th[u].jobs
          BY <1>1, <5>1, ClaimFacts
        <5>3. \A y \in Acked : Named(s, y) \/ SharedRef(y)' => Ref(y)
          BY <1>1, <3>1, <3>2, <4>2 DEF Named, Ref, SharedRef, IsCurrent, InQueue
        <5>4. /\ s.held \in finishing' /\ (s.held \in Acked' <=> s.pc = "sentOK")
              /\ \A u \in Threads \ {t} : Busy(th[u]) => th[u].held # s.held
              /\ \A u \in Threads \ {t} : th[u].op = "shutdown" => s.held \notin th[u].jobs
              /\ s.op = "shutdown" => s.held \notin s.jobs
          BY <3>1, <4>1, <4>2, <4>4, <4>5
        <5>5. /\ th[t].op = "shutdown"
              /\ \A y \in s.jobs : y \in th[t].jobs
          BY <3>1, <3>4
        <5>6. /\ finishing \ {k} \subseteq finishing' /\ Acked \subseteq Acked' /\ Acked' \subseteq Acked \cup {k}
              /\ k \in Acked' => k \in finishing'
              /\ UNCHANGED <<nrun, status>> /\ (shuttingDown => shuttingDown')
              /\ \A y \in Created : reported'[y] = reported[y]
          BY <1>2, <4>2, <5>1
        <5> QED
          BY <1>1, <4>1, <5>2, <5>3, <5>4, <5>5, <5>6, FinishStep
      <4>7. LostInv'
        BY <1>1, <2>1, <4>1, <4>2, <4>4, ShutdownLost
      <4> QED
        BY <4>3, <4>6, <4>7 DEF RunsInv
    <3> QED
      BY <3>3, <3>4
  <2>4. CASE x.jobs = {} /\ Goto(t, IdleThread)
    <3>1. /\ ControlOK(IdleThread) /\ ~Busy(IdleThread) /\ IdleThread.pc \notin FlightPoints
          /\ IdleThread.op # "shutdown" /\ IdleThread.jobs = {} /\ IdleThread.held = NoRun
      BY DEF IdleThread, Call, ControlOK, Loops, RotatePoints, Busy, FlightPoints
    <3> QED
      BY <1>2, <1>6, <2>1, <2>4, <3>1
  <2> QED
    BY <1>7, <2>2, <2>3, <2>4 DEF LoopNext
<1>8. CASE Shutdown(t)
  <2>1. PICK s : s = Call("sdwait", "shutdown", NoAgent)
    OBVIOUS
  <2>2. /\ x.pc = "idle" /\ ~shuttingDown /\ shuttingDown'
        /\ th' = [th EXCEPT ![t] = s, ![Worker] = IF @.pc = "off" THEN Done(@) ELSE @]
        /\ UNCHANGED <<nrun, finishing, queued, status, current, flight, draining, queue, lease,
                       reported, gone>>
    BY <1>8, <2>1 DEF Shutdown, At, ghostVars
  <2>3. s.pc = "sdwait" /\ s.op = "shutdown" /\ s.jobs = {} /\ s.rot = {} /\ s.held = NoRun
    BY <2>1 DEF Call
  <2>4. Stirs(t, s)
    BY <1>1, <2>2, <2>3 DEF TypeOK, ThreadsOK, Stirs
  <2>5. ControlOK(s) /\ ~Busy(s) /\ SteadyStep(x, s)
    BY <2>2, <2>3 DEF ControlOK, Loops, RotatePoints, Busy, SteadyStep, FlightPoints
  <2>6. Controlled' /\ FlightInv'
    BY <1>1, <2>2, <2>4, <2>5, StirsSteady
  <2>7. FinishInv'
    <3>1. PICK k : k = NoRun
      OBVIOUS
    <3>2. /\ \A u \in Threads \ {t} : Busy(th[u]) => th[u].held # k
          /\ \A u \in Threads : th[u].op = "shutdown" => k \notin th[u].jobs
      BY <1>1, <3>1, ClaimFacts
    <3>3. \A y \in Acked : Named(s, y) \/ SharedRef(y)' => Ref(y)
      BY <1>2, <2>2, <2>3 DEF Named, Ref, SharedRef, IsCurrent, InQueue
    <3>4. Acked' = Acked
      BY <2>2 DEF Acked
    <3> QED
      BY <1>1, <1>2, <2>2, <2>3, <2>4, <2>5, <3>1, <3>2, <3>3, <3>4, FinishStep
  <2>8. LostInv'
    BY <1>1, <2>2, <2>4, ShutdownLost
  <2> QED
    BY <2>6, <2>7, <2>8 DEF RunsInv
<1>9. CASE ShutdownClaim(t)
  <2>0. PICK left : left = (IF HasStore THEN draining
                            ELSE ({current[a] : a \in Agents} \ {NoRun}) \cup draining) \ finishing
    OBVIOUS
  <2>1. PICK s :
          /\ x.pc = "sdwait" /\ Goto(t, s) /\ finishing' = finishing \cup left
          /\ s.pc \in {"sdsave", "next"} /\ s.jobs = left /\ s.op = x.op /\ s.rot = x.rot
          /\ s.held = x.held
          /\ \A r \in Created : IsCurrent(r)' \/ r \in draining' => IsCurrent(r) \/ r \in draining
          /\ UNCHANGED <<nrun, queued, status, flight, queue, shuttingDown, lease, reported, gone>>
    <3>1. /\ x.pc = "sdwait" /\ finishing' = finishing \cup left
          /\ UNCHANGED <<nrun, queued, status, flight, queue, shuttingDown, lease, reported, gone>>
      BY <1>9, <2>0 DEF ShutdownClaim, At, ghostVars
    <3>2. CASE HasStore
      <4>1. PICK saves : /\ Goto(t, [x EXCEPT !.pc = "sdsave", !.jobs = left, !.saves = saves])
                         /\ UNCHANGED <<current, draining>>
        BY <1>9, <2>0, <3>2 DEF ShutdownClaim
      <4>2. PICK s : s = [x EXCEPT !.pc = "sdsave", !.jobs = left, !.saves = saves]
        OBVIOUS
      <4>3. s.pc = "sdsave" /\ s.jobs = left /\ s.op = x.op /\ s.rot = x.rot /\ s.held = x.held
        BY <1>1, <4>2 DEF ThreadState
      <4>4. \A r \in Created : IsCurrent(r)' \/ r \in draining' => IsCurrent(r) \/ r \in draining
        BY <4>1 DEF IsCurrent
      <4> QED
        BY <3>1, <4>1, <4>2, <4>3, <4>4
    <3>3. CASE ~HasStore
      <4>1. /\ Goto(t, [x EXCEPT !.pc = "next", !.jobs = left])
            /\ current' = [a \in Agents |-> NoRun] /\ draining' = {}
        BY <1>9, <2>0, <3>3 DEF ShutdownClaim
      <4>2. PICK s : s = [x EXCEPT !.pc = "next", !.jobs = left]
        OBVIOUS
      <4>3. s.pc = "next" /\ s.jobs = left /\ s.op = x.op /\ s.rot = x.rot /\ s.held = x.held
        BY <1>1, <4>2 DEF ThreadState
      <4>4. \A r \in Created : ~IsCurrent(r)' /\ r \notin draining'
        BY <1>2, <4>1 DEF IsCurrent
      <4> QED
        BY <3>1, <4>1, <4>2, <4>3, <4>4
    <3> QED
      BY <3>2, <3>3
  <2>2. x.op = "shutdown" /\ shuttingDown /\ \A u \in Threads : th[u].op = "shutdown" => u = t
    <3>1. x.op = "shutdown"
      BY <1>1, <2>1 DEF ControlOK
    <3> QED
      BY <1>1, <3>1, Start DEF FinishInv, ShutdownAlone
  <2>3. Stirs(t, s)
    BY <1>1, <2>1 DEF Goto, TypeOK, ThreadsOK, Stirs
  <2>4. ControlOK(s) /\ ~Busy(s) /\ SteadyStep(x, s)
    BY <1>1, <2>1, <2>2 DEF ControlOK, Loops, RotatePoints, Busy, SteadyStep, FlightPoints
  <2>5. Controlled' /\ FlightInv'
    BY <1>1, <2>1, <2>3, <2>4, StirsSteady
  <2>6. \A r \in left : SharedRef(r) /\ r \notin finishing
    BY <2>0 DEF SharedRef, IsCurrent
  <2>7. \A r \in left : r \notin Acked
    BY <2>6, Start DEF FinishInv, AckedClaimed, Ref
  <2>8. Acked' = Acked
    BY <2>1 DEF Acked
  <2>9. FinishInv'
    <3>1. PICK k : k = NoRun
      OBVIOUS
    <3>2. /\ \A u \in Threads \ {t} : Busy(th[u]) => th[u].held # k
          /\ \A u \in Threads : th[u].op = "shutdown" => k \notin th[u].jobs
      BY <1>1, <3>1, ClaimFacts
    <3>3. \A y \in Acked : Named(s, y) \/ SharedRef(y)' => Ref(y)
      <4>1. \A y \in Acked : Named(s, y) => Ref(y)
        BY <1>1, <2>1, <2>6 DEF Named, Ref
      <4>2. \A y \in Acked : SharedRef(y)' => SharedRef(y)
        BY <1>2, <2>1 DEF SharedRef, InQueue
      <4> QED
        BY <4>1, <4>2 DEF Ref
    <3>4. \A r \in s.jobs : /\ r \in finishing' /\ r \notin Acked'
                            /\ \A u \in Threads \ {t} : Busy(th[u]) => th[u].held # r
      BY <2>1, <2>6, <2>7, <2>8, Start DEF FinishInv, ClaimsHeld
    <3>5. /\ finishing \ {k} \subseteq finishing' /\ Acked \subseteq Acked' /\ Acked' \subseteq Acked \cup {k}
          /\ k \in Acked' => k \in finishing'
          /\ UNCHANGED <<nrun, status>> /\ (shuttingDown => shuttingDown')
          /\ \A y \in Created : reported'[y] = reported[y]
      BY <1>2, <2>1, <2>8, <3>1
    <3> QED
      BY <1>1, <2>2, <2>3, <2>4, <3>2, <3>3, <3>4, <3>5, FinishStep
  <2>10. LostInv'
    BY <1>1, <2>1, <2>2, <2>3, ShutdownLost
  <2> QED
    BY <2>5, <2>9, <2>10 DEF RunsInv
<1>10. CASE ShutdownSave(t)
  <2>1. PICK p, saves :
          /\ p \in {"sdsave", "next"} /\ x.pc = "sdsave"
          /\ Goto(t, [x EXCEPT !.pc = p, !.saves = saves])
          /\ UNCHANGED <<nrun, managerVars, lease, ghostVars>>
    <3>1. x.pc = "sdsave" /\ UNCHANGED <<nrun, managerVars, lease, ghostVars>>
      BY <1>10 DEF ShutdownSave, At
    <3>2. \A v : [x EXCEPT !.saves = v] = [x EXCEPT !.pc = "sdsave", !.saves = v]
      BY <1>1, <3>1 DEF ThreadState
    <3>3. [x EXCEPT !.pc = "next"] = [x EXCEPT !.pc = "next", !.saves = x.saves]
      BY <1>1 DEF ThreadState
    <3>4. \/ \E v : Goto(t, [x EXCEPT !.saves = v])
          \/ Goto(t, [x EXCEPT !.pc = "next"])
      BY <1>10 DEF ShutdownSave
    <3> QED
      BY <3>1, <3>2, <3>3, <3>4
  <2>2. PICK s : s = [x EXCEPT !.pc = p, !.saves = saves]
    OBVIOUS
  <2>3. s.pc = p /\ s.op = x.op /\ s.held = x.held /\ s.jobs = x.jobs /\ s.rot = x.rot
    BY <1>1, <2>2 DEF ThreadState
  <2>4. ControlOK(s) /\ ~Busy(s) /\ ~Busy(x) /\ SteadyStep(x, s)
    BY <1>1, <2>1, <2>3 DEF ControlOK, Loops, RotatePoints, Busy, SteadyStep, FlightPoints
  <2>5. \A r : (Named(s, r) <=> Named(x, r)) /\ (Tends(x, r) => Tends(s, r))
    BY <2>1, <2>3 DEF Named, Tends
  <2>6. PlainStep(x, s)
    BY <1>1, <2>1, <2>3, <2>4, <2>5 DEF PlainStep
  <2> QED
    BY <1>1, <2>1, <2>2, <2>4, <2>6, Moves
<1> QED
  BY <1>3, <1>4, <1>5, <1>7, <1>8, <1>9, <1>10 DEF Background

---------------------------------------------------------------------------
(* The rest of the system.                                                 *)

\* The worker's loop keeps the invariant.
LEMMA RunsWorker ==
  ASSUME TypeOK, TypeOK', RunsInv, FinishLoopTake \/ FinishLoopExit
  PROVE  RunsInv'
<1> DEFINE x == th[Worker]
<1>1. Worker \in Threads /\ x.pc = "loop" /\ x \in ThreadState /\ ControlOK(x) /\ x.jobs = {}
  BY Start DEF Threads, FinishLoopTake, FinishLoopExit, At, ControlOK
<1>2. NoRun \notin Acked /\ NoRun \notin Created /\ Acked \subseteq Created
  BY Start
<1>3. CASE FinishLoopTake
  <2>1. PICK r : r = Head(queue)
    OBVIOUS
  <2>2. PICK s : s = [x EXCEPT !.pc = "claim", !.held = r]
    OBVIOUS
  <2>3. /\ Goto(Worker, s) /\ queue # <<>> /\ queue' = Tail(queue)
        /\ UNCHANGED <<nrun, finishing, queued, status, current, flight, draining, shuttingDown,
                       lease, reported, gone>>
    BY <1>3, <2>1, <2>2 DEF FinishLoopTake, ghostVars
  <2>4. s.pc = "claim" /\ s.held = r /\ s.op = x.op /\ s.jobs = {} /\ s.rot = x.rot
    BY <1>1, <2>2 DEF ThreadState
  <2>5. ControlOK(s) /\ ~Busy(s) /\ SteadyStep(x, s) /\ Stirs(Worker, s)
    <3>1. Stirs(Worker, s)
      BY <1>1, <2>3 DEF Goto, TypeOK, ThreadsOK, Stirs
    <3> QED
      BY <1>1, <2>4, <3>1 DEF ControlOK, Loops, RotatePoints, Busy, SteadyStep, FlightPoints
  <2>6. Controlled' /\ FlightInv'
    BY <1>1, <2>3, <2>5, StirsSteady
  <2>7. /\ InQueue(r)
        /\ \A y : InQueue(y)' => InQueue(y)
        /\ \A y : InQueue(y) => InQueue(y)' \/ y = r
    <3>1. queue \in Seq(Created)
      BY DEF TypeOK, ManagerOK
    <3>2. PICK n \in Nat : n = Len(queue)
      BY <3>1
    <3>3. /\ n # 0 /\ r = queue[1] /\ Len(queue') = n - 1
          /\ \A i \in 1..(n - 1) : queue'[i] = queue[i + 1]
      BY <2>1, <2>3, <3>1, <3>2
    <3>4. \A y : InQueue(y) <=> \E i \in 1..n : queue[i] = y
      BY <3>2 DEF InQueue
    <3>5. \A y : InQueue(y)' <=> \E i \in 1..(n - 1) : queue'[i] = y
      BY <3>3 DEF InQueue
    <3>6. InQueue(r)
      BY <3>2, <3>3, <3>4
    <3>7. ASSUME NEW y, InQueue(y)' PROVE InQueue(y)
      <4>1. PICK i \in 1..(n - 1) : queue'[i] = y
        BY <3>5, <3>7
      <4>2. i + 1 \in 1..n /\ queue[i + 1] = y
        BY <3>2, <3>3, <4>1
      <4> QED
        BY <3>4, <4>2
    <3>8. ASSUME NEW y, InQueue(y), y # r PROVE InQueue(y)'
      <4>1. PICK i \in 1..n : queue[i] = y
        BY <3>4, <3>8
      <4>2. i - 1 \in 1..(n - 1) /\ (i - 1) + 1 = i
        BY <3>2, <3>3, <3>8, <4>1
      <4>3. queue'[i - 1] = y
        BY <3>3, <4>1, <4>2
      <4> QED
        BY <3>5, <4>2, <4>3
    <3> QED
      BY <3>6, <3>7, <3>8
  <2>8. /\ Acked' = Acked
        /\ \A y : Settled(y)' <=> Settled(y)
    BY <2>3 DEF Acked, Settled, IsCurrent
  <2>9. FinishInv'
    <3>1. \A y \in Acked : Named(s, y) \/ SharedRef(y)' => Ref(y)
      BY <2>3, <2>4, <2>7 DEF Named, Ref, SharedRef, IsCurrent
    <3>2. s.op # "shutdown" \/ (s.op = "shutdown" => x.op = "shutdown" /\ s.jobs \subseteq x.jobs)
      BY <1>1, <2>4
    <3> QED
      BY <1>1, <2>3, <2>4, <2>5, <3>1, <3>2, QuietFinish
  <2>10. LostInv'
    <3>1. \A y \in Created : Settled(y) \/ InQueue(y) => Settled(y)' \/ InQueue(y)' \/ Tends(s, y)
      BY <2>4, <2>7, <2>8 DEF Tends
    <3>2. \A y \in Created : ~Tends(x, y)
      BY <1>1 DEF Tends
    <3>3. \A y \in queued' :
            \/ InQueue(y)' \/ (s.pc \in {"push", "claim"} /\ s.held = y)
            \/ \E u \in Threads \ {Worker} : th[u].pc \in {"push", "claim"} /\ th[u].held = y
      BY <1>1, <2>3, <2>4, <2>7, Elsewhere
    <3>4. \A y \in finishing' :
            \/ y \in Acked' \/ shuttingDown'
            \/ \E u \in Threads \ {Worker} : Busy(th[u]) /\ th[u].held = y
      BY <1>1, <2>3, <2>8, Elsewhere DEF Busy
    <3>5. \A q \in Clients : lease[q] # NoRun => Settled(lease[q])'
      BY <2>3, <2>8, Start DEF LostInv
    <3> QED
      BY <1>1, <2>3, <2>5, <3>1, <3>2, <3>3, <3>4, <3>5, LostStep
  <2> QED
    BY <2>6, <2>9, <2>10 DEF RunsInv
<1>4. CASE FinishLoopExit
  <2>1. PICK s : s = Call("exited", "worker", NoAgent)
    OBVIOUS
  <2>2. Goto(Worker, s) /\ shuttingDown /\ UNCHANGED <<nrun, managerVars, lease, ghostVars>>
    BY <1>4, <2>1 DEF FinishLoopExit
  <2>3. s.pc = "exited" /\ s.op = "worker" /\ s.jobs = {} /\ s.rot = {} /\ s.held = NoRun
    BY <2>1 DEF Call
  <2>4. ControlOK(s) /\ ~Busy(s) /\ ~Busy(x) /\ SteadyStep(x, s)
    BY <1>1, <2>3 DEF ControlOK, Loops, RotatePoints, Busy, SteadyStep, FlightPoints
  <2>5. \A r : (Named(s, r) => r = NoRun) /\ ~Tends(x, r)
    BY <1>1, <2>3 DEF Named, Tends
  <2>6. PlainStep(x, s)
    BY <1>1, <1>2, <2>3, <2>4, <2>5 DEF PlainStep
  <2> QED
    BY <1>1, <2>2, <2>4, <2>6, Moves
<1> QED
  BY <1>3, <1>4

\* So do the aging of runs and stuttering, which touch nothing it speaks of.
LEMMA RunsStutter ==
  ASSUME RunsInv, UNCHANGED <<nrun, managerVars, th, lease, ghostVars>>
  PROVE  RunsInv'
<1>1. /\ nrun' = nrun /\ current' = current /\ draining' = draining /\ queue' = queue /\ lease' = lease
      /\ finishing' = finishing /\ reported' = reported /\ shuttingDown' = shuttingDown
      /\ status' = status /\ flight' = flight /\ gone' = gone /\ queued' = queued /\ th' = th
  BY DEF managerVars, ghostVars
<1>2. Controlled' /\ FlightInv'
  BY <1>1 DEF RunsInv, Controlled, FlightInv, SingleFlight, Leading, At
<1>3. Created' = Created /\ Acked' = Acked
  BY <1>1 DEF Created, Acked
<1>4. \A r : /\ SharedRef(r)' <=> SharedRef(r)
             /\ Ref(r)' <=> Ref(r)
             /\ InQueue(r)' <=> InQueue(r)
             /\ Settled(r)' <=> Settled(r)
             /\ Tended(r)' <=> Tended(r)
  BY <1>1, <1>3 DEF SharedRef, Ref, InQueue, Settled, IsCurrent, Tended
<1>5. FinishInv'
  BY <1>1, <1>3, <1>4 DEF RunsInv, FinishInv, ShutdownAlone, ClaimsHeld, AckedClaimed, ShutdownJobs,
                          HonestFinish
<1>6. LostInv'
  <2>1. \A q \in Clients : lease'[q] # NoRun => Settled(lease'[q])
    BY <1>1 DEF RunsInv, LostInv
  <2>2. \A q \in Clients : lease'[q] # NoRun => Settled(lease[q])'
    BY <1>1, <1>3, <2>1 DEF Settled, IsCurrent
  <2> QED
    BY <1>1, <1>3, <1>4, <2>2 DEF RunsInv, LostInv
<1> QED
  BY <1>2, <1>5, <1>6 DEF RunsInv

\* A state in which no goroutine is in a call and the manager knows no run.
Fresh ==
  /\ nrun \in Nat /\ Created \subseteq Runs /\ NoRun \notin Created
  /\ Created \subseteq gone /\ Acked \subseteq Created
  /\ finishing = {} /\ queued = {} /\ draining = {} /\ queue = <<>> /\ flight = {}
  /\ shuttingDown = FALSE /\ status = [r \in Runs |-> ""]
  /\ current = [a \in Agents |-> NoRun] /\ lease = [q \in Clients |-> NoRun]
  /\ th = [q \in Threads |-> IF q = Worker THEN OffWorker ELSE IdleThread]

LEMMA RunsFresh == Fresh => RunsInv
<1> SUFFICES ASSUME Fresh PROVE RunsInv
  OBVIOUS
<1>1. \A q \in Threads : /\ ControlOK(th[q]) /\ ~Busy(th[q]) /\ th[q].jobs = {} /\ th[q].held = NoRun
                         /\ th[q].op # "shutdown" /\ th[q].pc \in {"idle", "off"}
  BY DEF Fresh, OffWorker, IdleThread, Call, ControlOK, Loops, RotatePoints, Busy
<1>2. Controlled
  BY <1>1 DEF Controlled
<1>3. FlightInv
  BY <1>1 DEF Fresh, FlightInv, SingleFlight, Leading, At
<1>4. \A r \in Created : ~Ref(r)
  <2> SUFFICES ASSUME NEW r \in Created PROVE ~Ref(r)
    OBVIOUS
  <2>1. ~IsCurrent(r) /\ r \notin draining /\ \A q \in Clients : lease[q] # r
    BY DEF Fresh, IsCurrent
  <2>2. ~InQueue(r)
    <3>1. queue = <<>>
      BY DEF Fresh
    <3>2. Len(queue) = 0
      BY <3>1
    <3>3. \A i : i \notin 1..0
      OBVIOUS
    <3> QED
      BY <3>2, <3>3 DEF InQueue
  <2>3. \A q \in Threads : ~Named(th[q], r)
    BY <1>1 DEF Fresh, Named
  <2> QED
    BY <2>1, <2>2, <2>3 DEF Ref, SharedRef
<1>5. HonestFinish
  BY DEF Fresh, HonestFinish
<1>6. FinishInv
  BY <1>1, <1>4, <1>5 DEF Fresh, FinishInv, ShutdownAlone, ClaimsHeld, AckedClaimed, ShutdownJobs
<1>7. LostInv
  BY <1>1 DEF Fresh, LostInv, Settled
<1> QED
  BY <1>2, <1>3, <1>6, <1>7 DEF RunsInv

LEMMA RunsInit == Init => RunsInv
<1> SUFFICES ASSUME Init PROVE RunsInv
  OBVIOUS
<1>1. nrun = 0 /\ Created = {}
  <2>1. nrun = 0
    BY DEF Init
  <2>2. \A i : i \notin 1..0
    OBVIOUS
  <2> QED
    BY <2>1, <2>2 DEF Created
<1>2. Acked = {}
  BY DEF Init, Acked
<1>3. Fresh
  <2>1. nrun \in Nat /\ Created \subseteq Runs /\ NoRun \notin Created
    BY <1>1
  <2>2. Created \subseteq gone /\ Acked \subseteq Created
    BY <1>1, <1>2
  <2>3. /\ finishing = {} /\ queued = {} /\ draining = {} /\ queue = <<>> /\ flight = {}
        /\ shuttingDown = FALSE /\ status = [r \in Runs |-> ""]
        /\ current = [a \in Agents |-> NoRun] /\ lease = [q \in Clients |-> NoRun]
        /\ th = [q \in Threads |-> IF q = Worker THEN OffWorker ELSE IdleThread]
    BY DEF Init
  <2> QED
    BY <2>1, <2>2, <2>3 DEF Fresh
<1> QED
  BY <1>3, RunsFresh

\* A crash leaves the store and what upstream knows: no goroutine is in a call,
\* and every run has been let go.
LEMMA RunsCrash == ASSUME TypeOK, TypeOK', RunsInv, Crash PROVE RunsInv'
<1>1. /\ nrun' = nrun /\ reported' = reported /\ gone' = 1..nrun
      /\ FreshManager
  BY DEF Crash
<1>2. Created' = Created /\ Acked' = Acked
  BY <1>1 DEF Created, Acked
<1>3. Fresh'
  BY <1>1, <1>2, Start DEF FreshManager, Fresh
<1>4. Fresh' => RunsInv'
  BY RunsFresh, PTL
<1> QED
  BY <1>3, <1>4

LEMMA RunsNext ==
  ASSUME TypeOK, TypeOK', LeaseInv, RunsInv, [Next]_vars
  PROVE  RunsInv'
<1>1. ASSUME NEW t \in Clients, Request(t) PROVE RunsInv'
  BY <1>1, RunsRequest
<1>2. ASSUME NEW t \in Keepers, Background(t) PROVE RunsInv'
  BY <1>2, RunsBackground
<1>3. ASSUME NEW t \in Procs, CtxDone(t) \/ Rotation(t) \/ EnqueueFinish(t) \/ Enqueue(t)
      PROVE  RunsInv'
  BY <1>3, RunsRotation, RunsQueue
<1>4. ASSUME NEW t \in Threads, Finish(t) PROVE RunsInv'
  BY <1>4, RunsFinish
<1>5. CASE FinishLoopTake \/ FinishLoopExit
  BY <1>5, RunsWorker
<1>6. CASE RunAges
  BY <1>6, RunsStutter DEF RunAges, RunsInv
<1>7. CASE Crash
  BY <1>7, RunsCrash
<1>8. CASE UNCHANGED vars
  BY <1>8, RunsStutter DEF vars
<1> QED
  BY <1>1, <1>2, <1>3, <1>4, <1>5, <1>6, <1>7, <1>8 DEF Next

---------------------------------------------------------------------------
(* The theorems.                                                           *)

\* Every reachable state satisfies RunsInv: the invariant the three theorems
\* below are read off (the lock-protected sections of runs.go, drain.go and
\* steps.go taken together).
THEOREM RunsKept == Spec => []RunsInv
<1>1. Init => RunsInv
  BY RunsInit
<1>2. TypeOK /\ TypeOK' /\ LeaseInv /\ RunsInv /\ [Next]_vars => RunsInv'
  BY RunsNext
<1> QED
  BY <1>1, <1>2, TypeInit, TypeNext, LeaseInit, LeaseNext, PTL DEF Spec

\* rotate is single-flight (runs.go, rotate): two goroutines never START or
\* resume a run for the same agent at the same time, whoever leads has its
\* flight registered, and every registered flight has a leader to close it.
THEOREM FlightsAreSingle == Spec => []SingleFlight
<1>1. RunsInv => SingleFlight
  BY DEF RunsInv, FlightInv
<1> QED
  BY <1>1, RunsKept, PTL

\* What upstream hears of a run is exact (drain.go, finishIfReadyCtx): one
\* goroutine at a time sends its FINISH, none after it was acknowledged, and a
\* run that failed is never reported as anything else.
THEOREM FinishIsExact == Spec => []FinishExact
<1>1. RunsInv => FinishExact
  <2> SUFFICES ASSUME RunsInv PROVE FinishExact
    OBVIOUS
  <2>1. \A t \in Threads : InFinish(t) <=> Busy(th[t])
    BY DEF InFinish, Busy
  <2>2. ClaimsHeld /\ HonestFinish
    BY DEF RunsInv, FinishInv
  <2>3. \A t \in Threads : th[t].pc \in {"unpersist", "send"} => th[t].held \notin Acked
    BY <2>2 DEF ClaimsHeld, Busy
  <2> QED
    BY <2>1, <2>2, <2>3 DEF ClaimsHeld, FinishExact, FinishedOnce
<1> QED
  BY <1>1, RunsKept, PTL

\* No run is lost (runs.go Release and Maintain, drain.go enqueueFinish): until
\* its FINISH is acknowledged, a run is current, draining, queued or in the
\* hands of a goroutine, unless it was let go on purpose or Shutdown has begun.
THEOREM NoRunIsLost == Spec => []NoLostRun
<1>1. RunsInv => NoLostRun
  <2> SUFFICES ASSUME RunsInv, NEW r \in Created \ (Acked \cup gone)
               PROVE  \/ r \in draining \/ IsCurrent(r) \/ InQueue(r) \/ InHand(r)
                      \/ shuttingDown
    BY DEF NoLostRun, IsCurrent, InQueue
  <2>1. Settled(r) \/ InQueue(r) \/ Tended(r)
    BY DEF RunsInv, LostInv
  <2>2. Tended(r) => InHand(r)
    BY DEF Tended, Tends, InHand
  <2> QED
    BY <2>1, <2>2 DEF Settled
<1> QED
  BY <1>1, RunsKept, PTL
===========================================================================
