---------------------------- MODULE RunManager ----------------------------
(***************************************************************************)
(* The agent-run lifecycle of one upstream token                           *)
(* (backend/internal/runs: runs.go, drain.go, steps.go).                   *)
(*                                                                         *)
(* A run is STARTed upstream on first use of an agent, leased to chat      *)
(* requests, rotated when it is old, and FINISHed upstream once its last   *)
(* lease is gone.  Every section the Go code executes under RunManager.mu  *)
(* is one action; a store access, a channel operation and an upstream call *)
(* are actions of their own, since no lock is held across them.            *)
(*                                                                         *)
(* A Run object is a number; ridOf gives the upstream run id it stands     *)
(* for.  The two differ only after rotate() adopts a persisted record: the *)
(* new object then carries the run id of an older one.                     *)
(***************************************************************************)
EXTENDS Naturals, Sequences, FiniteSets

CONSTANTS
  Clients,     \* goroutines that serve requests: Acquire, release
  Keepers,     \* goroutines of the pool's maintenance, idle and shutdown passes
  Passes,      \* the passes Keepers make
  Worker,      \* the goroutine of finishLoop
  Agents,      \* agent ids
  NoAgent,     \* the agent of a goroutine that is not inside a call
  MaxRuns,     \* bound: Run objects created in one behaviour
  QueueSize,   \* RUN_FINISH_QUEUE_SIZE
  DrainCap,    \* RUNS_DRAIN_QUEUE_CAP
  HasStore,    \* SESSION_PERSIST: is there a session-state store
  MaxCrashes   \* bound: process crashes in one behaviour

ASSUME ConstantsAssumption ==
  /\ Worker \notin Clients \cup Keepers
  /\ Clients \cap Keepers = {}
  /\ Passes \subseteq {"precreate", "maintain", "finishall", "shutdown"}
  /\ NoAgent \notin Agents
  /\ MaxRuns \in Nat
  /\ QueueSize \in Nat \ {0}
  /\ DrainCap \in Nat \ {0}
  /\ HasStore \in BOOLEAN
  /\ MaxCrashes \in Nat
  /\ IsFiniteSet(Clients)

Procs   == Clients \cup Keepers
Threads == Procs \cup {Worker}
Runs    == 1..MaxRuns
NoRun   == 0
RunRef  == Runs \cup {NoRun}

VARIABLES
  nrun,         \* Run objects created so far
  agentOf,      \* Run.AgentID
  ridOf,        \* Run.RunID
  inflight,     \* Run.inflight
  finishing,    \* Runs whose finishing flag is set
  queued,       \* Runs whose queued flag is set
  status,       \* Run.Status, "" while unset
  current,      \* RunManager.runs
  flight,       \* agents with an entry in RunManager.starting
  draining,     \* RunManager.draining
  queue,        \* finishQueue
  shuttingDown, \* RunManager.shuttingDown (and finishStop closed)
  th,           \* control state of every goroutine
  lease,        \* the Run each request holds a lease on
  store,        \* persisted run records: agent -> run id
  aged,         \* run ids older than the rotation interval
  reported,     \* history: the status in each Run's acknowledged FINISH
  gone,         \* history: Runs let go without FINISH (Invalidate, prune)
  crashes       \* process crashes so far

managerVars == <<agentOf, ridOf, inflight, finishing, queued, status, current,
                 flight, draining, queue, shuttingDown>>
outsideVars == <<store, aged>>
ghostVars   == <<reported, gone, crashes>>
vars == <<nrun, managerVars, th, lease, outsideVars, ghostVars>>

---------------------------------------------------------------------------
(* Control state of a goroutine: the call it is in, the point it reached,  *)
(* the Run it works on (held), the Run it just STARTed (fresh), and the    *)
(* Runs (jobs) and agents (rot) its loop has still to visit.               *)

Ops == {"none", "acquire", "precreate", "release", "maintain", "finishall",
        "shutdown", "worker"}
PCs == {"idle", "acquire", "rotate", "wait", "load", "stale", "resume",
        "start", "discard", "persist", "lease", "next", "enqueue", "push",
        "claim", "unpersist", "send", "sentOK", "sentErr",
        "off", "loop", "exited", "sdwait", "sdsave"}

ThreadState == [pc : PCs, op : Ops, agent : Agents \cup {NoAgent},
                held : RunRef, fresh : RunRef,
                jobs : SUBSET Runs, saves : SUBSET Runs, rot : SUBSET Agents]

\* A goroutine that enters call o, for agent a, at point p.
Call(p, o, a) ==
  [pc |-> p, op |-> o, agent |-> a, held |-> NoRun, fresh |-> NoRun,
   jobs |-> {}, saves |-> {}, rot |-> {}]

IdleThread == Call("idle", "none", NoAgent)
OffWorker  == Call("off", "worker", NoAgent)

\* Where a goroutine continues after rotate or a FINISH attempt returned.
Done(s) ==
  CASE s.op = "acquire" ->
         [s EXCEPT !.pc = "lease", !.held = NoRun, !.fresh = NoRun]
    [] s.op = "worker" -> Call("loop", "worker", NoAgent)
    [] s.op \in {"maintain", "finishall", "shutdown"} ->
         [s EXCEPT !.pc = "next", !.agent = NoAgent, !.held = NoRun,
                   !.fresh = NoRun]
    [] OTHER -> IdleThread

\* Where it continues after rotate returned an error.
Failed(s) == IF s.op = "maintain" THEN Done(s) ELSE IdleThread

\* rotate enqueues the FINISH of the run it replaced, if any.
Retire(s, old) ==
  IF old = NoRun THEN Done(s)
  ELSE [s EXCEPT !.pc = "enqueue", !.held = old, !.fresh = NoRun]

At(t, p) == th[t].pc = p
Goto(t, s) == th' = [th EXCEPT ![t] = s]

\* What a goroutine does when the flight it waits on closes: return, fail with
\* the leader's error, or compete for leadership.
AllDone   == [q \in Threads |-> Done(th[q])]
AllFailed == [q \in Threads |-> Failed(th[q])]
AllRetry  == [q \in Threads |-> [th[q] EXCEPT !.pc = "rotate"]]

\* The leader's step plus close(flight.done): every waiter on agent a goes on.
CloseFlight(t, a, s, woken) ==
  /\ flight' = flight \ {a}
  /\ th' = [q \in Threads |->
              IF q = t THEN s
              ELSE IF th[q].pc = "wait" /\ th[q].agent = a THEN woken[q]
              ELSE th[q]]

---------------------------------------------------------------------------
(* Pieces of state.                                                        *)

NeedsRotate(a) == current[a] # NoRun => ridOf[current[a]] \in aged

\* current without r (the `current == run` deletions).
DropCurrent(r) == [a \in Agents |-> IF current[a] = r THEN NoRun ELSE current[a]]

PrunedWithoutCap(old, r) == (draining \ old) \cup {r}

\* What pruneDrainingLocked leaves of the draining list with r appended: the
\* entries older than drainTTL (old) go, then the cap is enforced from the
\* newest end, so that the overflow is r itself.
Pruned(old, r) ==
  IF Cardinality(draining \ old) < DrainCap THEN (draining \ old) \cup {r}
  ELSE draining \ old

AppendDrainingNil(r) ==
  \E old \in SUBSET draining :
    /\ draining' = Pruned(old, r)
    /\ gone' = gone \cup ((draining \cup {r}) \ draining')

\* appendDrainingLocked: nothing for a run that is listed already.
AppendDraining(r) ==
  \/ /\ r = NoRun \/ r \in draining
     /\ UNCHANGED <<draining, gone>>
  \/ /\ r # NoRun /\ r \notin draining
     /\ \E old \in SUBSET draining :
          /\ draining' = Pruned(old, r)
          /\ gone' = gone \cup ((draining \cup {r}) \ draining')

\* A fresh Run object n for agent a standing for upstream run id rid.
NewRun(n, a, rid) ==
  /\ nrun' = n
  /\ agentOf' = [agentOf EXCEPT ![n] = a]
  /\ ridOf' = [ridOf EXCEPT ![n] = rid]

\* The terminal status finishPayload reports for a Run.
Payload(r) == IF status[r] = "" THEN "completed" ELSE status[r]

---------------------------------------------------------------------------
(* Acquire, Precreate and the single-flight rotation.                      *)

CallAcquire(t, a) ==
  /\ At(t, "idle") /\ lease[t] = NoRun
  /\ Goto(t, Call("acquire", "acquire", a))
  /\ UNCHANGED <<nrun, managerVars, lease, outsideVars, ghostVars>>

\* The first section of Acquire's loop.
AcquireCheck(t) ==
  /\ At(t, "acquire")
  /\ \E cooling \in BOOLEAN :
       Goto(t, IF cooling THEN IdleThread
               ELSE [th[t] EXCEPT !.pc = IF NeedsRotate(th[t].agent)
                                         THEN "rotate" ELSE "lease"])
  /\ UNCHANGED <<nrun, managerVars, lease, outsideVars, ghostVars>>

\* Precreate.  (The Precreate a request makes before its Acquire rotates as
\* that Acquire does.)
CallPrecreate(t, a) ==
  /\ At(t, "idle") /\ "precreate" \in Passes
  /\ NeedsRotate(a)
  /\ Goto(t, Call("rotate", "precreate", a))
  /\ UNCHANGED <<nrun, managerVars, lease, outsideVars, ghostVars>>

CtxDoneLeading(t) ==
  /\ th[t].pc \in {"acquire", "rotate", "wait", "start"}
  /\ Goto(t, Failed(th[t]))
  /\ UNCHANGED <<nrun, managerVars, lease, outsideVars, ghostVars>>

\* The request's context ends while it is not inside an upstream call.
CtxDone(t) ==
  /\ th[t].pc \in {"acquire", "rotate", "wait"}
  /\ Goto(t, Failed(th[t]))
  /\ UNCHANGED <<nrun, managerVars, lease, outsideVars, ghostVars>>

\* The first section of rotate: refuse (shutdown or cooldown), return, wait
\* for the leader, or lead.
RotateCheck(t) ==
  LET a == th[t].agent IN
  /\ At(t, "rotate")
  /\ \/ /\ Goto(t, Failed(th[t]))   \* shutting down, or cooling
        /\ UNCHANGED flight
     \/ /\ ~shuttingDown
        /\ \/ /\ ~NeedsRotate(a)
              /\ Goto(t, Done(th[t]))
              /\ UNCHANGED flight
           \/ /\ NeedsRotate(a) /\ a \in flight
              /\ Goto(t, [th[t] EXCEPT !.pc = "wait"])
              /\ UNCHANGED flight
           \/ /\ NeedsRotate(a) /\ a \notin flight
              /\ flight' = flight \cup {a}
              /\ Goto(t, [th[t] EXCEPT !.pc = IF HasStore THEN "load" ELSE "start"])
  /\ UNCHANGED <<nrun, agentOf, ridOf, inflight, finishing, queued, status,
                 current, draining, queue, shuttingDown,
                 lease, outsideVars, ghostVars>>

\* store.LoadRun: adopt a record that is young enough, drop one that is not.
LoadRun(t) ==
  LET rid == store[th[t].agent] IN
  /\ At(t, "load")
  /\ Goto(t, [th[t] EXCEPT !.pc = IF rid = NoRun THEN "start"
                                  ELSE IF rid \in aged THEN "stale"
                                  ELSE "resume",
                           !.fresh = IF rid \in aged THEN NoRun ELSE rid])
  /\ UNCHANGED <<nrun, managerVars, lease, outsideVars, ghostVars>>

DropStaleRecord(t) ==
  /\ At(t, "stale")
  /\ store' = [store EXCEPT ![th[t].agent] = NoRun]
  /\ Goto(t, [th[t] EXCEPT !.pc = "start"])
  /\ UNCHANGED <<nrun, managerVars, lease, aged, ghostVars>>

\* The resume section: a new object for the persisted run id becomes current
\* and the run it replaces drains.
ResumeRun(t) ==
  LET a == th[t].agent
      n == nrun + 1
      old == current[a] IN
  /\ At(t, "resume")
  /\ \/ /\ shuttingDown
        /\ CloseFlight(t, a, Failed(th[t]), AllFailed)
        /\ UNCHANGED <<nrun, agentOf, ridOf, current, draining, gone>>
     \/ /\ ~shuttingDown
        /\ n <= MaxRuns
        /\ NewRun(n, a, th[t].fresh)
        /\ current' = [current EXCEPT ![a] = n]
        /\ AppendDraining(old)
        /\ CloseFlight(t, a, Retire(th[t], old), AllDone)
  /\ UNCHANGED <<inflight, finishing, queued, status, queue,
                 shuttingDown, lease, outsideVars, reported, crashes>>

StartNeverDiscarded == FALSE
\* A START that completes after Shutdown began is not tracked.
StartDiscarded == shuttingDown

\* StartRun answered and rotate's last section ran: track the run, or, when
\* Shutdown began meanwhile, discard it.
StartRunOK(t) ==
  LET a == th[t].agent
      n == nrun + 1
      old == current[a] IN
  /\ At(t, "start")
  /\ n <= MaxRuns
  /\ NewRun(n, a, n)
  /\ \/ /\ StartDiscarded
        /\ CloseFlight(t, a, [th[t] EXCEPT !.pc = "discard", !.fresh = n], AllDone)
        /\ UNCHANGED <<current, draining, gone>>
     \/ /\ ~StartDiscarded
        /\ current' = [current EXCEPT ![a] = n]
        /\ AppendDraining(old)
        /\ CloseFlight(t, a,
             IF HasStore
             THEN [th[t] EXCEPT !.pc = "persist", !.fresh = n, !.held = old]
             ELSE Retire(th[t], old),
             AllDone)
  /\ UNCHANGED <<inflight, finishing, queued, status, queue,
                 shuttingDown, lease, outsideVars, reported, crashes>>

\* StartRun failed: waiters share the error, except that the cancellation of
\* the leader's own context sends them back to compete for leadership.
StartRunFailed(t) ==
  LET a == th[t].agent IN
  /\ At(t, "start")
  /\ \/ CloseFlight(t, a, Failed(th[t]), AllFailed)
     \/ CloseFlight(t, a, Failed(th[t]), AllRetry)
  /\ UNCHANGED <<nrun, agentOf, ridOf, inflight, finishing, queued, status,
                 current, draining, queue, shuttingDown,
                 lease, outsideVars, ghostVars>>

\* finishInline: best-effort FINISH of a run that was never tracked.
FinishInline(t) ==
  /\ At(t, "discard")
  /\ gone' = gone \cup {th[t].fresh}
  /\ Goto(t, Failed(th[t]))
  /\ UNCHANGED <<nrun, managerVars, lease, store, aged, reported, crashes>>

\* persistRun(newRun), after the section that made it current.
PersistRun(t) ==
  /\ At(t, "persist")
  /\ store' = [store EXCEPT ![th[t].agent] = ridOf[th[t].fresh]]
  /\ Goto(t, Retire(th[t], th[t].held))
  /\ UNCHANGED <<nrun, managerVars, lease, aged, ghostVars>>

\* The second section of Acquire's loop: lease the current run, or loop.
LeaseRun(t) ==
  LET r == current[th[t].agent] IN
  /\ At(t, "lease")
  /\ IF r = NoRun
     THEN /\ Goto(t, [th[t] EXCEPT !.pc = "acquire"])
          /\ UNCHANGED <<inflight, lease>>
     ELSE /\ inflight' = [inflight EXCEPT ![r] = @ + 1]
          /\ lease' = [lease EXCEPT ![t] = r]
          /\ Goto(t, IdleThread)
  /\ UNCHANGED <<nrun, agentOf, ridOf, finishing, queued, status, current,
                 flight, draining, queue, shuttingDown,
                 outsideVars, ghostVars>>

---------------------------------------------------------------------------
(* The end of a lease.                                                     *)

ReturnLeaseForgetsDraining(t) ==
  LET r == lease[t] IN
  /\ At(t, "idle") /\ r # NoRun
  /\ lease' = [lease EXCEPT ![t] = NoRun]
  /\ inflight' = [inflight EXCEPT ![r] = IF r \notin draining THEN @ - 1 ELSE @]

\* The decrement both releases begin with.
ReturnLease(t) ==
  LET r == lease[t] IN
  /\ At(t, "idle") /\ r # NoRun
  /\ lease' = [lease EXCEPT ![t] = NoRun]
  /\ inflight' = [inflight EXCEPT ![r] = IF @ > 0 THEN @ - 1 ELSE @]

Release(t) ==
  LET r == lease[t] IN
  /\ ReturnLease(t)
  /\ IF inflight'[r] > 0 \/ r \notin draining
     THEN UNCHANGED <<current, th>>
     ELSE /\ current' = DropCurrent(r)
          /\ Goto(t, [Call("enqueue", "release", NoAgent) EXCEPT !.held = r])
  /\ UNCHANGED <<nrun, agentOf, ridOf, finishing, queued, status, flight,
                 draining, queue, shuttingDown,
                 outsideVars, ghostVars>>

AbandonedAlwaysCancelled(r) == "cancelled"
AbandonedStatus(r) == IF status[r] = "" THEN "cancelled" ELSE status[r]

\* ReleaseAbandoned: the last lease of the run was cancelled by its client.
ReleaseAbandoned(t) ==
  LET r == lease[t] IN
  /\ ReturnLease(t)
  /\ IF inflight'[r] > 0
     THEN UNCHANGED <<status, current, draining, gone, th>>
     ELSE /\ status' = [status EXCEPT ![r] = AbandonedStatus(r)]
          /\ current' = DropCurrent(r)
          /\ IF \E a \in Agents : current[a] = r
             THEN AppendDraining(r)
             ELSE UNCHANGED <<draining, gone>>
          /\ Goto(t, [Call("enqueue", "release", NoAgent) EXCEPT !.held = r])
  /\ UNCHANGED <<nrun, agentOf, ridOf, finishing, queued, flight, queue,
                 shuttingDown, outsideVars, reported, crashes>>

\* MarkFailed: the chat on the leased run died on a terminal upstream error.
MarkFailed(t) ==
  /\ At(t, "idle") /\ lease[t] # NoRun
  /\ status' = [status EXCEPT ![lease[t]] = "failed"]
  /\ UNCHANGED <<nrun, agentOf, ridOf, inflight, finishing, queued, current,
                 flight, draining, queue, shuttingDown, th,
                 lease, outsideVars, ghostVars>>

\* Invalidate, called by a request whose chat upstream refused for its run:
\* whatever run is current for the agent is dropped, record included.
Invalidate(t) ==
  LET a == agentOf[lease[t]] IN
  /\ At(t, "idle") /\ lease[t] # NoRun
  /\ current' = [current EXCEPT ![a] = NoRun]
  /\ gone' = gone \cup ({current[a]} \ {NoRun})
  /\ store' = [store EXCEPT ![a] = NoRun]
  /\ UNCHANGED <<nrun, agentOf, ridOf, inflight, finishing, queued, status,
                 flight, draining, queue, shuttingDown, th,
                 lease, aged, reported, crashes>>

---------------------------------------------------------------------------
(* The deferred FINISH: enqueueFinish, the bounded queue, finishIfReadyCtx. *)

EnqueueFinish(t) ==
  LET r == th[t].held IN
  /\ At(t, "enqueue")
  /\ queued' = queued \cup {r}
  /\ Goto(t, IF r \in queued THEN Done(th[t]) ELSE [th[t] EXCEPT !.pc = "push"])
  /\ UNCHANGED <<nrun, agentOf, ridOf, inflight, finishing, status, current,
                 flight, draining, queue, shuttingDown,
                 lease, outsideVars, ghostVars>>

\* enqueue: start the worker on first use, then send on the channel or, when
\* it is full, run the job inline.
Enqueue(t) ==
  LET s == IF Len(queue) < QueueSize THEN Done(th[t])
           ELSE [th[t] EXCEPT !.pc = "claim"] IN
  /\ At(t, "push")
  /\ queue' = IF Len(queue) < QueueSize THEN Append(queue, th[t].held) ELSE queue
  /\ th' = [th EXCEPT ![t] = s,
                      ![Worker] = IF @.pc = "off" THEN Done(@) ELSE @]
  /\ UNCHANGED <<nrun, agentOf, ridOf, inflight, finishing, queued, status,
                 current, flight, draining, shuttingDown,
                 lease, outsideVars, ghostVars>>

\* The worker receives a job.
FinishLoopTake ==
  /\ At(Worker, "loop") /\ queue # <<>>
  /\ queue' = Tail(queue)
  /\ Goto(Worker, [th[Worker] EXCEPT !.pc = "claim", !.held = Head(queue)])
  /\ UNCHANGED <<nrun, agentOf, ridOf, inflight, finishing, queued, status,
                 current, flight, draining, shuttingDown,
                 lease, outsideVars, ghostVars>>

\* The worker sees finishStop closed and exits: on an empty queue, or with
\* jobs left when the shutdown deadline has passed.
FinishLoopExit ==
  /\ At(Worker, "loop") /\ shuttingDown
  /\ Goto(Worker, Call("exited", "worker", NoAgent))
  /\ UNCHANGED <<nrun, managerVars, lease, outsideVars, ghostVars>>

\* The runs finishIfReadyCtx leaves alone: leased, being finished, or current.
FinishBusyIgnoringLeases(r) == r \in finishing \/ current[agentOf[r]] = r
FinishBusyIgnoringFlag(r) == inflight[r] > 0 \/ current[agentOf[r]] = r
FinishBusy(r) ==
  inflight[r] > 0 \/ r \in finishing \/ current[agentOf[r]] = r

FinishClaimKeepsMarker(t) ==
  LET r == th[t].held
      busy == FinishBusy(r) IN
  /\ At(t, "claim")
  /\ finishing' = IF busy THEN finishing ELSE finishing \cup {r}
  /\ Goto(t, IF busy THEN Done(th[t]) ELSE [th[t] EXCEPT !.pc = "send"])
  /\ UNCHANGED <<nrun, agentOf, ridOf, inflight, queued, status, current,
                 flight, draining, queue, shuttingDown, lease,
                 outsideVars, ghostVars>>

\* finishIfReadyCtx, first section: claim the run unless it is busy.
FinishClaim(t) ==
  LET r == th[t].held
      busy == FinishBusy(r) IN
  /\ At(t, "claim")
  /\ queued' = queued \ {r}
  /\ finishing' = IF busy THEN finishing ELSE finishing \cup {r}
  /\ Goto(t, IF busy THEN Done(th[t]) ELSE [th[t] EXCEPT !.pc = IF HasStore THEN "unpersist" ELSE "send"])
  /\ UNCHANGED <<nrun, agentOf, ridOf, inflight, status, current, flight,
                 draining, queue, shuttingDown, lease,
                 outsideVars, ghostVars>>

\* removeRun at FINISH dispatch: the record of the run's AGENT is dropped.
RemoveRun(t) ==
  /\ At(t, "unpersist")
  /\ store' = [store EXCEPT ![agentOf[th[t].held]] = NoRun]
  /\ Goto(t, [th[t] EXCEPT !.pc = "send"])
  /\ UNCHANGED <<nrun, managerVars, lease, aged, ghostVars>>

\* client.FinishRun: acknowledged, or failed (refused, or the answer lost).
SendFinish(t) ==
  LET r == th[t].held IN
  /\ At(t, "send")
  /\ \/ /\ reported' = [reported EXCEPT ![r] = Payload(r)]
        /\ Goto(t, [th[t] EXCEPT !.pc = "sentOK"])
     \/ /\ UNCHANGED reported
        /\ Goto(t, [th[t] EXCEPT !.pc = "sentErr"])
  /\ UNCHANGED <<nrun, managerVars, lease, outsideVars, gone, crashes>>

\* finishIfReadyCtx, last section after an acknowledged FINISH; in Shutdown
\* with a store, removeRun instead.
FinishOK(t) ==
  LET r == th[t].held IN
  /\ At(t, "sentOK")
  /\ IF th[t].op = "shutdown"
     THEN /\ store' = [store EXCEPT ![agentOf[r]] = NoRun]
          /\ UNCHANGED draining
     ELSE /\ draining' = draining \ {r}
          /\ UNCHANGED store
  /\ Goto(t, Done(th[t]))
  /\ UNCHANGED <<nrun, agentOf, ridOf, inflight, finishing, queued, status,
                 current, flight, queue, shuttingDown, lease,
                 aged, ghostVars>>

FinishErrForgets(t) ==
  /\ At(t, "sentErr")
  /\ finishing' = finishing \ {th[t].held}
  /\ Goto(t, Done(th[t]))
  /\ UNCHANGED <<nrun, agentOf, ridOf, inflight, queued, status, current,
                 flight, draining, queue, shuttingDown, lease, outsideVars,
                 ghostVars>>

\* finishIfReadyCtx after a failed FINISH: list the run for a retry.  A
\* failure inside Shutdown is only logged.
FinishErr(t) ==
  LET r == th[t].held IN
  /\ At(t, "sentErr")
  /\ IF th[t].op = "shutdown"
     THEN UNCHANGED <<finishing, draining, gone>>
     ELSE /\ finishing' = finishing \ {r}
          /\ AppendDraining(r)
  /\ Goto(t, Done(th[t]))
  /\ UNCHANGED <<nrun, agentOf, ridOf, inflight, queued, status, current,
                 flight, queue, shuttingDown, lease, outsideVars,
                 reported, crashes>>

---------------------------------------------------------------------------
(* Background passes: Maintain, FinishAllRuns, Shutdown.                   *)

\* The section of Maintain: prune, then rotate the aged agents and re-enqueue
\* the FINISH of every draining run.
Maintain(t) ==
  /\ At(t, "idle") /\ "maintain" \in Passes
  /\ \E old \in SUBSET draining :
       /\ draining' = draining \ old
       /\ gone' = gone \cup old
       /\ Goto(t, [Call("next", "maintain", NoAgent) EXCEPT !.jobs = draining \ old,
            !.rot = {a \in Agents : /\ current[a] # NoRun
                                    /\ ridOf[current[a]] \in aged}])
  /\ UNCHANGED <<nrun, agentOf, ridOf, inflight, finishing, queued, status,
                 current, flight, queue, shuttingDown, lease,
                 outsideVars, reported, crashes>>

\* The section of FinishAllRuns: idle runs leave the manager to be finished
\* by the caller, leased ones stay and are marked draining.  The map's
\* iteration order decides which of them fit under the cap.
FinishAllRuns(t) ==
  LET active == {current[a] : a \in Agents} \ {NoRun}
      idle(S) == {r \in S : inflight[r] = 0}
      kept == draining \ idle(draining)
      mark == (active \ idle(active)) \ kept IN
  /\ At(t, "idle") /\ "finishall" \in Passes
  /\ current' = [a \in Agents |-> IF current[a] \in idle(active) THEN NoRun
                                  ELSE current[a]]
  /\ \E old \in SUBSET kept, S \in SUBSET mark :
       LET left == (kept \ old) \cup S IN
       /\ Cardinality(left) <= DrainCap
       /\ S = mark \/ Cardinality(left) = DrainCap
       /\ draining' = left
       /\ gone' = gone \cup ((kept \cup mark) \ left)
  /\ Goto(t, [Call("next", "finishall", NoAgent) EXCEPT !.jobs = idle(active) \cup idle(draining)])
  /\ UNCHANGED <<nrun, agentOf, ridOf, inflight, finishing, queued, status,
                 flight, queue, shuttingDown, lease, outsideVars,
                 reported, crashes>>

\* The loops of Maintain, FinishAllRuns and Shutdown over agents and runs.
LoopNext(t) ==
  LET s == th[t] IN
  /\ At(t, "next")
  /\ \/ \E a \in s.rot :
          Goto(t, [s EXCEPT !.pc = "rotate", !.agent = a, !.rot = @ \ {a}])
     \/ /\ s.rot = {}
        /\ \E r \in s.jobs :
             Goto(t, [s EXCEPT !.pc = CASE s.op = "maintain" -> "enqueue"
                                        [] s.op = "finishall" -> "claim"
                                        [] OTHER -> "send",
                               !.held = r, !.jobs = @ \ {r}])
     \/ /\ s.rot = {} /\ s.jobs = {}
        /\ Goto(t, IdleThread)
  /\ UNCHANGED <<nrun, managerVars, lease, outsideVars, ghostVars>>

\* Shutdown refuses further STARTs, stops the worker and waits for it.
Shutdown(t) ==
  /\ At(t, "idle") /\ "shutdown" \in Passes /\ ~shuttingDown
  /\ shuttingDown' = TRUE
  /\ th' = [th EXCEPT ![t] = Call("sdwait", "shutdown", NoAgent),
                      ![Worker] = IF @.pc = "off" THEN Done(@) ELSE @]
  /\ UNCHANGED <<nrun, agentOf, ridOf, inflight, finishing, queued, status,
                 current, flight, draining, queue, lease,
                 outsideVars, ghostVars>>

\* The worker exited, or the deadline passed: claim what is left.  With a
\* store the active runs are kept for the next process, without one they are
\* finished too.
ShutdownClaim(t) ==
  LET active == {current[a] : a \in Agents} \ {NoRun}
      left == (IF HasStore THEN draining ELSE active \cup draining) \ finishing IN
  /\ At(t, "sdwait")
  /\ finishing' = finishing \cup left
  /\ IF HasStore
     THEN /\ UNCHANGED <<current, draining>>
          /\ Goto(t, [th[t] EXCEPT !.pc = "sdsave", !.jobs = left, !.saves = active])
     ELSE /\ current' = [a \in Agents |-> NoRun]
          /\ draining' = {}
          /\ Goto(t, [th[t] EXCEPT !.pc = "next", !.jobs = left])
  /\ UNCHANGED <<nrun, agentOf, ridOf, inflight, queued, status, flight,
                 queue, shuttingDown, lease, outsideVars, ghostVars>>

\* The active runs of the snapshot are saved again, one by one.
ShutdownSave(t) ==
  /\ At(t, "sdsave")
  /\ \/ \E r \in th[t].saves :
          /\ store' = [store EXCEPT ![agentOf[r]] = ridOf[r]]
          /\ Goto(t, [th[t] EXCEPT !.saves = @ \ {r}])
     \/ /\ th[t].saves = {}
        /\ UNCHANGED store
        /\ Goto(t, [th[t] EXCEPT !.pc = "next"])
  /\ UNCHANGED <<nrun, managerVars, lease, aged, ghostVars>>

---------------------------------------------------------------------------
(* The environment: time, cooldowns, crashes.                              *)

\* A run that is current or on record reaches the rotation interval.
RunAges ==
  /\ \E r \in {ridOf[current[a]] : a \in {b \in Agents : current[b] # NoRun}}
              \cup {store[a] : a \in {b \in Agents : store[b] # NoRun}} :
       /\ r \notin aged
       /\ aged' = aged \cup {r}
  /\ UNCHANGED <<nrun, managerVars, th, lease, store, ghostVars>>

FreshManager ==
  /\ inflight' = [r \in Runs |-> 0]
  /\ finishing' = {} /\ queued' = {} /\ draining' = {}
  /\ status' = [r \in Runs |-> ""]
  /\ current' = [a \in Agents |-> NoRun]
  /\ flight' = {}
  /\ queue' = <<>>
  /\ shuttingDown' = FALSE
  /\ th' = [t \in Threads |-> IF t = Worker THEN OffWorker ELSE IdleThread]
  /\ lease' = [t \in Clients |-> NoRun]

\* The process ends, in the middle of anything, and the next one starts: only
\* the store and the upstream service remember.
Crash ==
  /\ crashes < MaxCrashes
  /\ crashes' = crashes + 1
  /\ FreshManager
  /\ gone' = 1..nrun
  /\ UNCHANGED <<nrun, agentOf, ridOf, outsideVars, reported>>

---------------------------------------------------------------------------
Init ==
  /\ nrun = 0
  /\ agentOf = [r \in Runs |-> NoAgent]
  /\ ridOf = [r \in Runs |-> r]
  /\ inflight = [r \in Runs |-> 0]
  /\ finishing = {} /\ queued = {} /\ draining = {}
  /\ status = [r \in Runs |-> ""]
  /\ current = [a \in Agents |-> NoRun]
  /\ flight = {}
  /\ queue = <<>>
  /\ shuttingDown = FALSE
  /\ th = [t \in Threads |-> IF t = Worker THEN OffWorker ELSE IdleThread]
  /\ lease = [t \in Clients |-> NoRun]
  /\ store = [a \in Agents |-> NoRun]
  /\ aged = {}
  /\ reported = [r \in Runs |-> ""]
  /\ gone = {} /\ crashes = 0

Request(t) ==
  \/ \E a \in Agents : CallAcquire(t, a)
  \/ AcquireCheck(t) \/ LeaseRun(t)
  \/ Release(t) \/ ReleaseAbandoned(t) \/ MarkFailed(t) \/ Invalidate(t)

Rotation(t) ==
  \/ RotateCheck(t) \/ LoadRun(t) \/ DropStaleRecord(t) \/ ResumeRun(t)
  \/ StartRunOK(t) \/ StartRunFailed(t) \/ FinishInline(t) \/ PersistRun(t)

Finish(t) ==
  \/ FinishClaim(t) \/ RemoveRun(t) \/ SendFinish(t)
  \/ FinishOK(t) \/ FinishErr(t)

Background(t) ==
  \/ \E a \in Agents : CallPrecreate(t, a)
  \/ Maintain(t) \/ FinishAllRuns(t) \/ LoopNext(t)
  \/ Shutdown(t) \/ ShutdownClaim(t) \/ ShutdownSave(t)

Next ==
  \/ \E t \in Clients : Request(t)
  \/ \E t \in Keepers : Background(t)
  \/ \E t \in Procs : \/ CtxDone(t) \/ Rotation(t)
                      \/ EnqueueFinish(t) \/ Enqueue(t)
  \/ \E t \in Threads : Finish(t)
  \/ FinishLoopTake \/ FinishLoopExit
  \/ RunAges \/ Crash

Spec == Init /\ [][Next]_vars

\* What a goroutine does by itself once it is inside a call: upstream calls and
\* waits have deadlines, so it never stops in the middle.
Proceeds(t) ==
  \/ t \in Clients /\ (AcquireCheck(t) \/ LeaseRun(t))
  \/ t \in Procs /\ (\/ Rotation(t) \/ EnqueueFinish(t) \/ Enqueue(t)
                     \/ LoopNext(t) \/ ShutdownClaim(t) \/ ShutdownSave(t))
  \/ t = Worker /\ FinishLoopTake
  \/ Finish(t)

\* An upstream that is asked to FINISH a run again and again acknowledges it in
\* the end; the pool's ticker keeps calling Maintain, under a deadline.
Acknowledges(t) == SendFinish(t) /\ th'[t].pc = "sentOK"

FairSpec == Spec /\ \A t \in Threads : WF_vars(Proceeds(t))

LiveSpec ==
  /\ FairSpec
  /\ \A t \in Threads : SF_vars(Acknowledges(t))
  /\ \A t \in Keepers : SF_vars(Maintain(t)) /\ SF_vars(CtxDone(t))

---------------------------------------------------------------------------
(* Properties.                                                             *)

Created == 1..nrun

\* The runs whose FINISH upstream has acknowledged.
Acked == {r \in Runs : reported[r] # ""}

\* The control state s of a goroutine when n Runs exist: a goroutine that works
\* on a Run, on a fresh Run or for an agent has one.
ThreadOK(n, s) ==
  /\ s \in ThreadState
  /\ s.held \in (1..n) \cup {NoRun}
  /\ s.fresh \in (1..n) \cup {NoRun}
  /\ s.jobs \subseteq 1..n /\ s.saves \subseteq 1..n
  /\ s.pc \in {"enqueue", "push", "claim", "unpersist", "send", "sentOK",
               "sentErr"} => s.held # NoRun
  /\ s.pc \in {"resume", "discard", "persist"} => s.fresh # NoRun
  /\ s.pc \in {"acquire", "rotate", "wait", "load", "stale", "resume", "start",
               "discard", "persist", "lease"} => s.agent # NoAgent
  /\ s.op = "acquire" => s.agent # NoAgent

RunsOK ==
  /\ nrun \in 0..MaxRuns
  /\ agentOf \in [Runs -> Agents \cup {NoAgent}]
  /\ \A r \in Created : agentOf[r] \in Agents
  /\ ridOf \in [Runs -> Runs]
  /\ \A r \in Created : ridOf[r] \in Created
  /\ inflight \in [Runs -> Nat]
  /\ status \in [Runs -> {"", "cancelled", "failed"}]
  /\ reported \in [Runs -> {"", "completed", "cancelled", "failed"}]

ManagerOK ==
  /\ finishing \subseteq Created /\ queued \subseteq Created
  /\ draining \subseteq Created /\ aged \subseteq Created
  /\ gone \subseteq Created /\ flight \subseteq Agents
  /\ current \in [Agents -> Created \cup {NoRun}]
  /\ store \in [Agents -> Created \cup {NoRun}]
  /\ lease \in [Clients -> Created \cup {NoRun}]
  /\ queue \in Seq(Created)
  /\ shuttingDown \in BOOLEAN /\ crashes \in 0..MaxCrashes

ThreadsOK ==
  /\ th \in [Threads -> ThreadState]
  /\ \A t \in Threads : ThreadOK(nrun, th[t])

\* Every Run the manager, the store or a goroutine refers to has been created,
\* a goroutine that works on a Run has one, and the flags, queues and counters
\* are of their types.
TypeOK == RunsOK /\ ManagerOK /\ ThreadsOK

Holders(r) == {t \in Clients : lease[t] = r}

\* Inflight accounting is exact: a run's counter is the number of requests
\* that hold a lease on it, whatever rotations, drains and shutdowns happen
\* between the Acquire and the release (runs.go Acquire, Release and steps.go
\* ReleaseAbandoned; a leaked counter would keep the run draining for ever).
InflightExact == \A r \in Created : inflight[r] = Cardinality(Holders(r))

InFinish(t) == th[t].pc \in {"unpersist", "send", "sentOK", "sentErr"}

\* No FINISH goes out under a live lease: a run that finishIfReadyCtx has
\* claimed is held by no request, unless Shutdown force-finishes everything.
NoFinishUnderLease ==
  \A r \in Created : r \in finishing /\ ~shuttingDown => inflight[r] = 0

\* At most one goroutine is finishing a run (worker, inline fallback,
\* FinishAllRuns and Shutdown compete for it), and none after upstream
\* acknowledged its FINISH: the finishing flag is never reset by success.
FinishedOnce ==
  /\ \A t, u \in Threads :
       InFinish(t) /\ InFinish(u) /\ th[t].held = th[u].held => t = u
  /\ \A t \in Threads : th[t].pc \in {"unpersist", "send"} => th[t].held \notin Acked

Leading(t) ==
  th[t].pc \in {"load", "stale", "resume", "start"}

\* rotate is single-flight: two goroutines never START (or resume) a run for
\* the same agent at the same time, and a registered flight has a leader, so
\* its waiters will be woken.
SingleFlight ==
  /\ \A t, u \in Threads :
       Leading(t) /\ Leading(u) /\ th[t].agent = th[u].agent => t = u
  /\ \A t \in Threads : At(t, "wait") => th[t].agent \in flight
  /\ \A a \in flight : \E t \in Threads : Leading(t) /\ th[t].agent = a

\* A run in somebody's hands: it will be offered to finishIfReadyCtx again.
InHand(r) ==
  \E t \in Threads : th[t].held = r \/ th[t].fresh = r \/ r \in th[t].jobs

\* No run is lost: one that has left the active set without its FINISH having
\* been acknowledged is draining, queued or in the hands of a goroutine, unless
\* it was let go on purpose (Invalidate, TTL or cap eviction, a crash) or the
\* manager is shutting down.
NoLostRun ==
  \A r \in Created \ (Acked \cup gone) :
    \/ r \in draining \/ (\E a \in Agents : current[a] = r)
    \/ (\E i \in 1..Len(queue) : queue[i] = r) \/ InHand(r)
    \/ shuttingDown

\* The draining list stays within RUNS_DRAIN_QUEUE_CAP.
DrainBounded == Cardinality(draining) <= DrainCap

\* Once Shutdown has begun no run becomes current: one whose START was already
\* under way is discarded, since nobody would FINISH it (runs.go, rotate).
NoRunAfterShutdown ==
  [][shuttingDown /\ shuttingDown' =>
       \A a \in Agents : current'[a] \in {current[a], NoRun}]_vars

\* An honest FINISH: upstream never hears completed or cancelled for a run one
\* of whose chats died on a terminal upstream error (MarkFailed comes before
\* the release, and no FINISH is sent under a lease; Shutdown alone finishes
\* runs that are still leased).
HonestFinish ==
  \A r \in Created :
    status[r] = "failed" /\ ~shuttingDown => reported[r] \in {"", "failed"}

\* What upstream has heard of a run: FINISH once, and never "completed" for a
\* chat that failed.
FinishExact == FinishedOnce /\ HonestFinish

\* A run that failed is never relabelled: a later abandoned release keeps
\* failed (steps.go ReleaseAbandoned sets cancelled only on a run without a
\* status); only a new process forgets.
FailedStaysFailed ==
  [][\A r \in Runs : status[r] = "failed" /\ crashes' = crashes
                       => status'[r] = "failed"]_vars

\* Nobody waits for ever on another goroutine's START: rotate closes the flight
\* on every path (success, error, cancellation of the leader, shutdown).
WaiterWakes == \A t \in Procs : At(t, "wait") ~> ~At(t, "wait")

\* A draining run nobody leases leaves the list: each failed FINISH is retried
\* by a Maintain pass (drain.go finishIfReadyCtx, runs.go Maintain).
DrainEmpties ==
  \A r \in Runs : (r \in draining /\ inflight[r] = 0)
                     ~> (r \notin draining \/ inflight[r] > 0)

\* README.md on RUNS_DRAIN_QUEUE_CAP: "older entries are force-dropped".  A
\* run that starts to drain is on the list after the step.
NewestKept ==
  [][\A a \in Agents :
       current[a] # NoRun /\ current'[a] # NoRun /\ current'[a] # current[a]
         => current[a] \in draining']_vars

Quiet == /\ \A t \in Procs : At(t, "idle")
         /\ th[Worker].pc \in {"off", "loop"} /\ queue = <<>>

\* persistRun writes an active run into the store "so a restart can resume it
\* without re-START" (steps.go): between calls, with nothing queued, every
\* active run young enough to be resumed has its record.
ActiveRunOnRecord ==
  HasStore /\ Quiet =>
    \A a \in Agents : current[a] # NoRun /\ ridOf[current[a]] \notin aged
                         => store[a] = ridOf[current[a]]

\* "A draining run must NEVER be resumable" (drain.go, finishIfReadyCtx): no
\* current run stands for the run id of another one that is draining or whose
\* FINISH has gone out.
NeverResumesDraining ==
  \A a \in Agents, r \in draining \cup finishing :
    current[a] # NoRun /\ current[a] # r => ridOf[current[a]] # ridOf[r]
\* InflightCount() = 0: no run on the active map or the draining list is leased.
InflightCountZero ==
  \A r \in Created :
    r \in draining \/ (\E a \in Agents : current[a] = r) => inflight[r] = 0

\* InflightCount "returns the total in-flight request count across all runs",
\* and the pool polls the session only when it is zero, so that a poll "cannot
\* kick the active session" of a chat: when it is zero no request is chatting.
\* (The request that called Invalidate is over; any other lease is a chat.)
CountSeesEveryLease ==
  InflightCountZero =>
    \A t, u \in Clients : t # u => lease[t] = NoRun \/ lease[u] = NoRun
===========================================================================
