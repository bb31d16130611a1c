----------------------------- MODULE SlotQueue -----------------------------
(***************************************************************************)
(* The pool's slot ledger (slot_ledger.go), the per-model waiting queue    *)
(* (model_queue.go) and the walk of one Acquire over the accounts          *)
(* (acquire_route.go), with the bridge's own lanes (bridge.go).            *)
(*                                                                         *)
(* A lane is one account for one model: lanes of different models share    *)
(* nothing, so the module models one model.  A lane has a counter of live  *)
(* turns, bounded by SLOTS_PER_ACCOUNT.  A pooled request tries the lanes  *)
(* in index order; at the first full one it parks on the model's queue,    *)
(* and a slot that is released goes to the head of that queue.  A bridge   *)
(* request has one lane, and parks on that lane's own queue.               *)
(*                                                                         *)
(* routeMu guards the ledger and the queues: what the code does in one     *)
(* critical section is one action here.  A request's steps between two     *)
(* sections interleave with everything else.  The calls to the session and *)
(* run managers are external: an admission succeeds, is jailed by a short  *)
(* quota window, is refused, or fails for good.                            *)
(***************************************************************************)
EXTENDS Integers, Sequences, FiniteSets

CONSTANTS
  Requests,    \* goroutines that call Acquire or AcquireBridge
  Lanes,       \* pooled token entries
  Bridges,     \* bridge entries
  None,        \* no lane
  FirstRoster, \* the roster the pool starts with
  Cap,         \* SLOTS_PER_ACCOUNT, positive (0 skips all of this)
  Depth,       \* QUEUE_DEPTH
  MaxSpill,    \* MAX_SPILL_ACCOUNTS, 0 for no bound
  RandomStart, \* TOKEN_ROTATION = random
  Fickle,      \* lanes that cool down, get locked or banned, and recover
  MaxJails,    \* bound: short quota answers in one behaviour
  MaxEdits     \* bound: roster changes in one behaviour

AllLanes == Lanes \cup Bridges

ASSUME ConstantsAssumption ==
  /\ IsFiniteSet(Requests)
  /\ Lanes \cap Bridges = {} /\ None \notin AllLanes
  /\ FirstRoster \in Seq(Lanes)
  /\ \A i, j \in DOMAIN FirstRoster : FirstRoster[i] = FirstRoster[j] => i = j
  /\ Cap \in Nat \ {0} /\ Depth \in Nat /\ MaxSpill \in Nat
  /\ RandomStart \in BOOLEAN /\ Fickle \subseteq Lanes
  /\ MaxJails \in Nat /\ MaxEdits \in Nat

VARIABLES
  live,    \* slotState.live of every lane (0 when routeSlots has no entry)
  laneq,   \* slotState.waiters of every bridge lane
  queue,   \* modelQueue.waiters
  seat,    \* seatCounter of every lane
  open,    \* lanes that pass laneAdmissible and walkGates
  warm,    \* lanes with a usable session for the model
  roster,  \* the pool's current token entries
  spare,   \* lanes that AddToken may still bring
  edit,    \* a removal between its in-flight check and its swap
  edits,   \* roster changes so far
  jails,   \* short quota answers so far
  th       \* the requests

ledger == <<live, laneq, queue>>
pool   == <<open, warm, roster, spare, edit, edits>>
vars   == <<ledger, seat, pool, jails, th>>

PCs == {"idle", "scan", "walk", "join", "parked", "admit", "ensure", "start",
        "jail", "rescan", "rejoin", "reparked", "retry", "turn", "ending",
        "bparked", "badmit"}

\* toks, order: the request's roster snapshot and its order of indexes
\* at: position of a scan     pos, park: where and how the walk resumes
\* hops: spillChain.hops      lane, idx: the permit it holds (or was handed)
\* tok: the entry whose seat it counts for       dead: its context is done
Idle == [pc |-> "idle", toks |-> <<>>, order |-> <<>>, at |-> 0, pos |-> 0,
         park |-> FALSE, hops |-> 0, lane |-> None, idx |-> 0, tok |-> None,
         dead |-> FALSE]

NoEdit == [op |-> "none", at |-> 0]

Init ==
  /\ live = [l \in AllLanes |-> 0]
  /\ laneq = [b \in Bridges |-> <<>>]
  /\ queue = <<>>
  /\ seat = [l \in AllLanes |-> 0]
  /\ open = Lanes
  /\ warm = {}
  /\ roster = FirstRoster
  /\ spare = Lanes \ {FirstRoster[i] : i \in DOMAIN FirstRoster}
  /\ edit = NoEdit /\ edits = 0
  /\ jails = 0
  /\ th = [r \in Requests |-> Idle]

---------------------------------------------------------------------------
(* Helpers.                                                                *)

At(r, pc) == th[r].pc = pc

Goto(r, rec) == th' = [th EXCEPT ![r] = rec]

\* The current roster still has the request's entry at the request's index.
Placed(r) == th[r].idx \in DOMAIN roster /\ roster[th[r].idx] = th[r].lane

\* A bug: the not-found result of the code is taken for an index.
IndexOfNotFound(l) ==
  IF \E i \in DOMAIN roster : roster[i] = l
  THEN CHOOSE i \in DOMAIN roster : roster[i] = l
  ELSE -1

\* indexOfEntry: 0 for an entry that has left the roster.
IndexOf(l) ==
  IF \E i \in DOMAIN roster : roster[i] = l
  THEN CHOOSE i \in DOMAIN roster : roster[i] = l
  ELSE 0

\* posInOrder, plus one: where a walk resumes that fails over past idx.
After(rec, idx) ==
  IF \E k \in DOMAIN rec.order : rec.order[k] = idx
  THEN 1 + CHOOSE k \in DOMAIN rec.order : rec.order[k] = idx
  ELSE 1

Without(q, r) ==
  IF \E i \in DOMAIN q : q[i] = r
  THEN LET i == CHOOSE i \in DOMAIN q : q[i] = r IN
       [j \in 1..(Len(q) - 1) |-> IF j < i THEN q[j] ELSE q[j + 1]]
  ELSE q

\* The queue from its first waiter whose context is not done.
FromLive(q) ==
  IF \E i \in DOMAIN q : ~th[q[i]].dead
  THEN LET i == CHOOSE i \in DOMAIN q : /\ ~th[q[i]].dead
                                        /\ \A j \in 1..(i - 1) : th[q[j]].dead
       IN SubSeq(q, i, Len(q))
  ELSE <<>>

\* laneAdmissible for a lane that is still in the roster.
HandsOff(l) == IndexOf(l) # 0 /\ l \in open

\* A waiter that was granted the lane: the permit is its own from here on.
Granted(rec, l) == [rec EXCEPT !.lane = l, !.idx = IF l \in Lanes THEN IndexOf(l) ELSE 0]

(* slotPermit.Release by r, which goes on as rec: the slot passes to the   *)
(* first waiter of a bridge lane, to the first live waiter of the model's  *)
(* queue while the lane passes its gates, or back to the ledger.           *)
ReleaseToBridge(r, rec) ==
  LET b == th[r].lane IN
  /\ b \in Bridges /\ laneq[b] # <<>>
  /\ laneq' = [laneq EXCEPT ![b] = Tail(@)]
  /\ th' = [th EXCEPT ![r] = rec,
                      ![Head(laneq[b])] = Granted(th[Head(laneq[b])], b)]
  /\ UNCHANGED <<live, queue>>

ReleaseToQueue(r, rec) ==
  LET l == th[r].lane
      q == FromLive(queue) IN
  /\ l \in Lanes /\ q # <<>> /\ HandsOff(l)
  /\ queue' = Tail(q)
  /\ th' = [th EXCEPT ![r] = rec, ![Head(q)] = Granted(th[Head(q)], l)]
  /\ UNCHANGED <<live, laneq>>

\* A bug: a slot goes back to the ledger past the waiters of its lane.
ReleaseToLedgerAlways(r, rec) ==
  LET l == th[r].lane IN
  /\ l \in AllLanes
  /\ live' = [live EXCEPT ![l] = IF @ > 0 THEN @ - 1 ELSE 0]
  /\ Goto(r, rec)
  /\ UNCHANGED <<laneq, queue>>

ReleaseToLedger(r, rec) ==
  LET l == th[r].lane
      q == FromLive(queue) IN
  /\ \/ l \in Bridges /\ laneq[l] = <<>> /\ UNCHANGED queue
     \/ l \in Lanes /\ (q = <<>> \/ ~HandsOff(l)) /\ queue' = q
  /\ live' = [live EXCEPT ![l] = IF @ > 0 THEN @ - 1 ELSE 0]
  /\ Goto(r, rec)
  /\ UNCHANGED laneq

Release(r, rec) ==
  \/ ReleaseToBridge(r, rec)
  \/ ReleaseToQueue(r, rec)
  \/ ReleaseToLedger(r, rec)

\* slotTry, and the fast path of slotAcquire.
Take(l) == /\ live[l] < Cap
           /\ live' = [live EXCEPT ![l] = @ + 1]
           /\ UNCHANGED <<laneq, queue>>

\* seatCounter.acquire, seatCounter.release
SeatTake(l) == seat' = [seat EXCEPT ![l] = @ + 1]
SeatDrop(l) == seat' = [seat EXCEPT ![l] = IF @ > 0 THEN @ - 1 ELSE 0]

---------------------------------------------------------------------------
(* The walk of a pooled Acquire.                                           *)

(* spillOrder: ascending indexes; every lane that passes the gates is in,  *)
(* a lane that does not may be (a cooling one) or not (a locked one).      *)
SpillOrders ==
  {o \in UNION {[1..n -> DOMAIN roster] : n \in DOMAIN roster} :
     /\ \A i, j \in DOMAIN o : i < j => o[i] < o[j]
     /\ \A i \in DOMAIN roster :
          roster[i] \in open => \E k \in DOMAIN o : o[k] = i}

Rotated(o, k) == [i \in DOMAIN o |-> o[((i + k - 1) % Len(o)) + 1]]

Acquire(r) ==
  /\ At(r, "idle") /\ roster # <<>>
  /\ \E o \in SpillOrders :
       \E k \in IF RandomStart THEN DOMAIN o ELSE {0} :
         Goto(r, [Idle EXCEPT !.pc = "scan", !.toks = roster,
                              !.order = Rotated(o, k), !.at = 1, !.pos = 1,
                              !.park = TRUE])
  /\ UNCHANGED <<ledger, seat, pool, jails>>

\* A bug: an admission that fails forgets its seat.
LeaveFrameSeated(r) == UNCHANGED seat

\* admitOnLane returns without a lease: its deferred seat release runs.
LeaveFrame(r) == IF th[r].tok = None THEN UNCHANGED seat ELSE SeatDrop(th[r].tok)

\* laneNext: the walk resumes at the position kept for it.
Next1(rec) == [rec EXCEPT !.pc = "walk", !.lane = None, !.idx = 0, !.tok = None]

(* scanWarmFree: on arrival, and once more by modelRequeue when the entry  *)
(* vanished in the jail.  It looks at one lane per step.                   *)
ScanMiss(r) ==
  /\ th[r].pc \in {"scan", "rescan"}
  /\ LET rec == th[r]
         l   == rec.toks[rec.order[rec.at]] IN
     \/ /\ rec.dead \/ rec.at > Len(rec.order)
        /\ Goto(r, [rec EXCEPT !.pc = IF @ = "scan" THEN "walk" ELSE "rejoin",
                               !.at = 0])
     \/ /\ ~rec.dead /\ rec.at <= Len(rec.order)
        /\ l \notin open \/ l \notin warm \/ live[l] >= Cap
        /\ Goto(r, [rec EXCEPT !.at = @ + 1])
  /\ UNCHANGED <<ledger, seat, pool, jails>>

ScanHit(r) ==
  /\ th[r].pc \in {"scan", "rescan"}
  /\ LET rec == th[r]
         l   == rec.toks[rec.order[rec.at]]
         got == [rec EXCEPT !.lane = l, !.idx = rec.order[rec.at], !.at = 0] IN
     /\ ~rec.dead /\ rec.at <= Len(rec.order)
     /\ l \in open /\ l \in warm /\ Take(l)
     /\ \/ /\ rec.pc = "scan"
           /\ Goto(r, [got EXCEPT !.pc = "admit", !.pos = rec.at + 1])
           /\ UNCHANGED seat
        \/ /\ rec.pc = "rescan"
           /\ Goto(r, [got EXCEPT !.pc = "retry", !.tok = None])
           /\ LeaveFrame(r)
  /\ UNCHANGED <<pool, jails>>

\* spillChain.note: the hop is counted, and the walk goes on or is at its end.
MayHop(rec) == MaxSpill = 0 \/ rec.hops + 1 <= MaxSpill
Hop(rec, on) == IF MayHop(rec) THEN [on EXCEPT !.hops = rec.hops + 1] ELSE Idle

(* scaleoutFrom: one lane per step.  The gates, then the slot; at a full   *)
(* lane a fresh walk parks and one that has parked spills on.              *)
WalkOn(r) ==
  /\ At(r, "walk")
  /\ LET rec == th[r]
         l   == rec.toks[rec.order[rec.pos]] IN
     \/ /\ rec.pos > Len(rec.order) \/ rec.dead
        /\ Goto(r, Idle)
     \/ /\ rec.pos <= Len(rec.order) /\ ~rec.dead
        /\ \/ l \notin open /\ Goto(r, [rec EXCEPT !.pos = @ + 1])
           \/ /\ l \in open /\ live[l] >= Cap
              /\ \/ rec.park /\ Goto(r, [rec EXCEPT !.pc = "join"])
                 \/ ~rec.park /\ Goto(r, Hop(rec, [rec EXCEPT !.pos = @ + 1]))
  /\ UNCHANGED <<ledger, seat, pool, jails>>

WalkTake(r) ==
  /\ At(r, "walk")
  /\ LET rec == th[r]
         l   == rec.toks[rec.order[rec.pos]] IN
     /\ rec.pos <= Len(rec.order) /\ ~rec.dead
     /\ l \in open /\ Take(l)
     /\ Goto(r, [rec EXCEPT !.pc = "admit", !.lane = l,
                            !.idx = rec.order[rec.pos], !.pos = @ + 1])
  /\ UNCHANGED <<seat, pool, jails>>

---------------------------------------------------------------------------
(* modelPark.                                                              *)

(* The queue-exhausted signal: parkOnFullLane goes on past the lane        *)
(* without parking again; modelRequeue's caller resumes its walk.          *)
Exhausted(r) ==
  LET rec == th[r] IN
  IF rec.pc \in {"join", "parked"}
  THEN /\ Goto(r, Hop(rec, [Next1(rec) EXCEPT !.pos = rec.pos + 1, !.park = FALSE]))
       /\ UNCHANGED seat
  ELSE /\ Goto(r, Hop(rec, Next1(rec)))
       /\ LeaveFrame(r)

Join(r) ==
  /\ th[r].pc \in {"join", "rejoin"}
  /\ \/ /\ Len(queue) >= Depth
        /\ Exhausted(r) /\ UNCHANGED ledger
     \/ /\ Len(queue) < Depth
        /\ queue' = IF At(r, "join") THEN Append(queue, r) ELSE <<r>> \o queue
        /\ Goto(r, [th[r] EXCEPT !.pc = IF @ = "join" THEN "parked" ELSE "reparked",
                                 !.lane = None, !.idx = 0])
        /\ UNCHANGED <<live, laneq, seat>>
  /\ UNCHANGED <<pool, jails>>

\* The grant is taken, whichever of channel, timer and context woke it.
Wake(r) ==
  /\ th[r].lane # None
  /\ \/ /\ At(r, "parked")
        /\ Goto(r, [th[r] EXCEPT !.pc = "admit", !.park = FALSE,
                                 !.pos = After(th[r], th[r].idx)])
        /\ UNCHANGED seat
     \/ /\ At(r, "reparked")
        /\ Goto(r, [th[r] EXCEPT !.pc = "retry", !.tok = None])
        /\ LeaveFrame(r)
  /\ UNCHANGED <<ledger, pool, jails>>

\* A bug: the timer wins over a grant that came first.
TimeoutDropsGrant(r) ==
  /\ th[r].pc \in {"parked", "reparked"}
  /\ queue' = Without(queue, r)
  /\ Exhausted(r)
  /\ UNCHANGED <<live, laneq, pool, jails>>

\* A bug: the wait after a jail has no timer.
TimeoutFirstWait(r) ==
  /\ At(r, "parked") /\ th[r].lane = None
  /\ queue' = Without(queue, r)
  /\ Exhausted(r)
  /\ UNCHANGED <<live, laneq, pool, jails>>

\* QUEUE_WAIT elapses, and no grant came first.
Timeout(r) ==
  /\ th[r].pc \in {"parked", "reparked"} /\ th[r].lane = None
  /\ queue' = Without(queue, r)
  /\ Exhausted(r)
  /\ UNCHANGED <<live, laneq, pool, jails>>

\* A bug: a cancelled waiter stays in the queue.
ParkAbortedQueued(r) ==
  /\ th[r].pc \in {"parked", "reparked"} /\ th[r].lane = None /\ th[r].dead
  /\ Goto(r, Idle) /\ LeaveFrame(r)
  /\ UNCHANGED <<ledger, pool, jails>>

\* The caller's context is done, and no grant came first.
ParkAborted(r) ==
  /\ th[r].pc \in {"parked", "reparked"} /\ th[r].lane = None /\ th[r].dead
  /\ queue' = Without(queue, r)
  /\ Goto(r, Idle) /\ LeaveFrame(r)
  /\ UNCHANGED <<live, laneq, pool, jails>>

---------------------------------------------------------------------------
(* admitOnLane, with the slot held.                                        *)

AdmitBegin(r) ==
  /\ At(r, "admit")
  /\ \/ /\ Placed(r)
        /\ Goto(r, [th[r] EXCEPT !.pc = "ensure", !.tok = th[r].lane])
        /\ SeatTake(th[r].lane)
        /\ UNCHANGED ledger
     \/ /\ ~Placed(r)
        /\ Release(r, Next1(th[r]))
        /\ UNCHANGED seat
  /\ UNCHANGED <<pool, jails>>

\* EnsureSessionForModel succeeds.  The entry is looked up again after it.
SessionReady(r) ==
  /\ At(r, "ensure")
  /\ warm' = warm \cup {th[r].lane}
  /\ \/ /\ Placed(r)
        /\ Goto(r, [th[r] EXCEPT !.pc = "start"])
        /\ UNCHANGED <<ledger, seat>>
     \/ /\ ~Placed(r)
        /\ Release(r, Next1(th[r])) /\ LeaveFrame(r)
  /\ UNCHANGED <<open, roster, spare, edit, edits, jails>>

\* The run is acquired.  The entry is looked up once more before the lease.
RunReady(r) ==
  /\ At(r, "start")
  /\ \/ /\ Placed(r)
        /\ Goto(r, [Idle EXCEPT !.pc = "turn", !.lane = th[r].lane, !.tok = th[r].tok])
        /\ UNCHANGED <<ledger, seat>>
     \/ /\ ~Placed(r)
        /\ Release(r, Next1(th[r])) /\ LeaveFrame(r)
  /\ UNCHANGED <<pool, jails>>

(* The admission or the START is refused: the walk resumes, or the refusal *)
(* (ip_capped, country, limited_ip) is returned at once.                   *)
Refused(r) ==
  /\ th[r].pc \in {"ensure", "start"}
  /\ \E rec \in {Next1(th[r]), Idle} : Release(r, rec)
  /\ LeaveFrame(r)
  /\ UNCHANGED <<pool, jails>>

\* A quota window no longer than QUEUE_WAIT is slept out with the slot held.
Jailed(r) ==
  /\ th[r].pc \in {"ensure", "start"} /\ jails < MaxJails
  /\ jails' = jails + 1
  /\ Goto(r, [th[r] EXCEPT !.pc = "jail"])
  /\ UNCHANGED <<ledger, seat, pool>>

(* modelRequeue after the sleep: on with the held permit, or, when the     *)
(* entry has left its place, without it to another scan.                   *)
JailEnds(r) ==
  /\ At(r, "jail")
  /\ \/ /\ Placed(r)
        /\ Goto(r, [th[r] EXCEPT !.pc = "retry", !.tok = None])
        /\ LeaveFrame(r) /\ UNCHANGED ledger
     \/ /\ ~Placed(r)
        /\ Release(r, [th[r] EXCEPT !.pc = "rescan", !.at = 1, !.lane = None, !.idx = 0])
        /\ UNCHANGED seat
  /\ UNCHANGED <<pool, jails>>

JailAborted(r) ==
  /\ At(r, "jail") /\ th[r].dead
  /\ Release(r, Idle) /\ LeaveFrame(r)
  /\ UNCHANGED <<pool, jails>>

\* smartRetry: the gates again, and the admission without another take.
Retry(r) ==
  /\ At(r, "retry")
  /\ LET rec == th[r] IN
     \/ rec.dead /\ Release(r, Idle)
     \/ /\ ~rec.dead /\ ~Placed(r)
        /\ Release(r, [Next1(rec) EXCEPT !.pos = 1, !.park = TRUE])
     \/ /\ ~rec.dead /\ Placed(r) /\ rec.lane \notin open
        /\ Release(r, [Next1(rec) EXCEPT !.pos = After(rec, rec.idx), !.park = TRUE])
     \/ /\ ~rec.dead /\ Placed(r) /\ rec.lane \in open
        /\ Goto(r, [rec EXCEPT !.pc = "admit", !.pos = After(rec, rec.idx), !.park = TRUE])
        /\ UNCHANGED ledger
  /\ UNCHANGED <<seat, pool, jails>>

\* LeaseRelease, LeaseAbandon: the seat first, then the slot.
EndTurn(r) ==
  /\ At(r, "turn")
  /\ SeatDrop(th[r].tok)
  /\ Goto(r, [th[r] EXCEPT !.pc = "ending", !.tok = None])
  /\ UNCHANGED <<ledger, pool, jails>>

EndSlot(r) ==
  /\ At(r, "ending")
  /\ Release(r, Idle)
  /\ UNCHANGED <<seat, pool, jails>>

---------------------------------------------------------------------------
(* AcquireBridge: the seat, then slotAcquire on the entry's own lane.      *)

BridgeAcquire(r) ==
  /\ At(r, "idle")
  /\ \E b \in Bridges :
       /\ SeatTake(b)
       /\ \/ /\ laneq[b] = <<>> /\ Take(b)
             /\ Goto(r, [Idle EXCEPT !.pc = "badmit", !.lane = b, !.tok = b])
          \/ /\ live[b] >= Cap \/ laneq[b] # <<>>
             /\ Len(laneq[b]) < Depth
             /\ laneq' = [laneq EXCEPT ![b] = Append(@, r)]
             /\ Goto(r, [Idle EXCEPT !.pc = "bparked", !.tok = b])
             /\ UNCHANGED <<live, queue>>
  /\ UNCHANGED <<pool, jails>>

BridgeWake(r) ==
  /\ At(r, "bparked") /\ th[r].lane # None
  /\ Goto(r, [th[r] EXCEPT !.pc = "badmit"])
  /\ UNCHANGED <<ledger, seat, pool, jails>>

\* The wait elapses or the context is done, and no grant came first.
BridgeGivesUp(r) ==
  /\ At(r, "bparked") /\ th[r].lane = None
  /\ laneq' = [laneq EXCEPT ![th[r].tok] = Without(@, r)]
  /\ SeatDrop(th[r].tok)
  /\ Goto(r, Idle)
  /\ UNCHANGED <<live, queue, pool, jails>>

\* Session and run, or an error (an eviction of the entry among them).
BridgeAdmit(r) ==
  /\ At(r, "badmit")
  /\ \/ /\ Goto(r, [th[r] EXCEPT !.pc = "turn"])
        /\ UNCHANGED <<ledger, seat>>
     \/ /\ Release(r, Idle)
        /\ SeatDrop(th[r].tok)
  /\ UNCHANGED <<pool, jails>>

---------------------------------------------------------------------------
(* The surroundings: contexts, gates, sessions and the roster.             *)

\* A context that ends elsewhere is first looked at in one of these states.
ContextDone(r) ==
  /\ th[r].pc \in {"scan", "rescan", "walk", "parked", "reparked", "jail", "retry"}
  /\ ~th[r].dead
  /\ Goto(r, [th[r] EXCEPT !.dead = TRUE])
  /\ UNCHANGED <<ledger, seat, pool, jails>>

GateMoves ==
  /\ \E l \in Fickle : open' = IF l \in open THEN open \ {l} ELSE open \cup {l}
  /\ UNCHANGED <<ledger, seat, warm, roster, spare, edit, edits, jails, th>>

SessionEnds ==
  /\ \E l \in warm : warm' = warm \ {l}
  /\ UNCHANGED <<ledger, seat, open, roster, spare, edit, edits, jails, th>>

\* RunManager.InflightCount of a lane: the turns whose run is not given back.
Busy(l) == \E r \in Requests : At(r, "turn") /\ th[r].lane = l

RosterEdit == edits < MaxEdits /\ edits' = edits + 1

\* RemoveLastToken, RemoveTokenAt: the in-flight check ...
RemoveCheck ==
  /\ edit = NoEdit /\ roster # <<>> /\ RosterEdit
  /\ \/ /\ ~Busy(roster[Len(roster)])
        /\ edit' = [op |-> "last", at |-> 0]
     \/ /\ \A i \in DOMAIN roster : ~Busy(roster[i])
        /\ \E i \in DOMAIN roster : edit' = [op |-> "at", at |-> i]
  /\ UNCHANGED <<ledger, seat, open, warm, roster, spare, jails, th>>

RemovedAt(i) == [j \in 1..(Len(roster) - 1) |-> IF j < i THEN roster[j] ELSE roster[j + 1]]

\* ... and the swap of the roster, which a lease may have slipped past.
RemoveSwap ==
  /\ edit # NoEdit
  /\ LET i == IF edit.op = "last" THEN Len(roster) ELSE edit.at IN
     roster' = IF i \in DOMAIN roster THEN RemovedAt(i) ELSE roster
  /\ edit' = NoEdit
  /\ UNCHANGED <<ledger, seat, open, warm, spare, edits, jails, th>>

RemoveAllTokens ==
  /\ RosterEdit /\ roster # <<>>
  /\ roster' = <<>>
  /\ UNCHANGED <<ledger, seat, open, warm, spare, edit, jails, th>>

AddToken ==
  /\ RosterEdit
  /\ \E l \in spare : roster' = Append(roster, l) /\ spare' = spare \ {l}
  /\ UNCHANGED <<ledger, seat, open, warm, edit, jails, th>>

Moved(i, j) ==
  [k \in DOMAIN roster |->
     CASE k = j -> roster[i]
       [] i <= k /\ k < j -> roster[k + 1]
       [] j < k /\ k <= i -> roster[k - 1]
       [] OTHER -> roster[k]]

\* SwapTokens, MoveToken
Reorder ==
  /\ RosterEdit
  /\ \E i, j \in DOMAIN roster :
       /\ i # j
       /\ \/ roster' = [roster EXCEPT ![i] = roster[j], ![j] = roster[i]]
          \/ roster' = Moved(i, j)
  /\ UNCHANGED <<ledger, seat, open, warm, spare, edit, jails, th>>

---------------------------------------------------------------------------

\* What a request does by itself once it has begun, up to its lease.
Inside(r) ==
  \/ ScanMiss(r) \/ ScanHit(r) \/ WalkOn(r) \/ WalkTake(r)
  \/ Join(r) \/ Wake(r) \/ Timeout(r) \/ ParkAborted(r)
  \/ AdmitBegin(r) \/ SessionReady(r) \/ RunReady(r) \/ Refused(r)
  \/ Jailed(r) \/ JailEnds(r) \/ JailAborted(r) \/ Retry(r)
  \/ BridgeWake(r) \/ BridgeGivesUp(r) \/ BridgeAdmit(r)

Next ==
  \/ \E r \in Requests : \/ Acquire(r) \/ BridgeAcquire(r) \/ Inside(r)
                         \/ EndTurn(r) \/ EndSlot(r) \/ ContextDone(r)
  \/ GateMoves \/ SessionEnds
  \/ RemoveCheck \/ RemoveSwap \/ RemoveAllTokens \/ AddToken \/ Reorder

Spec == Init /\ [][Next]_vars

FairSpec == Spec /\ \A r \in Requests : WF_vars(Inside(r))

---------------------------------------------------------------------------
(* Properties.                                                             *)

Records ==
  [pc : PCs, toks : Seq(Lanes), order : Seq(Nat), at : Nat, pos : Nat,
   park : BOOLEAN, hops : Nat, lane : AllLanes \cup {None}, idx : Nat,
   tok : AllLanes \cup {None}, dead : BOOLEAN]

\* Every variable has its type, and the queues hold requests.
TypeOK ==
  /\ live \in [AllLanes -> Nat]
  /\ laneq \in [Bridges -> Seq(Requests)]
  /\ queue \in Seq(Requests)
  /\ seat \in [AllLanes -> Nat]
  /\ open \subseteq Lanes /\ warm \subseteq Lanes /\ spare \subseteq Lanes
  /\ roster \in Seq(Lanes)
  /\ edit \in [op : {"none", "last", "at"}, at : Nat]
  /\ edits \in 0..MaxEdits /\ jails \in 0..MaxJails
  /\ th \in [Requests -> Records]

Holders(l) == {r \in Requests : th[r].lane = l}

(* The ledger counts exactly the requests that hold a slot of the lane, a  *)
(* grant that its waiter has not seen yet included, and never more than    *)
(* SLOTS_PER_ACCOUNT ("a third live turn never exists"): no path of the    *)
(* walk, the jail, the hand-off or a give-up leaks a slot or frees twice.  *)
LedgerExact ==
  \A l \in AllLanes : live[l] = Cardinality(Holders(l)) /\ live[l] <= Cap

(* A request that parks is in its queue once until it is granted a slot or *)
(* gives up, holds no other slot meanwhile, and is in no queue at any      *)
(* other time; only one whose context is done may have been dropped.       *)
EachWaiterOnce ==
  /\ \A i, j \in DOMAIN queue : queue[i] = queue[j] => i = j
  /\ \A i \in DOMAIN queue :
       th[queue[i]].pc \in {"parked", "reparked"} /\ th[queue[i]].lane = None
  /\ \A r \in Requests :
       th[r].pc \in {"parked", "reparked"} /\ th[r].lane = None /\ ~th[r].dead
         => \E i \in DOMAIN queue : queue[i] = r
  /\ \A b \in Bridges :
       /\ \A i, j \in DOMAIN laneq[b] : laneq[b][i] = laneq[b][j] => i = j
       /\ \A r \in Requests :
            (At(r, "bparked") /\ th[r].tok = b /\ th[r].lane = None)
              <=> \E i \in DOMAIN laneq[b] : laneq[b][i] = r

(* The seat counter, from which the session manager tells whether a        *)
(* re-admit would cut off a turn, counts exactly the requests between the  *)
(* begin of an admission on the account and its end or the end of its      *)
(* lease, through jails and hand-overs to other accounts.                  *)
SeatExact ==
  /\ \A l \in AllLanes : seat[l] = Cardinality({r \in Requests : th[r].tok = l})
  /\ \A r \in Requests :
       th[r].pc \in {"ensure", "start", "jail", "turn", "badmit"}
         => th[r].tok = th[r].lane /\ th[r].lane # None

\* A bridge request waits only while every slot of its lane is taken.
BridgeConserves == \A b \in Bridges : laneq[b] # <<>> => live[b] = Cap

(* Acquire and AcquireBridge return: with a lease, or with an error.       *)
AcquireReturns ==
  \A r \in Requests :
    th[r].pc \notin {"idle", "turn", "ending"} ~> th[r].pc \in {"idle", "turn"}

(* "one work-conserving FIFO per model": a pooled request waits only while *)
(* every lane that could serve it is full.                                 *)
WorkConserving ==
  \A r \in Requests :
    th[r].pc \in {"parked", "reparked"} /\ th[r].lane = None /\ ~th[r].dead
      => \A i \in DOMAIN roster : roster[i] \in open => live[roster[i]] >= Cap

\* "the single QUEUE_WAIT deadline is never paid twice"
PaidOnce ==
  [][\A r \in Requests : th[r].hops > 0 => ~(At(r, "join") /\ th'[r].pc = "parked")]_vars

\* The ledger and the seats count what requests hold, neither more nor less.
SlotsExact == LedgerExact /\ SeatExact /\ EachWaiterOnce
============================================================================
