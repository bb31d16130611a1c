------------------------------ MODULE Maturity ------------------------------
(***************************************************************************)
(* The streak maintenance of the pool: every night, shortly before the     *)
(* upstream's day rolls over, each account that nothing else has used is   *)
(* touched with one small turn.                                            *)
(*                                                                         *)
(* Three walkers share the accounts: the nightly tick of the maintenance   *)
(* loop, the touch of one account an administrator asks for, and the walk  *)
(* over all accounts an administrator forces.  A walk takes its clock once *)
(* and goes to the network between its decisions, so the others' steps,    *)
(* the passing of time and the end of the process fall in between.  What   *)
(* keeps an account from a second touch is the day of the last one, which  *)
(* is written after the touch and reaches the disk after that, and the     *)
(* upstream's own word that the day is used, which is read from a cache.   *)
(***************************************************************************)
EXTENDS Naturals, Sequences, FiniteSets, SequencesExt

CONSTANTS Accounts,       \* roster indices, numbers
          DayLength, WindowStart, GateStart, GateEnd,  \* of a day: the window runs to its end
          Throttle,       \* maturityThrottle
          Backoff,        \* maturity429Backoff
          MaxMatClock,
          MaxLag,         \* how far a walk's clock may be behind
          MaxAsked        \* touches and changes asked for, client turns, restarts, gates moved
                          \* and readings outdated, together

\* No walk is as far behind as from one day to the firing gate of the next.
ASSUME MaturityAssumption ==
  /\ IsFiniteSet(Accounts) /\ Accounts /= {}
  /\ {WindowStart, GateStart, GateEnd, Backoff, MaxLag} \subseteq Nat
  /\ {DayLength, Throttle} \subseteq Nat \ {0}
  /\ MaxLag <= GateStart
  /\ MaxMatClock \in Nat /\ DayLength <= MaxMatClock

VARIABLES
  matClock,
  mat,        \* account -> its maturityState
  matDisk,    \* account -> the state its row holds, NoMatRow
  streak,     \* account -> the cached reading [used, fresh], NoReading
  remote,     \* account -> the day the upstream has last seen it used: external
  matGate,       \* account -> "open", "locked" or "flagged" (quarantine, ban, cooldown, country)
  priced,     \* accounts whose meter prices the unmetered model
  clientDay,  \* account -> the last day a client's turn succeeded
  walk,       \* walker -> where it is
  backoff,    \* the walk is paused until then
  nightly,    \* account -> day -> touches the tick has begun
  torn,       \* account -> day -> touches of the tick a restart has cut off
  asked       \* how many of them there have been

matVars == <<matClock, mat, matDisk, streak, remote, matGate, priced, clientDay, walk, backoff, nightly, torn, asked>>

Touchers == {"tick", "now", "force"}
NoMatRow == [none |-> TRUE]
NoReading == [none |-> TRUE]
NoDay == 0
Undrawn == 0
Resting == [at |-> "resting"]

pacificDayKey(c) == c \div DayLength
MinuteOf(c) == c % DayLength
maturityInWindow(c) == MinuteOf(c) >= WindowStart
maturityInFireGate(c) == MinuteOf(c) >= GateStart /\ MinuteOf(c) < GateEnd
Days == 1 .. pacificDayKey(MaxMatClock)

FreshState == [mode |-> "unmetered", slot |-> Undrawn, slotDay |-> NoDay, lastTouch |-> 0,
               touchDay |-> NoDay, result |-> ""]

MaturityInit ==
  /\ matClock = DayLength
  /\ mat = [a \in Accounts |-> FreshState]
  /\ matDisk = [a \in Accounts |-> NoMatRow]
  /\ streak = [a \in Accounts |-> NoReading]
  /\ remote = [a \in Accounts |-> NoDay]
  /\ matGate = [a \in Accounts |-> "open"]
  /\ priced = {}
  /\ clientDay = [a \in Accounts |-> NoDay]
  /\ walk = [w \in Touchers |-> Resting]
  /\ backoff = 0
  /\ nightly = [a \in Accounts |-> [d \in Days |-> 0]]
  /\ torn = [a \in Accounts |-> [d \in Days |-> 0]]
  /\ asked = 0

Ask == asked < MaxAsked /\ asked' = asked + 1

-----------------------------------------------------------------------------
(* The state of one account *)

(* A row is written once there is something in it.                          *)
saveMaturity(a, m, reading) ==
  IF m = FreshState THEN matDisk ELSE [matDisk EXCEPT ![a] = [state |-> m, reading |-> reading]]

maturityRecord(m, result) == [m EXCEPT !.result = result]

(* The account with the lowest streak first: in whatever order.             *)
maturitySweepOrder == SetToSeqs(Accounts)

(* A reading is good for an hour (maturityStreakFresh).                     *)
StaleReading(a) == (streak[a] /= NoReading) => ~streak[a].fresh

touchedToday(m, today) == m.touchDay = today /\ m.lastTouch /= 0

(* The premium mode takes the first premium model, which every meter        *)
(* prices, the automatic pick the unmetered one; a priced model is refused. *)
Vetoed(a) ==
  mat[a].mode = "premium-short" \/ a \in priced

(* The refusal is in the ledger at each pass.                               *)
maturityRefuse(m) == maturityRecord(m, "skip")

-----------------------------------------------------------------------------
(* The walks *)

Head1(w) == walk[w].todo[1]
(* The walk leaves its account, and ends with its last one.                 *)
Onward(w) == IF Len(walk[w].todo) = 1 THEN Resting ELSE [walk[w] EXCEPT !.todo = Tail(@), !.at = "account"]
Walking(w, todo, all) ==
  [at |-> "account", todo |-> todo, now |-> matClock, today |-> pacificDayKey(matClock), all |-> all]

maturityTickAt ==
  /\ walk["tick"] = Resting /\ matClock >= backoff
  /\ \E order \in maturitySweepOrder : walk' = [walk EXCEPT !["tick"] = Walking("tick", order, FALSE)]
  /\ UNCHANGED <<matClock, mat, matDisk, streak, remote, matGate, priced, clientDay, backoff, nightly, torn, asked>>

(* The state the walk leaves the account in, and the row it writes.         *)
Leave(w, m, reading) ==
  /\ mat' = [mat EXCEPT ![Head1(w)] = m]
  /\ matDisk' = saveMaturity(Head1(w), m, reading)
  /\ walk' = [walk EXCEPT ![w] = Onward(w)]

(* What the nightly pass makes of an account it may touch: the client's     *)
(* turns, today's touch, the upstream's word, the slot, the throttle and    *)
(* the firing gate, in this order.                                          *)
NightlyVerdict(a, m, reading, now, today) ==
  CASE clientDay[a] = today -> "skip"
    [] touchedToday(m, today) -> IF m.result \in {"ok", "error"} THEN m.result ELSE "skip"
    [] reading.used -> IF m.result \in {"ok", "error"} THEN m.result ELSE "skip"
    [] now < m.slot -> "skip"
    [] m.lastTouch /= 0 /\ now - m.lastTouch < Throttle -> "skip"
    [] ~maturityInFireGate(now) -> "skip"
    [] OTHER -> "fire"

(* The night's slot is drawn when the pass gets that far and the slot is    *)
(* another day's.                                                           *)
Rolled(m, today, slot) ==
  IF m.slot = Undrawn \/ m.slotDay /= today THEN [m EXCEPT !.slot = slot, !.slotDay = today] ELSE m

ReachesSlot(a, m, reading, today) == clientDay[a] /= today /\ ~touchedToday(m, today) /\ ~reading.used

SlotsOf(today) == {today * DayLength + i : i \in WindowStart .. GateEnd - 1}

Fire(w) == walk' = [walk EXCEPT ![w].at = "fire"]

Decide(w, m, reading) ==
  LET a == Head1(w) now == walk[w].now today == walk[w].today
  IN  IF ~maturityInWindow(now) THEN Leave(w, m, reading)
      ELSE \E slot \in SlotsOf(today) :
             LET n == IF ReachesSlot(a, m, reading, today) THEN Rolled(m, today, slot) ELSE m
                 v == NightlyVerdict(a, n, reading, now, today)
             IN  IF v = "fire" THEN Fire(w) /\ mat' = [mat EXCEPT ![a] = n] /\ UNCHANGED matDisk
                 ELSE Leave(w, maturityRecord(n, v), reading)

(* The tick on one account.  The gates come before the reading, and a stale *)
(* reading is fetched first.                                                *)
maturityTickOne ==
  LET a == Head1("tick") now == walk["tick"].now
  IN  /\ walk["tick"].at = "account"
      /\ CASE matGate[a] /= "open" -> Leave("tick", IF maturityInWindow(now) THEN maturityRecord(mat[a], "skip") ELSE mat[a], streak[a])
           [] matGate[a] = "open" /\ StaleReading(a) -> walk' = [walk EXCEPT !["tick"].at = "reading"] /\ UNCHANGED <<mat, matDisk>>
           [] OTHER -> Decide("tick", mat[a], streak[a])
      /\ UNCHANGED <<matClock, streak, remote, matGate, priced, clientDay, backoff, nightly, torn, asked>>

Reading(a) == [used |-> remote[a] = pacificDayKey(matClock), fresh |-> TRUE]

(* The upstream answers with the account's streak, or does not.             *)
maturityRefreshStreak ==
  LET a == Head1("tick") now == walk["tick"].now
  IN  /\ walk["tick"].at = "reading"
      /\ \/ streak' = [streak EXCEPT ![a] = Reading(a)]
            /\ Decide("tick", mat[a], Reading(a))
         \/ UNCHANGED streak
            /\ Leave("tick", IF maturityInWindow(now) THEN maturityRecord(mat[a], "skip") ELSE mat[a], streak[a])
      /\ UNCHANGED <<matClock, remote, matGate, priced, clientDay, backoff, nightly, torn, asked>>

-----------------------------------------------------------------------------
(* The touches an administrator asks for *)

CanAsk(w) == walk[w] = Resting /\ Ask

(* One account; its lock, the slot, the window and the throttle do not      *)
(* count.                                                                   *)
MaturityTouchNow(a) ==
  /\ CanAsk("now")
  /\ walk' = [walk EXCEPT !["now"] = Walking("now", <<a>>, FALSE)]
  /\ UNCHANGED <<matClock, mat, matDisk, streak, remote, matGate, priced, clientDay, backoff, nightly, torn>>

RosterOrder(order) == \A i, j \in DOMAIN order : i < j => order[i] < order[j]

(* All accounts in roster order; forceAll passes over the client's turns    *)
(* and the used day.                                                        *)
ForceMaturityTouch(all) ==
  /\ CanAsk("force")
  /\ \E order \in SetToSeqs(Accounts) :
       RosterOrder(order) /\ walk' = [walk EXCEPT !["force"] = Walking("force", order, all)]
  /\ UNCHANGED <<matClock, mat, matDisk, streak, remote, matGate, priced, clientDay, backoff, nightly, torn>>

(* The reading is fetched when it is stale: together with the decision,     *)
(* which leaves the ledger alone but for a reading that cannot be had or a  *)
(* day that is used.                                                        *)
ManualOne(w) ==
  LET a == Head1(w)
      shut == IF w = "now" THEN matGate[a] = "flagged" ELSE matGate[a] /= "open"
      passed == w = "force" /\ ~walk[w].all
                /\ (clientDay[a] = walk[w].today \/ (streak[a] /= NoReading /\ streak[a].used))
      skip(result) == /\ mat' = IF w = "now" THEN [mat EXCEPT ![a] = maturityRecord(@, result)] ELSE mat
                      /\ walk' = [walk EXCEPT ![w] = Onward(w)]
  IN  /\ w /= "tick" /\ walk[w].at = "account"
      /\ IF shut \/ passed THEN walk' = [walk EXCEPT ![w] = Onward(w)] /\ UNCHANGED <<mat, streak>>
         ELSE \E r \in IF StaleReading(a) THEN {NoReading, Reading(a)} ELSE {streak[a]} :
                IF r = NoReading THEN skip("skip") /\ UNCHANGED streak
                ELSE /\ streak' = [streak EXCEPT ![a] = r]
                     /\ IF w = "now" /\ r.used THEN skip("skip") ELSE Fire(w) /\ UNCHANGED mat
      /\ UNCHANGED <<matClock, matDisk, remote, matGate, priced, clientDay, backoff, nightly, torn, asked>>

-----------------------------------------------------------------------------
(* The touch *)

Count(f, w) == IF w = "tick" THEN [f EXCEPT ![Head1(w)][walk[w].today] = @ + 1] ELSE f

(* The model is settled and looked up in the account's meter; a touch that  *)
(* is refused never reaches the network.                                    *)
maturityFire(w) ==
  LET a == Head1(w)
  IN  /\ walk[w].at = "fire"
      /\ IF Vetoed(a) THEN Leave(w, maturityRefuse(mat[a]), streak[a]) /\ UNCHANGED nightly
         ELSE /\ walk' = [walk EXCEPT ![w].at = "touch"]
              /\ nightly' = Count(nightly, w)
              /\ UNCHANGED <<mat, matDisk>>
      /\ UNCHANGED <<matClock, streak, remote, matGate, priced, clientDay, backoff, torn, asked>>

Used(a) == [remote EXCEPT ![a] = pacificDayKey(matClock)]

(* Admission, run, turn, finish and release.  The turn lands or it does     *)
(* not; the finish of a run whose turn has landed may still fail, and then  *)
(* the touch counts as failed.                                              *)
maturityTouchRun(w) ==
  LET a == Head1(w)
  IN  /\ walk[w].at = "touch"
      /\ \/ remote' = Used(a) /\ \E r \in {"ok", "error"} : walk' = [walk EXCEPT ![w] = [@ EXCEPT !.at = r]]
         \/ UNCHANGED remote /\ \E r \in {"error", "429"} : walk' = [walk EXCEPT ![w] = [@ EXCEPT !.at = r]]
      /\ UNCHANGED <<matClock, mat, matDisk, streak, matGate, priced, clientDay, backoff, nightly, torn, asked>>

(* The day is marked whatever came of the touch.                            *)
TouchRecorded(w, m) ==
  LET ok == walk[w].at = "ok"
  IN  [m EXCEPT !.lastTouch = walk[w].now, !.result = IF ok THEN "ok" ELSE "error",
                !.touchDay = walk[w].today]

\* Without the save on the way out.
TouchReturnsUnsaved(w) ==
  LET a == Head1(w)
      stop == w = "tick" /\ walk[w].at = "429"
  IN  /\ walk[w].at \in {"ok", "error", "429"}
      /\ mat' = [mat EXCEPT ![a] = TouchRecorded(w, @)]
      /\ walk' = [walk EXCEPT ![w] = IF stop THEN Resting ELSE Onward(w)]
      /\ backoff' = IF stop THEN walk[w].now + Backoff ELSE backoff
      /\ UNCHANGED <<matClock, matDisk, streak, remote, matGate, priced, clientDay, nightly, torn, asked>>

(* A rate limit ends the tick's walk and pauses the next ones; a manual     *)
(* walk goes on.                                                            *)
TouchReturns(w) ==
  LET a == Head1(w)
      m == TouchRecorded(w, mat[a])
      stop == w = "tick" /\ walk[w].at = "429"
  IN  /\ walk[w].at \in {"ok", "error", "429"}
      /\ mat' = [mat EXCEPT ![a] = m]
      /\ matDisk' = saveMaturity(a, m, streak[a])
      /\ walk' = [walk EXCEPT ![w] = IF stop THEN Resting ELSE Onward(w)]
      /\ backoff' = IF stop THEN walk[w].now + Backoff ELSE backoff
      /\ UNCHANGED <<matClock, streak, remote, matGate, priced, clientDay, nightly, torn, asked>>

-----------------------------------------------------------------------------
(* The rest of the system *)

(* The preferences of an account; enrolling it draws a slot if it has none. *)
SetMaturity(a, mode, slot) ==
  /\ Ask
  /\ LET m == [mat[a] EXCEPT !.mode = mode, !.slot = IF @ = Undrawn THEN slot ELSE @,
                             !.slotDay = IF mat[a].slot = Undrawn THEN pacificDayKey(matClock) ELSE @]
     IN  mat' = [mat EXCEPT ![a] = m] /\ matDisk' = saveMaturity(a, m, streak[a])
  /\ UNCHANGED <<matClock, streak, remote, matGate, priced, clientDay, walk, backoff, nightly, torn>>

(* The loop that fills the caches in.                                       *)
asyncStreakFetch(a) ==
  /\ StaleReading(a)
  /\ streak' = [streak EXCEPT ![a] = Reading(a)]
  /\ UNCHANGED <<matClock, mat, matDisk, remote, matGate, priced, clientDay, walk, backoff, nightly, torn, asked>>

ClientTurn(a) ==
  /\ Ask
  /\ remote' = Used(a)
  /\ clientDay' = [clientDay EXCEPT ![a] = pacificDayKey(matClock)]
  /\ UNCHANGED <<matClock, mat, matDisk, streak, matGate, priced, walk, backoff, nightly, torn>>

GateShifts(a, g) ==
  /\ Ask
  /\ matGate[a] /= g /\ matGate' = [matGate EXCEPT ![a] = g]
  /\ UNCHANGED <<matClock, mat, matDisk, streak, remote, priced, clientDay, walk, backoff, nightly, torn>>

MeterMoves(a) ==
  /\ Ask
  /\ priced' = IF a \in priced THEN priced \ {a} ELSE priced \cup {a}
  /\ UNCHANGED <<matClock, mat, matDisk, streak, remote, matGate, clientDay, walk, backoff, nightly, torn>>

(* The process ends wherever it is; the rows are what comes back, the       *)
(* backoff and the walks do not.                                            *)
RestoreMaturity ==
  LET cut == walk["tick"].at \in {"touch", "ok", "error", "429"}
  IN  /\ Ask
      /\ mat' = [a \in Accounts |-> IF matDisk[a] = NoMatRow THEN FreshState ELSE matDisk[a].state]
      /\ streak' = [a \in Accounts |-> IF matDisk[a] = NoMatRow THEN NoReading ELSE matDisk[a].reading]
      /\ walk' = [w \in Touchers |-> Resting]
      /\ backoff' = 0
      /\ torn' = IF cut THEN Count(torn, "tick") ELSE torn
      /\ UNCHANGED <<matClock, matDisk, remote, matGate, priced, clientDay, nightly>>

Staled(r) == IF r = NoReading THEN r ELSE [r EXCEPT !.fresh = FALSE]

ReadingAges(a) ==
  /\ Ask /\ streak[a] /= NoReading /\ streak[a].fresh
  /\ streak' = [streak EXCEPT ![a] = Staled(@)]
  /\ UNCHANGED <<matClock, mat, matDisk, remote, matGate, priced, clientDay, walk, backoff, nightly, torn>>

(* A network call is bounded: a walk is not behind its account by more than *)
(* that.  No reading of one day is fresh in the window of the next.         *)
MatTick ==
  /\ matClock < MaxMatClock /\ matClock' = matClock + 1
  /\ \A w \in Touchers : walk[w] /= Resting => matClock - walk[w].now < MaxLag
  /\ IF MinuteOf(matClock') = 0
     THEN /\ streak' = [a \in Accounts |-> Staled(streak[a])]
          /\ matDisk' = [a \in Accounts |-> IF matDisk[a] = NoMatRow THEN NoMatRow ELSE [matDisk[a] EXCEPT !.reading = Staled(@)]]
     ELSE UNCHANGED <<streak, matDisk>>
  /\ UNCHANGED <<mat, remote, matGate, priced, clientDay, walk, backoff, nightly, torn, asked>>

MaturityNext ==
  \/ maturityTickAt \/ maturityTickOne \/ maturityRefreshStreak
  \/ \E a \in Accounts : MaturityTouchNow(a)
  \/ \E all \in BOOLEAN : ForceMaturityTouch(all)
  \/ \E w \in Touchers : ManualOne(w)
  \/ \E w \in Touchers : maturityFire(w)
  \/ \E w \in Touchers : maturityTouchRun(w)
  \/ \E w \in Touchers : TouchReturns(w)
  \/ \E a \in Accounts, mode \in {"unmetered", "premium-short"}, slot \in SlotsOf(pacificDayKey(matClock)) : SetMaturity(a, mode, slot)
  \/ \E a \in Accounts : asyncStreakFetch(a)
  \/ \E a \in Accounts : ClientTurn(a)
  \/ \E a \in Accounts, g \in {"open", "locked", "flagged"} : GateShifts(a, g)
  \/ \E a \in Accounts : MeterMoves(a)
  \/ \E a \in Accounts : ReadingAges(a)
  \/ RestoreMaturity
  \/ MatTick

MaturitySpec == MaturityInit /\ [][MaturityNext]_matVars

-----------------------------------------------------------------------------
(* Properties *)

(* The nightly walk touches an account once a Pacific day, whatever came of *)
(* the touch, the manual touches beside it and the restarts of the process: *)
(* "a reboot inside the window must not double-touch".  The one exception   *)
(* is a touch a restart has cut off before its row was written.             *)
OneNightlyTouch ==
  \A a \in Accounts, d \in Days : nightly[a][d] <= 1 + torn[a][d]
=============================================================================
