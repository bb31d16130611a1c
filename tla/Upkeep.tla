------------------------------- MODULE Upkeep -------------------------------
(***************************************************************************)
(* The schedules of the pool's maintenance loop: the daily probe of an     *)
(* account's quota, the probes that activity or a reset call for, the      *)
(* liveness polls of the sessions, and the pause of an idle pool.          *)
(*                                                                         *)
(* The loop is one goroutine that waits for each network answer it asks    *)
(* for; the probes that activity calls for are fired by a worker of their  *)
(* own, one round at a time, while requests go on marking accounts.        *)
(***************************************************************************)
EXTENDS Naturals, FiniteSets, FiniteSetsExt

CONSTANTS Members,           \* roster indices
          DayTicks,          \* of a Pacific day
          FreshWindow,       \* smartProbeFreshWindow
          MaxPerTick,        \* smartProbeMaxPerTick
          RetryBase, RetryCap,  \* smartProbe429BaseInterval, smartProbeBackoffCap
          AutoWindow,        \* quotaAutoProbeWindow
          BootWindow,        \* quotaBootProbeWindow
          PollEvery, PollBackoffBase, PollBackoffMax,  \* sessionPoll*
          Floors,            \* the Retry-After answers carry, 0 for none
          IdleTimeout,       \* IDLE_ROTATION_TIMEOUT, 0 for off
          MaxUpkeepClock, MaxActivity

ASSUME UpkeepAssumption ==
  /\ Members \subseteq Nat \ {0}
  /\ {DayTicks, MaxUpkeepClock} \subseteq Nat \ {0}

VARIABLES
  upkeepClock,
  probe,       \* member -> [dirty, next, last, step]
  quota,       \* member -> [saved, reset]: when it was learned, when it resets, 0 for unknown
  firing,      \* the worker: [todo, at], at the member whose answer it waits for, or NoMember
  auto,        \* member -> [day, booted]
  slot,        \* member -> where in its windows its hash puts it
  loop,        \* the maintenance loop: [at, todo]
  poll,        \* member -> [next, fails]
  shut,        \* members locked, quarantined, banned, cooling or country-blocked
  leased,      \* members with a chat in flight
  active,      \* [last, finished]: the last lease, and whether the idle pass has finished the runs
  owed,        \* members with activity since their last smart probe began, or a reset to come
  unasked,     \* members a smart probe has been fired for without that
  daily,       \* member -> day -> probes in the slot, the recovery probe counted as one
  activity     \* leases so far

probeVars == <<probe, quota, firing, owed, unasked>>
autoVars == <<auto, daily>>
upkeepVars == <<upkeepClock, probeVars, autoVars, slot, loop, poll, shut, leased, active, activity>>

NoMember == 0
Unset == 0
UDayOf(c) == c \div DayTicks
NextMidnight == (UDayOf(upkeepClock) + 1) * DayTicks
UpkeepDays == 0 .. UDayOf(MaxUpkeepClock)
LoopRests == [at |-> "rest", todo |-> {}]
WorkerRests == [todo |-> {}, at |-> NoMember]

UpkeepInit ==
  /\ upkeepClock = 1
  /\ probe = [m \in Members |-> [dirty |-> FALSE, next |-> Unset, last |-> Unset, step |-> 0]]
  /\ quota = [m \in Members |-> [saved |-> Unset, reset |-> Unset]]
  /\ firing = WorkerRests
  /\ auto = [m \in Members |-> [day |-> Unset, booted |-> FALSE]]
  /\ slot \in [Members -> 0 .. AutoWindow - 1]
  /\ loop = LoopRests
  /\ poll = [m \in Members |-> [next |-> Unset, fails |-> 0]]
  /\ shut = {} /\ leased = {}
  /\ active = [last |-> Unset, finished |-> FALSE]
  /\ owed = {} /\ unasked = {} /\ activity = 0
  /\ daily = [m \in Members |-> [d \in UpkeepDays |-> 0]]

-----------------------------------------------------------------------------
(* The probes that activity calls for *)

(* The mark pulls the next probe to now, past a pending backoff too.        *)
markProbeDirty(m) ==
  /\ probe' = [probe EXCEPT ![m].dirty = TRUE, ![m].next = IF @ /= Unset /\ @ <= upkeepClock THEN @ ELSE upkeepClock]
  /\ owed' = owed \cup {m}

(* The reset the account's cached quota names, which a fire after it uses   *)
(* up.                                                                      *)
resetDue(m) == quota[m].reset /= Unset /\ upkeepClock >= quota[m].reset /\ quota[m].reset > probe[m].last

smartProbeDueToken(m) ==
  /\ m \notin shut /\ firing.at /= m
  /\ quota[m].saved /= Unset => upkeepClock - quota[m].saved >= FreshWindow
  /\ upkeepClock >= probe[m].next
  /\ probe[m].dirty \/ resetDue(m)

(* The first of the roster's due accounts, as many as a round takes.        *)
smartProbeDue ==
  LET due == {m \in Members : smartProbeDueToken(m)}
  IN  {m \in due : Cardinality({k \in due : k < m}) < MaxPerTick}

(* A round in flight keeps the next one from starting; its accounts stay    *)
(* due.                                                                     *)
smartProbeTick ==
  firing' = IF firing = WorkerRests THEN [todo |-> smartProbeDue, at |-> NoMember] ELSE firing

smartProbeFireOne(m) ==
  /\ firing.at = NoMember /\ m \in firing.todo /\ m = Min(firing.todo)
  /\ firing' = [todo |-> firing.todo \ {m}, at |-> m]
  /\ owed' = IF quota[m].reset > upkeepClock THEN owed ELSE owed \ {m}
  /\ unasked' = IF m \in owed THEN unasked ELSE unasked \cup {m}
  /\ UNCHANGED <<upkeepClock, probe, quota, autoVars, slot, loop, poll, shut, leased, active, activity>>

smartProbeRetryDelay(step) ==
  LET d == RetryBase * 2 ^ step IN IF d >= RetryCap THEN RetryCap ELSE d

(* What an answer teaches: when the quota resets.  A reset instant that was *)
(* not known is one more cause for a probe.                                 *)
Learned(m, reset) == [quota EXCEPT ![m] = [saved |-> upkeepClock, reset |-> reset]]
Owing(m, reset) == IF reset /= quota[m].reset THEN owed \cup {m} ELSE owed
Resets == {upkeepClock + 1, NextMidnight}

\* The time of the fire is not kept.
FireAnsweredTimeless(m, outcome, reset) ==
  LET p == probe[m]
      backoff == upkeepClock + smartProbeRetryDelay(p.step + 1)
  IN  /\ firing.at = m /\ firing' = [firing EXCEPT !.at = NoMember]
      /\ probe' = [probe EXCEPT ![m] =
           CASE outcome = "refused"   -> [p EXCEPT !.dirty = FALSE, !.step = @ + 1, !.next = backoff]
             [] outcome = "exhausted" -> [p EXCEPT !.dirty = FALSE, !.step = 0, !.next = NextMidnight]
             [] outcome = "error"     -> [p EXCEPT !.dirty = FALSE, !.next = upkeepClock + RetryBase]
             [] outcome = "ok"        -> [p EXCEPT !.dirty = FALSE, !.step = 0, !.next = Unset]]
      /\ IF outcome = "error" THEN UNCHANGED <<quota, owed>>
         ELSE quota' = Learned(m, reset) /\ owed' = Owing(m, reset)
      /\ UNCHANGED <<upkeepClock, unasked, autoVars, slot, loop, poll, shut, leased, active, activity>>

(* The account is clean after the answer, whatever marked it while the      *)
(* probe was out; a refusal doubles the delay, an exhausted account sleeps  *)
(* to its refill, a transport error to the base delay.                      *)
FireAnswered(m, outcome, reset) ==
  LET p == [probe[m] EXCEPT !.last = upkeepClock, !.dirty = FALSE]
      backoff == upkeepClock + smartProbeRetryDelay(p.step + 1)
  IN  /\ firing.at = m /\ firing' = [firing EXCEPT !.at = NoMember]
      /\ probe' = [probe EXCEPT ![m] =
           CASE outcome = "refused"   -> [p EXCEPT !.step = @ + 1, !.next = backoff]
             [] outcome = "exhausted" -> [p EXCEPT !.step = 0, !.next = NextMidnight]
             [] outcome = "error"     -> [p EXCEPT !.next = upkeepClock + RetryBase]
             [] outcome = "ok"        -> [p EXCEPT !.step = 0, !.next = Unset]]
      /\ IF outcome = "error" THEN UNCHANGED <<quota, owed>>
         ELSE quota' = Learned(m, reset) /\ owed' = Owing(m, reset)
      /\ UNCHANGED <<upkeepClock, unasked, autoVars, slot, loop, poll, shut, leased, active, activity>>

-----------------------------------------------------------------------------
(* The daily probe, first thing of a maintenance pass *)

quotaAutoProbeSlot(m, reset) == IF reset < AutoWindow THEN slot[m] ELSE reset - AutoWindow + slot[m]
quotaAutoProbeReset(m) == quota[m].reset > upkeepClock
quotaAutoProbeDue(m) ==
  auto[m].day /= UDayOf(upkeepClock) + 1 /\ upkeepClock >= quotaAutoProbeSlot(m, quota[m].reset)
quotaBootProbeDue(m) == ~auto[m].booted /\ upkeepClock >= 1 + slot[m] * BootWindow

maintainTick ==
  /\ loop = LoopRests /\ loop' = [at |-> "auto", todo |-> Members]
  /\ UNCHANGED <<upkeepClock, probeVars, autoVars, slot, poll, shut, leased, active, activity>>

MarkedDay(m) == [auto EXCEPT ![m].day = UDayOf(upkeepClock) + 1]
Probed(m, boot) == [daily EXCEPT ![m][UDayOf(upkeepClock)] = IF boot THEN 1 ELSE @ + 1]

\* A boot probe leaves the day unmarked.
quotaAutoProbeOneBootFree(m) ==
  LET boot == ~quotaAutoProbeReset(m) /\ quotaBootProbeDue(m)
      due == quotaAutoProbeReset(m) /\ quotaAutoProbeDue(m)
  IN  /\ loop.at = "auto" /\ m \in loop.todo /\ m = Min(loop.todo)
      /\ auto' = IF boot THEN [auto EXCEPT ![m].booted = TRUE] ELSE IF due THEN MarkedDay(m) ELSE auto
      /\ daily' = IF boot \/ due THEN Probed(m, boot) ELSE daily
      /\ \/ (boot \/ due) /\ \E r \in Resets : quota' = Learned(m, r) /\ owed' = Owing(m, r)
         \/ UNCHANGED <<quota, owed>>
      /\ loop' = [loop EXCEPT !.todo = @ \ {m}]
      /\ UNCHANGED <<upkeepClock, probe, firing, unasked, slot, poll, shut, leased, active, activity>>

(* An account whose reset is not known is probed once after the start, any  *)
(* other one in its slot before the reset; the day is marked before the     *)
(* probe goes out, whatever comes of it.                                    *)
quotaAutoProbeOne(m) ==
  LET boot == ~quotaAutoProbeReset(m) /\ quotaBootProbeDue(m)
      due == quotaAutoProbeReset(m) /\ quotaAutoProbeDue(m)
  IN  /\ loop.at = "auto" /\ m \in loop.todo /\ m = Min(loop.todo)
      /\ auto' = IF boot THEN [MarkedDay(m) EXCEPT ![m].booted = TRUE] ELSE IF due THEN MarkedDay(m) ELSE auto
      /\ daily' = IF boot \/ due THEN Probed(m, boot) ELSE daily
      /\ \/ (boot \/ due) /\ \E r \in Resets : quota' = Learned(m, r) /\ owed' = Owing(m, r)
         \/ UNCHANGED <<quota, owed>>
      /\ loop' = [loop EXCEPT !.todo = @ \ {m}]
      /\ UNCHANGED <<upkeepClock, probe, firing, unasked, slot, poll, shut, leased, active, activity>>

-----------------------------------------------------------------------------
(* The rest of the pass: an idle pool pauses *)

idleFor == IF active.last = Unset THEN 0 ELSE upkeepClock - active.last
Idle_ == IdleTimeout > 0 /\ idleFor > IdleTimeout
tryIdleFinish == Idle_ /\ ~active.finished

(* The first idle pass finishes the runs of the accounts without a lease,   *)
(* the next ones do nothing for them; only an active pass looks for due     *)
(* probes.                                                                  *)
MaintainRest ==
  /\ loop.at = "auto" /\ loop.todo = {} /\ loop' = LoopRests
  /\ active' = [active EXCEPT !.finished = @ \/ tryIdleFinish]
  /\ IF Idle_ THEN UNCHANGED firing ELSE smartProbeTick
  /\ UNCHANGED <<upkeepClock, probe, quota, owed, unasked, autoVars, slot, poll, shut, leased, activity>>

-----------------------------------------------------------------------------
(* The liveness polls *)

(* The poll waits while the account has a chat in flight, or its time has   *)
(* not come.                                                                *)
sessionPollTick(m) ==
  /\ loop = LoopRests /\ ~Idle_
  /\ m \notin shut \cup leased /\ (poll[m].next = Unset \/ upkeepClock >= poll[m].next)
  /\ loop' = [at |-> "poll", todo |-> {m}, since |-> upkeepClock]
  /\ UNCHANGED <<upkeepClock, probeVars, autoVars, slot, poll, shut, leased, active, activity>>

(* From half of the doubled delay up, and not before the floor the upstream *)
(* has named; never more than the maximum.                                  *)
sessionPollBackoffDelay(failures, retryAfter) ==
  LET n == IF failures - 1 > 5 THEN 5 ELSE failures - 1
      d == IF PollBackoffBase * 2 ^ n > PollBackoffMax THEN PollBackoffMax ELSE PollBackoffBase * 2 ^ n
      capped(x) == IF x > PollBackoffMax THEN PollBackoffMax ELSE x
  IN  {IF retryAfter > 0 THEN capped(IF retryAfter > x THEN retryAfter ELSE x) ELSE x : x \in (d \div 2) .. d}

(* The next poll counts from before this one.                               *)
PollAnswered(m, ok, retryAfter) ==
  /\ loop.at = "poll" /\ m \in loop.todo /\ loop' = LoopRests
  /\ IF ok THEN poll' = [poll EXCEPT ![m] = [next |-> loop.since + PollEvery, fails |-> 0]]
     ELSE \E d \in sessionPollBackoffDelay(poll[m].fails + 1, retryAfter) :
            poll' = [poll EXCEPT ![m] = [next |-> loop.since + d, fails |-> @.fails + 1]]
  /\ UNCHANGED <<upkeepClock, probeVars, autoVars, slot, shut, leased, active, activity>>

-----------------------------------------------------------------------------
(* Requests, and time *)

GateChanges(m) ==
  /\ activity < MaxActivity /\ activity' = activity + 1
  /\ shut' = IF m \in shut THEN shut \ {m} ELSE shut \cup {m}
  /\ UNCHANGED <<upkeepClock, probeVars, autoVars, slot, loop, poll, leased, active>>

(* A lease, a chat that went well and a rate limit mark the account.        *)
Leased(m) ==
  /\ activity < MaxActivity /\ activity' = activity + 1
  /\ leased' = leased \cup {m}
  /\ active' = [last |-> upkeepClock, finished |-> FALSE]
  /\ markProbeDirty(m)
  /\ UNCHANGED <<upkeepClock, quota, firing, unasked, autoVars, slot, loop, poll, shut>>

Chatted(m) ==
  /\ m \in leased /\ leased' = leased \ {m}
  /\ \/ markProbeDirty(m)
     \/ UNCHANGED <<probe, owed>>
  /\ UNCHANGED <<upkeepClock, quota, firing, unasked, autoVars, slot, loop, poll, shut, active, activity>>

UpkeepTick ==
  /\ upkeepClock < MaxUpkeepClock /\ upkeepClock' = upkeepClock + 1
  /\ UNCHANGED <<probeVars, autoVars, slot, loop, poll, shut, leased, active, activity>>

ProbeOutcomes == {"refused", "exhausted", "error", "ok"}

UpkeepNext ==
  \/ maintainTick \/ MaintainRest \/ UpkeepTick
  \/ \E m \in Members : quotaAutoProbeOne(m)
  \/ \E m \in Members : smartProbeFireOne(m)
  \/ \E m \in Members, o \in ProbeOutcomes, r \in Resets : FireAnswered(m, o, r)
  \/ \E m \in Members : sessionPollTick(m)
  \/ \E m \in Members, ok \in BOOLEAN, f \in Floors : PollAnswered(m, ok, f)
  \/ \E m \in Members : GateChanges(m)
  \/ \E m \in Members : Leased(m)
  \/ \E m \in Members : Chatted(m)

UpkeepSpec == UpkeepInit /\ [][UpkeepNext]_upkeepVars

-----------------------------------------------------------------------------
(* Properties *)

(* A probe is fired for activity or for a reset instant, once for each:     *)
(* "trigger-only, never sweeping", "idle accounts see zero traffic",        *)
(* whatever came of the probe before it.                                    *)
TriggeredOnly == unasked = {}

(* "exactly one probe per token per Pacific day": the recovery probe after  *)
(* a start does not double with the slot of the reset it has learned.  (In  *)
(* the other order it does: the reset passes, is forgotten, and the account *)
(* not yet recovered is probed again.)                                      *)
OneDailyProbe == \A m \in Members, d \in UpkeepDays : daily[m][d] <= 1

\* No probe goes out without a reason, and one a day without anybody's asking.
ProbesSparing == TriggeredOnly /\ OneDailyProbe
=============================================================================
