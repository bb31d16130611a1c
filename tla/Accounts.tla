------------------------------ MODULE Accounts ------------------------------
(***************************************************************************)
(* What the pool remembers about its accounts: locks, bans, cooldowns,      *)
(* quarantines, the freebucks meter, restart hints and chat counts          *)
(* (runs/cooldown.go; pool/cooldown.go, cooldown_hint.go, state_store.go,   *)
(* pool_persist.go, probe.go, quota.go, roster.go, the gates of             *)
(* acquire_route.go), who changes it and what a restart brings back.        *)
(*                                                                         *)
(* A call is a list of steps, one per critical section or store access, in *)
(* the order the code makes them; the steps of different calls interleave. *)
(* A deadline is an instant of the clock, 0 is the zero time and Never a   *)
(* ban without resumes_at.  Instants are few: a ban lifts, a country block *)
(* and an exhausted meter end, one tick after they are learned.            *)
(***************************************************************************)
EXTENDS Naturals, FiniteSets, SequencesExt

CONSTANTS
  Accts,     \* accounts (entries of the roster)
  Walkers,   \* goroutines that serve requests
  Probers,   \* goroutines that probe an account
  Admins,    \* goroutines of the dashboard and of the maintenance tick
  NoAcct,    \* no account
  NoRow,     \* a row that is not in the store
  MaxNow,    \* bound: ticks of the clock
  MaxChats,  \* bound: chats recorded per account
  MaxEdits,  \* bound: roster edits
  MaxDeaths, \* bound: restarts
  Settings   \* pairs of accounts and events, one of which a behaviour is about

ASSUME AccountsAssumption ==
  /\ MaxNow \in Nat \ {0} /\ NoAcct \notin Accts /\ IsFiniteSet(Accts)
  /\ \A s \in Settings : s[1] \subseteq Accts

Callers  == Walkers \cup Probers \cup Admins
Never    == MaxNow + 2
Deadline == 0..Never

VARIABLES
  clock,    \* time.Now()
  roster,   \* the accounts in roster order
  locked,   \* tokenEntry.locked
  quar,     \* tokenEntry.quarantine: 0 none, else its liftAt
  gate,     \* the RunManager's windows
  spent,    \* the session snapshot's meter: exhausted until
  count,    \* the entry's chat ledger
  hint,     \* cooldownHints: 0 none, else its UntilMs
  dirty,    \* persistDirty
  hintRow,  \* pool/cooldown/* rows
  countRow, \* pool/ledger/* rows
  stateRow, \* token_state rows
  call,     \* the call every goroutine is in
  flush,    \* FlushPoolPersist
  told,     \* history: the ban upstream has told of, until countermanded
  edits, deaths,
  may       \* the events of this behaviour: what happens, is asked and answered

memVars == <<locked, quar, gate, spent, count>>
rowVars == <<hintRow, countRow, stateRow>>
histVars == <<told, edits, deaths, may>>
accountsVars == <<clock, roster, memVars, hint, dirty, rowVars, call, flush, histVars>>

---------------------------------------------------------------------------
Live(t) == clock < t

\* The deadline fields of a RunManager, and the fields of a token_state row.
Windows == [ban : Deadline, cool : Deadline, country : Deadline, limit : Deadline]
Open    == [ban |-> 0, cool |-> 0, country |-> 0, limit |-> 0]
BanError(a) == Live(gate[a].ban)

Steps == {"ban", "quarantine", "storeBan", "writeHint", "popHint", "dropHint",
          "country", "storeCountry", "mirrorCountry", "clear", "lift", "unquarantine", "cool",
          "meter", "record", "lock", "unlock", "capture", "save", "mark", "remember"}

\* A call: its remaining steps, the account it is about, the roster position it
\* was given, the deadline of the answer, the value it is about to write.
NoCall == [todo |-> <<>>, acct |-> NoAcct, at |-> 0, until |-> 0, skip |-> FALSE,
           pc |-> "idle", val |-> 0, row |-> NoRow]

\* The account at a position at this moment; the index-based methods of the
\* pool ignore a position out of range.
AtIndex(i) == IF i \in DOMAIN roster THEN roster[i] ELSE NoAcct

CooldownBan(w, t) ==
  [w EXCEPT !.ban = IF Live(t) THEN t ELSE 0,
            !.cool = IF Live(t) /\ t # Never THEN t ELSE 0,
            !.country = 0]

CooldownCountryBlockedAlways(w) ==
  [w EXCEPT !.ban = 0, !.country = clock + 1, !.cool = clock + 1]

CooldownCountryBlocked(w) ==
  IF Live(w.ban) THEN w
  ELSE [w EXCEPT !.ban = 0, !.country = clock + 1, !.cool = clock + 1]

Cooldown(w, t) == [w EXCEPT !.cool = t, !.ban = 0, !.country = 0]

ClearCooldowns(w) == Open

\* RememberModelRateLimit; opaque refusals carry no window and are not kept.
RememberModelRateLimit(w, t) == IF Live(t) THEN [w EXCEPT !.limit = t] ELSE w
ModelRateLimit(a) == Live(gate[a].limit)

CooldownHintFresh(a) == hint[a] = Never \/ Live(hint[a])

\* cooldownHintSkippable: not when every account of the walk carries a hint.
CooldownHintSkippable ==
  ToSet(roster) = {} \/ \E a \in ToSet(roster) : ~CooldownHintFresh(a)

\* freebucksCapped without a reusable session: the stored meter says the
\* balance is below the price, and its refill is still ahead.
FreebucksCapped(a) == Live(spent[a])

\* walkGates, the marker of a lifted quarantine being out of the way.
WalkGates(a, skip) ==
  /\ ~locked[a]
  /\ ~(skip /\ CooldownHintFresh(a))
  /\ ~Live(quar[a])
  /\ ~FreebucksCapped(a)
  /\ ~Live(gate[a].cool) /\ ~BanError(a)
  /\ ~ModelRateLimit(a)

---------------------------------------------------------------------------
Idle(c) == call[c].pc = "idle" /\ call[c].todo = <<>>
At(c, p) == call[c].pc = p /\ call[c].todo = <<>>
Begin(c, r) == call' = [call EXCEPT ![c] = r]
Does(c, s) == call[c].todo # <<>> /\ Head(call[c].todo) = s
Over(r) == IF r.todo = <<>> /\ r.pc = "idle" THEN NoCall ELSE r
Then(c, s) == Over([call[c] EXCEPT !.todo = s \o Tail(@)])
Rest(c) == Then(c, <<>>)

\* The calls, as the steps they consist of.
BanSteps      == <<"ban", "quarantine", "storeBan">>
LiftSteps     == <<"lift">>
UnlockSteps   == <<"clear", "unquarantine", "popHint", "capture">>
AdmitSteps    == <<"clear", "popHint">>
RecordSteps   == <<"record", "capture", "mark">>
CountrySteps  == <<"country", "mirrorCountry">>
HealthySteps  == <<"unquarantine", "clear", "popHint">>

\* The ends a ban is told with: already past, one tick ahead, none.
BanEnds ==
  {t \in {clock, clock + 1, Never} :
     (CASE t = clock -> "lapsed" [] t = Never -> "forever" [] OTHER -> "ban") \in may}

---------------------------------------------------------------------------
\* A request: the walk begins, and reads once whether hints may skip.
Acquire(c) ==
  /\ Idle(c) /\ c \in Walkers /\ "walk" \in may
  /\ Begin(c, [NoCall EXCEPT !.pc = "walk", !.skip = CooldownHintSkippable])
  /\ UNCHANGED <<clock, roster, memVars, hint, dirty, rowVars, flush, histVars>>

\* A lane passes the gates and its admission goes upstream.  A quarantine that
\* has lifted is cleared on the way (clearLiftedQuarantine).
TryLane(c) ==
  /\ At(c, "walk")
  /\ \E a \in ToSet(roster) :
       /\ WalkGates(a, call[c].skip)
       /\ Begin(c, [call[c] EXCEPT !.pc = "asked", !.acct = a,
                      !.todo = IF quar[a] # 0 THEN LiftSteps ELSE <<>>])
  /\ UNCHANGED <<clock, roster, memVars, hint, dirty, rowVars, flush, histVars>>

\* No lane is left; the error goes to the client.
AcquireFails(c) ==
  /\ At(c, "walk")
  /\ \A a \in ToSet(roster) : ~WalkGates(a, call[c].skip)
  /\ Begin(c, NoCall)
  /\ UNCHANGED <<clock, roster, memVars, hint, dirty, rowVars, flush, histVars>>

\* The admission is answered: an error of the kinds classifyAndCooldown tells
\* apart, or a session, which clears the gates and becomes a lease if the
\* account is still in the roster.
AdmissionRefused(c) ==
  /\ At(c, "asked")
  /\ \/ \E t \in BanEnds :
             Begin(c, [call[c] EXCEPT !.pc = "walk", !.until = t, !.todo = BanSteps])
     \/ /\ "limit" \in may
        /\ Begin(c, [call[c] EXCEPT !.pc = "walk", !.until = clock + 1, !.todo = <<"remember">>])
     \/ /\ "country" \in may
        /\ Begin(c, [call[c] EXCEPT !.pc = "idle", !.until = clock + 1,
                                    !.todo = <<"storeCountry">>])
     \/ Begin(c, NoCall)
  /\ UNCHANGED <<clock, roster, memVars, hint, dirty, rowVars, flush, histVars>>

Admitted(c) ==
  /\ At(c, "asked")
  /\ Begin(c, [call[c] EXCEPT !.pc = "lease", !.todo = AdmitSteps])
  /\ UNCHANGED <<clock, roster, memVars, hint, dirty, rowVars, flush, histVars>>

\* An entry that left the roster during its admission is not leased; the chat
\* is recorded on the lease's own entry, and so is its ban.
ChatDone(c) ==
  /\ At(c, "lease")
  /\ \/ /\ call[c].acct \notin ToSet(roster)
        /\ Begin(c, [call[c] EXCEPT !.pc = "walk"])
     \/ /\ call[c].acct \in ToSet(roster) /\ count[call[c].acct] < MaxChats
        /\ Begin(c, [call[c] EXCEPT !.pc = "idle", !.todo = RecordSteps])
     \/ /\ call[c].acct \in ToSet(roster)
        /\ \E t \in BanEnds :
             Begin(c, [call[c] EXCEPT !.pc = "idle", !.until = t, !.todo = BanSteps])
     \/ /\ call[c].acct \in ToSet(roster)
        /\ Begin(c, NoCall)
  /\ UNCHANGED <<clock, roster, memVars, hint, dirty, rowVars, flush, histVars>>

\* ProbeTokenDetailed: the entry is read at its position, then the upstream asked.
ProbeToken(c) ==
  /\ Idle(c) /\ c \in Probers /\ "probe" \in may
  /\ \E i \in DOMAIN roster :
       Begin(c, [NoCall EXCEPT !.pc = "probe", !.at = i, !.acct = roster[i]])
  /\ UNCHANGED <<clock, roster, memVars, hint, dirty, rowVars, flush, histVars>>

\* The answer.  Punishments go to whoever is at the position now, evidence of
\* health to the entry that was asked.
ProbeAnswered(c) ==
  LET here  == AtIndex(call[c].at)
      asked == call[c].acct
      lift  == IF quar[asked] # 0 THEN HealthySteps ELSE <<>>
      Ends(a, t, steps) ==
        Begin(c, IF a = NoAcct THEN NoCall
                 ELSE [call[c] EXCEPT !.pc = "idle", !.acct = a, !.until = t, !.todo = steps])
  IN /\ At(c, "probe")
     /\ \/ \E t \in BanEnds : Ends(here, t, BanSteps)
        \/ "country" \in may /\ Ends(here, clock + 1, CountrySteps)
        \/ /\ "spent" \in may
           /\ Begin(c, [call[c] EXCEPT !.pc = "spent", !.until = clock + 1,
                                       !.todo = lift \o <<"meter">>])
        \/ Begin(c, [call[c] EXCEPT !.pc = "funded", !.until = 0, !.todo = lift \o <<"meter">>])
        \/ Begin(c, NoCall)
     /\ UNCHANGED <<clock, roster, memVars, hint, dirty, rowVars, flush, histVars>>

\* What follows the meter: CooldownToken by position, or the hint of an account
\* without a ban is dropped.
ProbeMetered(c) ==
  /\ \/ /\ At(c, "spent")
        /\ Begin(c, IF AtIndex(call[c].at) = NoAcct THEN NoCall
                    ELSE [call[c] EXCEPT !.pc = "idle", !.acct = AtIndex(call[c].at),
                                         !.todo = <<"cool", "capture">>])
     \/ /\ At(c, "funded")
        /\ Begin(c, Over([call[c] EXCEPT !.pc = "idle",
                            !.todo = IF BanError(call[c].acct) THEN <<>> ELSE <<"popHint">>]))
  /\ UNCHANGED <<clock, roster, memVars, hint, dirty, rowVars, flush, histVars>>

\* The dashboard's UnlockToken, LockToken and UnlockLockToken, and the sweep of
\* the maintenance tick over lifted quarantines.
UnlockToken(c) ==
  /\ Idle(c) /\ c \in Admins /\ "unlock" \in may
  /\ \E a \in ToSet(roster) : Begin(c, [NoCall EXCEPT !.acct = a, !.todo = UnlockSteps])
  /\ UNCHANGED <<clock, roster, memVars, hint, dirty, rowVars, flush, histVars>>

LockToken(c) ==
  /\ Idle(c) /\ c \in Admins /\ "lock" \in may
  /\ \E a \in ToSet(roster) :
       Begin(c, [NoCall EXCEPT !.acct = a, !.todo = <<"lock", "capture">>])
  /\ UNCHANGED <<clock, roster, memVars, hint, dirty, rowVars, flush, histVars>>

UnlockLockToken(c) ==
  /\ Idle(c) /\ c \in Admins /\ "lock" \in may
  /\ \E a \in ToSet(roster) :
       /\ locked[a]
       /\ Begin(c, [NoCall EXCEPT !.acct = a, !.todo = <<"unlock", "capture">>])
  /\ UNCHANGED <<clock, roster, memVars, hint, dirty, rowVars, flush, histVars>>

MaintainSweep(c) ==
  /\ Idle(c) /\ c \in Admins /\ "sweep" \in may
  /\ \E a \in ToSet(roster) :
       /\ quar[a] # 0 /\ ~Live(quar[a])
       /\ Begin(c, [NoCall EXCEPT !.acct = a, !.todo = LiftSteps])
  /\ UNCHANGED <<clock, roster, memVars, hint, dirty, rowVars, flush, histVars>>

\* SwapTokens and RemoveTokenAt, which refuses while an account is leased.
EditRoster ==
  /\ "edit" \in may /\ edits < MaxEdits /\ edits' = edits + 1
  /\ \/ \E i, j \in DOMAIN roster :
          /\ i < j
          /\ roster' = [roster EXCEPT ![i] = roster[j], ![j] = roster[i]]
     \/ /\ \A c \in Walkers : ~At(c, "lease")
        /\ \E i \in DOMAIN roster : roster' = RemoveAt(roster, i)
  /\ UNCHANGED <<clock, memVars, hint, dirty, rowVars, call, flush, told, deaths, may>>

---------------------------------------------------------------------------
\* The steps that change a RunManager's windows.
DoWindows(c) ==
  LET a == call[c].acct
      t == call[c].until
  IN /\ \/ /\ Does(c, "ban")
           /\ gate' = [gate EXCEPT ![a] = CooldownBan(@, t)]
           /\ told' = [told EXCEPT ![a] = IF Live(t) THEN t ELSE 0]
        \/ /\ Does(c, "country")
           /\ gate' = [gate EXCEPT ![a] = CooldownCountryBlocked(@)]
           /\ UNCHANGED told
        \/ /\ Does(c, "cool")
           /\ gate' = [gate EXCEPT ![a] = Cooldown(@, t)]
           /\ told' = [told EXCEPT ![a] = 0]
        \/ /\ Does(c, "clear")
           /\ gate' = [gate EXCEPT ![a] = ClearCooldowns(@)]
           /\ told' = [told EXCEPT ![a] = 0]
        \/ /\ Does(c, "remember")
           /\ gate' = [gate EXCEPT ![a] = RememberModelRateLimit(@, t)]
           /\ UNCHANGED told
     /\ call' = [call EXCEPT ![c] = Rest(c)]
     /\ UNCHANGED <<clock, roster, locked, quar, spent, count, hint, dirty, rowVars,
                    flush, edits, deaths, may>>

\* quarantineToken: only while the ban is live, and only over no marker.
QuarantineToken(c) ==
  LET a == call[c].acct
  IN /\ Does(c, "quarantine")
     /\ quar' = [quar EXCEPT ![a] = IF BanError(a) /\ @ = 0 THEN call[c].until ELSE @]
     /\ call' = [call EXCEPT ![c] = Rest(c)]
     /\ UNCHANGED <<clock, roster, locked, gate, spent, count, hint, dirty, rowVars,
                    flush, histVars>>

\* clearLiftedQuarantine; the one that clears the marker drops the hint and
\* persists the entry.
ClearLiftedQuarantine(c) ==
  LET a == call[c].acct
  IN /\ Does(c, "lift")
     /\ quar' = [quar EXCEPT ![a] = IF Live(@) THEN @ ELSE 0]
     /\ call' = [call EXCEPT ![c] =
                   IF quar[a] # 0 /\ ~Live(quar[a]) THEN Then(c, <<"popHint", "capture">>)
                   ELSE Rest(c)]
     /\ UNCHANGED <<clock, roster, locked, gate, spent, count, hint, dirty, rowVars,
                    flush, histVars>>

Unquarantine(c) ==
  /\ Does(c, "unquarantine")
  /\ quar' = [quar EXCEPT ![call[c].acct] = 0]
  /\ told' = [told EXCEPT ![call[c].acct] = 0]
  /\ call' = [call EXCEPT ![c] = Rest(c)]
  /\ UNCHANGED <<clock, roster, locked, gate, spent, count, hint, dirty, rowVars, flush,
                 edits, deaths, may>>

SetLocked(c) ==
  /\ Does(c, "lock") \/ Does(c, "unlock")
  /\ locked' = [locked EXCEPT ![call[c].acct] = Does(c, "lock")]
  /\ call' = [call EXCEPT ![c] = Rest(c)]
  /\ UNCHANGED <<clock, roster, quar, gate, spent, count, hint, dirty, rowVars, flush, histVars>>

\* UpdateQuotaFromProbe: the meter the gates read.
UpdateQuotaFromProbe(c) ==
  /\ Does(c, "meter")
  /\ spent' = [spent EXCEPT ![call[c].acct] = call[c].until]
  /\ call' = [call EXCEPT ![c] = Rest(c)]
  /\ UNCHANGED <<clock, roster, locked, quar, gate, count, hint, dirty, rowVars, flush, histVars>>

RecordChat(c) ==
  /\ Does(c, "record")
  /\ count' = [count EXCEPT ![call[c].acct] = @ + 1]
  /\ call' = [call EXCEPT ![c] = Rest(c)]
  /\ UNCHANGED <<clock, roster, locked, quar, gate, spent, hint, dirty, rowVars, flush, histVars>>

MarkPersistDirty(c) ==
  /\ Does(c, "mark") /\ dirty' = TRUE
  /\ call' = [call EXCEPT ![c] = Rest(c)]
  /\ UNCHANGED <<clock, roster, memVars, hint, rowVars, flush, histVars>>

\* storeCooldownHint in memory: the live ban (storeBanHint; a ban that has lifted
\* meanwhile drops the hint instead), the country window a walk has met, or the
\* one a probe has just set, if it has set any (storeCountryHint).
HintUntil(c) ==
  LET a == call[c].acct
  IN CASE Does(c, "storeBan") -> IF BanError(a) THEN gate[a].ban ELSE 0
       [] Does(c, "storeCountry") -> call[c].until
       [] OTHER -> gate[a].cool

StoreHint(c) ==
  LET t == HintUntil(c)
  IN /\ Does(c, "storeBan") \/ Does(c, "storeCountry") \/ Does(c, "mirrorCountry")
     /\ hint' = [hint EXCEPT ![call[c].acct] = IF t = 0 THEN @ ELSE t]
     /\ dirty' = (dirty \/ t # 0)
     /\ call' = [call EXCEPT ![c] =
                   IF t # 0 THEN [Then(c, <<"writeHint">>) EXCEPT !.val = t]
                   ELSE Then(c, IF Does(c, "storeBan") THEN <<"popHint">> ELSE <<>>)]
     /\ UNCHANGED <<clock, roster, memVars, rowVars, flush, histVars>>

\* clearCooldownHint in memory; without a hint there is nothing to delete.
PopHint(c) ==
  LET a == call[c].acct
  IN /\ Does(c, "popHint")
     /\ hint' = [hint EXCEPT ![a] = 0]
     /\ dirty' = (dirty \/ hint[a] # 0)
     /\ call' = [call EXCEPT ![c] = IF hint[a] # 0 THEN Then(c, <<"dropHint">>) ELSE Rest(c)]
     /\ UNCHANGED <<clock, roster, memVars, rowVars, flush, histVars>>

\* The rows of the hint, written and deleted best effort.
HintRowStep(c) ==
  /\ Does(c, "writeHint") \/ Does(c, "dropHint")
  /\ \/ hintRow' = [hintRow EXCEPT ![call[c].acct] =
                      IF Does(c, "writeHint") THEN call[c].val ELSE NoRow]
     \/ "dbfails" \in may /\ UNCHANGED hintRow
  /\ call' = [call EXCEPT ![c] = Rest(c)]
  /\ UNCHANGED <<clock, roster, memVars, hint, dirty, countRow, stateRow, flush, histVars>>

\* persistTokenState: a snapshot of the entry, the ledger through its position,
\* then the write.
StateOf(a) ==
  [locked |-> locked[a], quar |-> quar[a], gate |-> [gate[a] EXCEPT !.limit = 0],
   count |-> IF a \in ToSet(roster) THEN count[a] ELSE 0]

PersistTokenState(c) ==
  /\ Does(c, "capture")
  /\ call' = [call EXCEPT ![c] = [Then(c, <<"save">>) EXCEPT !.row = StateOf(call[c].acct)]]
  /\ UNCHANGED <<clock, roster, memVars, hint, dirty, rowVars, flush, histVars>>

SaveTokenState(c) ==
  /\ Does(c, "save")
  /\ \/ stateRow' = [stateRow EXCEPT ![call[c].acct] = call[c].row]
     \/ "dbfails" \in may /\ UNCHANGED stateRow
  /\ call' = [call EXCEPT ![c] = [Rest(c) EXCEPT !.row = NoRow]]
  /\ UNCHANGED <<clock, roster, memVars, hint, dirty, hintRow, countRow, flush, histVars>>

---------------------------------------------------------------------------
\* FlushPoolPersist: the flag is taken first, then the ledgers, then the hints
\* are copied under their own locks, then the rows are written one by one.
NoFlush == [pc |-> "idle", counts |-> [a \in Accts |-> NoRow],
            hints |-> [a \in Accts |-> NoRow], left |-> {}]

TakeDirty ==
  /\ flush.pc = "idle" /\ dirty /\ "flush" \in may
  /\ dirty' = FALSE
  /\ flush' = [NoFlush EXCEPT !.pc = "ledgers"]
  /\ UNCHANGED <<clock, roster, memVars, hint, rowVars, call, histVars>>

SnapshotLedgers ==
  /\ flush.pc = "ledgers"
  /\ flush' = [flush EXCEPT !.pc = "hints",
                 !.counts = [a \in Accts |-> IF a \in ToSet(roster) THEN count[a] ELSE NoRow]]
  /\ UNCHANGED <<clock, roster, memVars, hint, dirty, rowVars, call, histVars>>

SnapshotCooldownHintsThenClean ==
  /\ flush.pc = "hints"
  /\ flush' = [flush EXCEPT !.pc = "save",
                 !.hints = [a \in Accts |-> IF CooldownHintFresh(a) THEN hint[a] ELSE NoRow],
                 !.left = {"count"} \X {a \in Accts : flush.counts[a] # NoRow}]
  /\ dirty' = FALSE
  /\ UNCHANGED <<clock, roster, memVars, hint, rowVars, call, histVars>>

\* snapshotCooldownHints also prunes what has expired.
SnapshotCooldownHints ==
  /\ flush.pc = "hints"
  /\ hint' = [a \in Accts |-> IF CooldownHintFresh(a) THEN hint[a] ELSE 0]
  /\ flush' = [flush EXCEPT !.pc = "save",
                 !.hints = [a \in Accts |-> IF CooldownHintFresh(a) THEN hint[a] ELSE NoRow],
                 !.left = {r \in {"count", "hint"} \X Accts :
                             IF r[1] = "count" THEN flush.counts[r[2]] # NoRow
                             ELSE CooldownHintFresh(r[2])}]
  /\ UNCHANGED <<clock, roster, memVars, dirty, rowVars, call, histVars>>

FlushRow ==
  /\ flush.pc = "save"
  /\ \E r \in flush.left :
       /\ r[1] = "hint" => \A s \in flush.left : s[1] = "hint"
       /\ \/ /\ IF r[1] = "count"
                THEN /\ countRow' = [countRow EXCEPT ![r[2]] = flush.counts[r[2]]]
                     /\ UNCHANGED hintRow
                ELSE /\ hintRow' = [hintRow EXCEPT ![r[2]] = flush.hints[r[2]]]
                     /\ UNCHANGED countRow
             /\ flush' = [flush EXCEPT !.left = @ \ {r}]
             /\ UNCHANGED dirty
          \/ /\ "dbfails" \in may
             /\ dirty' = TRUE
             /\ flush' = NoFlush
             /\ UNCHANGED <<hintRow, countRow>>
  /\ UNCHANGED <<clock, roster, memVars, hint, stateRow, call, told, edits, deaths, may>>

\* The orphan prune: rows of accounts the snapshot did not have, those that can
\* be deleted.
FlushPrune ==
  LET orphans == {r \in {"count", "hint"} \X Accts :
                    IF r[1] = "count" THEN flush.counts[r[2]] = NoRow
                    ELSE flush.hints[r[2]] = NoRow}
  IN
  /\ flush.pc = "save" /\ flush.left = {}
  /\ \E kept \in SUBSET orphans :
       /\ kept # {} => "prunefails" \in may
       /\ countRow' = [a \in Accts |->
                         IF <<"count", a>> \in orphans \ kept THEN NoRow ELSE countRow[a]]
       /\ hintRow' = [a \in Accts |->
                        IF <<"hint", a>> \in orphans \ kept THEN NoRow ELSE hintRow[a]]
  /\ flush' = NoFlush
  /\ UNCHANGED <<clock, roster, memVars, hint, dirty, stateRow, call, histVars>>

---------------------------------------------------------------------------
\* What RestoreTokenState gives an account, and after it RestorePoolPersist:
\* its ledger row replaces the count, a hint that has lapsed stays away.
RestoredCount(a) ==
  IF countRow[a] # NoRow THEN countRow[a]
  ELSE IF stateRow[a] # NoRow THEN stateRow[a].count ELSE 0

RestoredHint(a) ==
  IF hintRow[a] # NoRow /\ (hintRow[a] = Never \/ Live(hintRow[a])) THEN hintRow[a] ELSE 0

\* The process dies and starts again.
Restart ==
  /\ "crash" \in may /\ deaths < MaxDeaths /\ deaths' = deaths + 1
  /\ locked' = [a \in Accts |-> stateRow[a] # NoRow /\ stateRow[a].locked]
  /\ quar' = [a \in Accts |-> IF stateRow[a] # NoRow THEN stateRow[a].quar ELSE 0]
  /\ gate' = [a \in Accts |-> IF stateRow[a] # NoRow THEN stateRow[a].gate ELSE Open]
  /\ spent' = [a \in Accts |-> 0]
  /\ count' = [a \in Accts |-> RestoredCount(a)]
  /\ hint' = [a \in Accts |-> RestoredHint(a)]
  /\ hintRow' = [a \in Accts |-> IF RestoredHint(a) = 0 THEN NoRow ELSE hintRow[a]]
  /\ dirty' = FALSE
  /\ call' = [c \in Callers |-> NoCall]
  /\ flush' = NoFlush
  /\ told' = [a \in Accts |-> 0]
  /\ UNCHANGED <<clock, roster, countRow, stateRow, edits, may>>

Tick ==
  /\ "tick" \in may /\ clock < MaxNow /\ clock' = clock + 1
  /\ UNCHANGED <<roster, memVars, hint, dirty, rowVars, call, flush, histVars>>

---------------------------------------------------------------------------
AccountsInit ==
  /\ clock = 1
  /\ \E s \in Settings : roster = SetToSeq(s[1]) /\ may = s[2]
  /\ locked = [a \in Accts |-> FALSE] /\ quar = [a \in Accts |-> 0]
  /\ gate = [a \in Accts |-> Open] /\ spent = [a \in Accts |-> 0]
  /\ count = [a \in Accts |-> 0] /\ hint = [a \in Accts |-> 0] /\ dirty = FALSE
  /\ hintRow = [a \in Accts |-> NoRow] /\ countRow = [a \in Accts |-> NoRow]
  /\ stateRow = [a \in Accts |-> NoRow]
  /\ call = [c \in Callers |-> NoCall] /\ flush = NoFlush
  /\ told = [a \in Accts |-> 0]
  /\ edits = 0 /\ deaths = 0

CallerStep(c) ==
  \/ Acquire(c) \/ TryLane(c) \/ AcquireFails(c) \/ AdmissionRefused(c) \/ Admitted(c)
  \/ ChatDone(c) \/ ProbeToken(c) \/ ProbeAnswered(c) \/ ProbeMetered(c)
  \/ UnlockToken(c) \/ LockToken(c) \/ UnlockLockToken(c) \/ MaintainSweep(c)
  \/ DoWindows(c) \/ QuarantineToken(c) \/ ClearLiftedQuarantine(c) \/ Unquarantine(c)
  \/ SetLocked(c) \/ UpdateQuotaFromProbe(c) \/ RecordChat(c) \/ MarkPersistDirty(c)
  \/ StoreHint(c) \/ PopHint(c) \/ HintRowStep(c) \/ PersistTokenState(c) \/ SaveTokenState(c)

FlushStep ==
  TakeDirty \/ SnapshotLedgers \/ SnapshotCooldownHints \/ FlushRow \/ FlushPrune

AccountsNext ==
  (\E c \in Callers : CallerStep(c)) \/ FlushStep \/ EditRoster \/ Restart \/ Tick

AccountsSpec == AccountsInit /\ [][AccountsNext]_accountsVars

---------------------------------------------------------------------------
\* A ban the upstream has told the pool of is never lost: until its end, or until
\* an unlock, a session or a healthy probe speaks for the account, no walk admits
\* the account, whatever cooldowns, country blocks, expired quarantines, hints
\* and other answers are applied to it meanwhile (runs.CooldownBan,
\* CooldownCountryBlocked, quarantineToken, clearLiftedQuarantine).
BanHeld ==
  \A a \in Accts : Live(told[a]) => ~WalkGates(a, FALSE)

\* When the dirty flag is down and nobody is between memory and store, a
\* restart would bring back exactly the counts and the live hints memory has:
\* no order of marks, snapshots, direct row writes and prunes loses a change
\* for good (FlushPoolPersist, storeCooldownHint, clearCooldownHint).
FlushCatchesUp ==
  (~dirty /\ flush.pc = "idle" /\ \A c \in Callers : call[c].todo = <<>>)
    => \A a \in ToSet(roster) :
         /\ RestoredCount(a) = count[a]
         /\ RestoredHint(a) = IF CooldownHintFresh(a) THEN hint[a] ELSE 0
=============================================================================
