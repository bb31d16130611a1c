------------------------------- MODULE Ledger -------------------------------
(***************************************************************************)
(* The spend and request ledger of one account (pool/spend.go,             *)
(* pool_ledger.go, ledger_persist.go and the ledger half of                *)
(* pool_persist.go): a rolling day kept with a running total, buckets per  *)
(* Pacific day, week and month, and the two rows a restart reads them from.*)
(*                                                                         *)
(* Time is counted in hours of UTC and a date is a day of one year, 0      *)
(* being the first of January.  A build has the zone database or derives   *)
(* Pacific time from the daylight-saving rule of the law.                  *)
(***************************************************************************)
EXTENDS Integers, Sequences, FiniteSetsExt, SequencesExt

CONSTANTS
  FirstWeekday, \* the weekday of day 0, Sunday being 0
  MonthFirst,   \* the day on which every month of the year begins
  Hours,        \* sequences of hours: those of one behaviour
  Amounts,      \* token counts of a chat
  MaxSpends,    \* bound: chats of a behaviour
  NoLedger      \* a row that is not in the store

Periods == {"day", "week", "month"}
Window  == 24

VARIABLES
  hour,     \* time.Now()
  ahead,    \* the hours to come
  tzdata,   \* the zone database is there
  ledger,   \* the AccountLedger
  flushed,  \* its pool/ledger/ row
  blob,     \* the ledger in its token_state row
  known,    \* history: the spends and chats the ledger ought to know
  rowKnown, \* history: the same for each of the rows
  spends    \* chats so far

ledgerVars == <<hour, ahead, tzdata, ledger, flushed, blob, known, rowKnown, spends>>

---------------------------------------------------------------------------
\* The calendar.
Weekday(d)   == (d + FirstWeekday) % 7
NthSunday(m, n) == MonthFirst[m] + ((7 - Weekday(MonthFirst[m])) % 7) + (n - 1) * 7
Spring == NthSunday(3, 2)
Fall   == NthSunday(11, 1)

PacificOffsetAt(h) == IF h >= 24 * Spring + 10 /\ h < 24 * Fall + 9 THEN 7 ELSE 8

PacificOffsetAtLocalMidnightEarly(d) == IF d >= Spring /\ d < Fall + 1 THEN 7 ELSE 8

\* On both Sundays the clocks change after their own midnight.
PacificOffsetAtLocalMidnight(d) == IF d > Spring /\ d < Fall + 1 THEN 7 ELSE 8

PacificDate(h) == (h - PacificOffsetAt(h)) \div 24
Midnight(d)    == 24 * d + PacificOffsetAtLocalMidnight(d)

\* The first day of the period a date is in, and of the next one.
MonthOf(d) == Max({m \in DOMAIN MonthFirst : MonthFirst[m] <= d})
FirstDay(d, p) ==
  CASE p = "day" -> d
    [] p = "week" -> d - ((Weekday(d) + 6) % 7)
    [] OTHER -> MonthFirst[MonthOf(d)]
NextFirst(d, p) ==
  CASE p = "day" -> d + 1
    [] p = "week" -> d + 7
    [] OTHER -> d + (MonthFirst[MonthOf(d) + 1] - MonthFirst[MonthOf(d)])

\* With the zone database: the instant whose wall clock reads 00:00 that day.
WallClock(h)  == h - PacificOffsetAt(h)
ZoneMidnight(d) == CHOOSE h \in 24 * d + 7 .. 24 * d + 8 : WallClock(h) = 24 * d
ZoneStart(h, p) == ZoneMidnight(FirstDay(WallClock(h) \div 24, p))

BucketStart(h, p) ==
  IF tzdata THEN ZoneStart(h, p) ELSE Midnight(FirstDay(PacificDate(h), p))

NextBoundary(start, p) ==
  IF tzdata THEN ZoneMidnight(NextFirst(WallClock(start) \div 24, p))
  ELSE Midnight(NextFirst(PacificDate(start), p))

NeedsRollover(start, p, h) == start = 0 \/ h >= NextBoundary(start, p)

---------------------------------------------------------------------------
\* The ledger.
NewLedger ==
  [rolling |-> <<>>, total |-> 0, usage |-> <<>>,
   used |-> [p \in Periods |-> 0], start |-> [p \in Periods |-> 0],
   reqStart |-> 0, reqCount |-> 0]

Tokens(s) == FoldLeft(LAMBDA n, e : n + e.tokens, 0, s)
Stale(e, h) == e.at < h - Window

\* Entries are in the order of time; the ones before the cutoff go.
Expired(s, h) == SelectSeq(s, LAMBDA e : Stale(e, h))
Kept(s, h)    == SelectSeq(s, LAMBDA e : ~Stale(e, h))

Rolling24h(l, h) ==
  [l EXCEPT !.rolling = Kept(@, h), !.total = @ - Tokens(Expired(l.rolling, h))]

RollBucket(l, p, h, n) ==
  IF NeedsRollover(l.start[p], p, h) THEN [used |-> n, start |-> BucketStart(h, p)]
  ELSE [used |-> l.used[p] + n, start |-> l.start[p]]

RollAll(l, h, n) ==
  [l EXCEPT !.used  = [p \in Periods |-> RollBucket(l, p, h, n).used],
            !.start = [p \in Periods |-> RollBucket(l, p, h, n).start]]

Add(l, h, n) ==
  RollAll([Rolling24h(l, h) EXCEPT !.rolling = Append(@, [at |-> h, tokens |-> n]),
                                   !.total = @ + n], h, n)

DayRequestCount(l, h) ==
  IF BucketStart(h, "day") = l.reqStart THEN l
  ELSE [l EXCEPT !.reqStart = BucketStart(h, "day"), !.reqCount = 0]

UsageCount(l, h) == [l EXCEPT !.usage = Kept(@, h)]

RecordDayRequest(l, h) == [DayRequestCount(l, h) EXCEPT !.reqCount = @ + 1]

RecordChatAt(l, h) ==
  RecordDayRequest([UsageCount(l, h) EXCEPT !.usage = Append(@, [at |-> h])], h)

\* What the rows hold: the running total is not among it.
AccountSnapshotOf(l) == [l EXCEPT !.total = 0]

\* applySpendTo and applyAccountTo: as it was saved, the total summed again.
ApplySpendTo(row) == [row EXCEPT !.total = Tokens(row.rolling)]

\* installLedger: what has left its window stays away, closed buckets roll.
InstallLedger(row, h) ==
  LET l == [row EXCEPT !.rolling = Kept(@, h), !.usage = Kept(@, h)]
  IN RollAll(DayRequestCount([l EXCEPT !.total = Tokens(l.rolling)], h), h, 0)

---------------------------------------------------------------------------
\* A chat is counted when it is sent, its tokens when its usage is known; each
\* time the token_state row is saved.
RecordChatEntry ==
  /\ spends < MaxSpends /\ spends' = spends + 1
  /\ ledger' = RecordChatAt(ledger, hour)
  /\ known' = [known EXCEPT !.chats = Append(@, [at |-> hour])]
  /\ blob' = AccountSnapshotOf(ledger')
  /\ rowKnown' = [rowKnown EXCEPT !.blob = known']
  /\ UNCHANGED <<hour, ahead, tzdata, flushed>>

RecordSpend ==
  /\ spends < MaxSpends /\ spends' = spends + 1
  /\ \E n \in Amounts :
       /\ ledger' = Add(ledger, hour, n)
       /\ known' = [known EXCEPT !.spends = Append(@, [at |-> hour, tokens |-> n])]
  /\ blob' = AccountSnapshotOf(ledger')
  /\ rowKnown' = [rowKnown EXCEPT !.blob = known']
  /\ UNCHANGED <<hour, ahead, tzdata, flushed>>

\* ledgerSnapshot of a dashboard read: it prunes what it reads.
LedgerSnapshot ==
  /\ ledger' = DayRequestCount(Rolling24h(UsageCount(ledger, hour), hour), hour)
  /\ UNCHANGED <<hour, ahead, tzdata, flushed, blob, known, rowKnown, spends>>

FlushLedger ==
  /\ flushed' = AccountSnapshotOf(ledger)
  /\ rowKnown' = [rowKnown EXCEPT !.flushed = known]
  /\ UNCHANGED <<hour, ahead, tzdata, ledger, blob, known, spends>>

\* A restart: RestoreTokenState, then restoreLedgers where there is a row.
RestartLedger ==
  /\ blob # NoLedger
  /\ ledger' = IF flushed # NoLedger THEN InstallLedger(flushed, hour) ELSE ApplySpendTo(blob)
  /\ known' = IF flushed # NoLedger THEN rowKnown.flushed ELSE rowKnown.blob
  /\ UNCHANGED <<hour, ahead, tzdata, flushed, blob, rowKnown, spends>>

HourPasses ==
  /\ ahead # <<>> /\ hour' = Head(ahead) /\ ahead' = Tail(ahead)
  /\ UNCHANGED <<tzdata, ledger, flushed, blob, known, rowKnown, spends>>

LedgerInit ==
  /\ \E s \in Hours : hour = Head(s) /\ ahead = Tail(s)
  /\ tzdata \in BOOLEAN
  /\ ledger = NewLedger /\ flushed = NoLedger /\ blob = NoLedger
  /\ known = [spends |-> <<>>, chats |-> <<>>]
  /\ rowKnown = [flushed |-> known, blob |-> known]
  /\ spends = 0

LedgerNext ==
  RecordChatEntry \/ RecordSpend \/ LedgerSnapshot \/ FlushLedger \/ RestartLedger \/ HourPasses

LedgerSpec == LedgerInit /\ [][LedgerNext]_ledgerVars

---------------------------------------------------------------------------
\* The reference: what the account has spent since an instant.
SpentSince(t) == Tokens(SelectSeq(known.spends, LAMBDA e : e.at >= t))
ChatsSince(t) == Len(SelectSeq(known.chats, LAMBDA e : e.at >= t))

\* Whatever was pruned, rolled over, saved and restored, and in the hours
\* around both clock changes: the running total of the last 24 hours is the sum
\* over them, an open bucket holds what was spent since the Pacific midnight its
\* period began with, a closed one closed because a new period has begun, and
\* the request count is the one of the Pacific day (spendLedger.add, rolling24h,
\* rollBucket, needsRollover, recordDayRequest, installLedger).
SpendExact ==
  /\ Rolling24h(ledger, hour).total = SpentSince(hour - Window)
  /\ Len(UsageCount(ledger, hour).usage) = ChatsSince(hour - Window)
  /\ \A p \in Periods :
       IF NeedsRollover(ledger.start[p], p, hour)
       THEN ledger.start[p] < ZoneStart(hour, p)
       ELSE /\ ledger.start[p] = ZoneStart(hour, p)
            /\ ledger.used[p] = SpentSince(ZoneStart(hour, p))
  /\ DayRequestCount(ledger, hour).reqCount = ChatsSince(ZoneStart(hour, "day"))
=============================================================================
